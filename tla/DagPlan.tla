------------------------------- MODULE DagPlan -------------------------------
(***************************************************************************)
(* The plan of a DAG (validate_dag and descendants in                      *)
(* src/spark_dag/dag_validator.py), for every dependency relation over     *)
(* Nodes: Kahn's algorithm with a heap of ready nodes, the rejection of    *)
(* cycles, the entry nodes, and the worklist that finds what lies below a  *)
(* set of nodes.  Scheduler takes the plan and the descendants from here.  *)
(* Node identifiers are numbers: only their order matters.                 *)
(*                                                                         *)
(* PopLast, TakeEarly, WithoutCycleCheck and BelowDependencies are faults  *)
(* that a change of this code could bring in; no action uses them.         *)
(***************************************************************************)
EXTENDS Naturals, Sequences, FiniteSetsExt

CONSTANT Nodes

ASSUME NodesAssumption == Nodes \subseteq Nat /\ IsFiniteSet(Nodes)

VARIABLES deps,        \* node -> the nodes it depends on
          entries,     \* dag.entry_nodes
          indegree,    \* node -> dependencies not yet planned
          ready,       \* the heap
          plan,
          phase,       \* "kahn", "entries", "descend", "accepted" or an error code
          result,      \* of descendants
          pending      \* its worklist

vars == <<deps, entries, indegree, ready, plan, phase, result, pending>>

Children(n) == {m \in Nodes : n \in deps[m]}
Roots == {n \in Nodes : deps[n] = {}}
Planned == {plan[i] : i \in 1..Len(plan)}

Init ==
    /\ deps \in [Nodes -> SUBSET Nodes]
    /\ entries = {}
    /\ indegree = [n \in Nodes |-> Cardinality(deps[n])]
    /\ ready = Roots
    /\ plan = <<>>
    /\ phase = "kahn"
    /\ result = {} /\ pending = {}

-----------------------------------------------------------------------------
(* One turn of Kahn's loop: the least ready node is planned, and its       *)
(* children lose a dependency.                                             *)
PopLast == Max(ready)

Pop == Min(ready)

TakeEarly(n) == ready \cup Children(n)

Take(n) == ready \cup {m \in Children(n) : indegree[m] = 1}

PlanOne ==
    /\ phase = "kahn" /\ ready # {}
    /\ LET n == Pop
       IN  /\ plan' = Append(plan, n)
           /\ indegree' = [m \in Nodes |-> IF m \in Children(n) THEN indegree[m] - 1
                                                                ELSE indegree[m]]
           /\ ready' = Take(n) \ {n}
    /\ UNCHANGED <<deps, entries, phase, result, pending>>

WithoutCycleCheck ==
    /\ phase = "kahn" /\ ready = {}
    /\ phase' = "entries"
    /\ UNCHANGED <<deps, entries, indegree, ready, plan, result, pending>>

PlanEnds ==
    /\ phase = "kahn" /\ ready = {}
    /\ phase' = IF Len(plan) # Cardinality(Nodes) THEN "DAG_CYCLE" ELSE "entries"
    /\ UNCHANGED <<deps, entries, indegree, ready, plan, result, pending>>

(* The entry nodes of the manifest are read here: any set of nodes. *)
ReadEntries ==
    /\ phase = "entries"
    /\ entries' \in SUBSET Nodes
    /\ phase' = "descend"
    /\ result' = entries' /\ pending' = entries'
    /\ UNCHANGED <<deps, indegree, ready, plan>>

(* One turn of the worklist of descendants. *)
BelowDependencies(n) == deps[n] \ result

Below(n) == Children(n) \ result

Descend ==
    /\ phase = "descend"
    /\ \E n \in pending :
           /\ result' = result \cup Below(n)
           /\ pending' = (pending \ {n}) \cup Below(n)
    /\ UNCHANGED <<deps, entries, indegree, ready, plan, phase>>

CheckEntries ==
    /\ phase = "descend" /\ pending = {}
    /\ phase' = IF entries # Roots \/ result # Nodes THEN "UNREACHABLE_NODE" ELSE "accepted"
    /\ UNCHANGED <<deps, entries, indegree, ready, plan, result, pending>>

Rest == phase \in {"accepted", "DAG_CYCLE", "UNREACHABLE_NODE"} /\ UNCHANGED vars

Next == PlanOne \/ PlanEnds \/ ReadEntries \/ Descend \/ CheckEntries \/ Rest

Spec == Init /\ [][Next]_vars

-----------------------------------------------------------------------------
TypeOK ==
    /\ deps \in [Nodes -> SUBSET Nodes]
    /\ entries \subseteq Nodes
    /\ indegree \in [Nodes -> 0..Cardinality(Nodes)]
    /\ ready \subseteq Nodes \ Planned
    /\ plan \in Seq(Nodes)
    /\ phase \in {"kahn", "entries", "descend", "accepted", "DAG_CYCLE", "UNREACHABLE_NODE"}
    /\ result \subseteq Nodes /\ pending \subseteq result

(* Reference definitions.  A graph has a cycle when every member of some   *)
(* nonempty set has a dependency in it; what lies below a set of nodes is  *)
(* in every set that contains them and is closed under children.           *)
Cyclic == \E S \in SUBSET Nodes : S # {} /\ \A n \in S : deps[n] \cap S # {}

Closed(S) == \A n \in S : Children(n) \subseteq S

Reachable(origins) ==
    {n \in Nodes : \A S \in SUBSET Nodes : origins \subseteq S /\ Closed(S) => n \in S}

Topological(p) ==
    \A i \in 1..Len(p) : deps[p[i]] \subseteq {p[j] : j \in 1..(i - 1)}

Orders == {p \in [1..Cardinality(Nodes) -> Nodes] : {p[i] : i \in DOMAIN p} = Nodes}

Precedes(p, q) ==
    \E i \in 1..Len(p) : p[i] < q[i] /\ \A j \in 1..(i - 1) : p[j] = q[j]

(* Every node is planned after all it depends on, and once: what the       *)
(* scheduling loop assumes when it walks the plan.                         *)
PlanIsTopological == Topological(plan) /\ Cardinality(Planned) = Len(plan)

(* A dependency relation is rejected as a cycle exactly when it has one,   *)
(* and otherwise every node is planned.                                    *)
CyclesRejected ==
    /\ phase = "DAG_CYCLE" => Cyclic
    /\ phase \in {"entries", "descend", "accepted", "UNREACHABLE_NODE"} =>
           ~Cyclic /\ Planned = Nodes

(* The plan is the least topological order, so the same DAG always has the *)
(* same plan (design.md:43).                                               *)
PlanIsLeastOrder ==
    phase = "entries" =>
        \A p \in Orders : Topological(p) /\ p # plan => Precedes(plan, p)

(* descendants finds exactly what lies below its origins.                  *)
DescendantsAreReachable ==
    phase = "descend" /\ pending = {} => result = Reachable(entries)
=============================================================================
