---------------------------- MODULE DagPlanProofs ----------------------------
(***************************************************************************)
(* Theorems about DagPlan, for every finite set of nodes, dependency       *)
(* relation and set of entry nodes.                                        *)
(*                                                                         *)
(* The argument.  Kahn's loop keeps, of every node, how many dependencies  *)
(* are not planned, so the heap holds exactly the unplanned nodes whose    *)
(* dependencies all are, and each node planned is the least of those.  The *)
(* plan is therefore topological and, at each place, no topological order  *)
(* that agrees with it so far can have a lesser node.  When the heap is    *)
(* empty, every unplanned node has an unplanned dependency, which is a     *)
(* cycle; and a set that is a cycle has no first node in a plan.  The      *)
(* worklist of descendants only adds what every closed set above its       *)
(* origins has, and what it has worked off is closed.                      *)
(***************************************************************************)
EXTENDS DagPlan, FiniteSetTheorems, WellFoundedInduction, TLAPS

(* The nodes at the first k places of a sequence p of nodes. *)
First(p, k) == {p[i] : i \in 1..k}

Types ==
    /\ deps \in [Nodes -> SUBSET Nodes]
    /\ entries \subseteq Nodes
    /\ plan \in Seq(Nodes)
    /\ phase \in {"kahn", "entries", "descend", "accepted", "DAG_CYCLE", "UNREACHABLE_NODE"}
    /\ result \subseteq Nodes /\ pending \subseteq result

Counted == indegree = [n \in Nodes |-> Cardinality(deps[n] \ Planned)]

ReadyExactly == ready = {n \in Nodes \ Planned : deps[n] \subseteq Planned}

(* At each place of the plan is the least node whose dependencies are all  *)
(* planned before.                                                         *)
Greedy ==
    \A i \in 1..Len(plan) :
        /\ deps[plan[i]] \subseteq First(plan, i - 1)
        /\ \A m \in Nodes \ First(plan, i - 1) :
               deps[m] \subseteq First(plan, i - 1) => plan[i] <= m

Ended ==
    /\ phase = "DAG_CYCLE" => ready = {} /\ Planned # Nodes
    /\ phase \in {"entries", "descend", "accepted", "UNREACHABLE_NODE"} => Planned = Nodes

Worked ==
    phase = "descend" =>
        /\ entries \subseteq result
        /\ \A n \in result \ pending : Children(n) \subseteq result
        /\ \A S \in SUBSET Nodes : entries \subseteq S /\ Closed(S) => result \subseteq S

IInv ==
    /\ Types
    /\ Cardinality(Planned) = Len(plan)
    /\ Counted
    /\ ReadyExactly
    /\ Greedy
    /\ Ended
    /\ Worked

-----------------------------------------------------------------------------
(* A nonempty set of numbers has a least member. *)
LEMMA LeastNumber ==
  ASSUME NEW T, T \subseteq Nat, T # {}
  PROVE  \E i \in T : \A j \in T : i <= j
  <1>. DEFINE R == OpToRel(<, Nat)
  <1>1. IsWellFoundedOn(R, Nat) BY NatLessThanWellFounded, Zenon
  <1>2. \A i, j \in Nat : j < i => <<j, i>> \in R BY DEF OpToRel
  <1>. HIDE DEF R
  <1>3. PICK i \in T : \A j \in T : ~(<<j, i>> \in R) BY <1>1, WFMin, Zenon
  <1>4. \A j \in T : ~(j < i) BY <1>2, <1>3
  <1>. QED BY <1>3, <1>4

LEMMA MinIsLeast ==
  ASSUME NEW T, T \subseteq Nat, T # {}
  PROVE  Min(T) \in T /\ \A j \in T : Min(T) <= j
  <1>1. \E i \in T : \A j \in T : i <= j BY LeastNumber
  <1>. QED BY <1>1 DEF Min

LEMMA PlannedFinite ==
  ASSUME Types
  PROVE  /\ Planned \subseteq Nodes /\ Planned = First(plan, Len(plan))
         /\ IsFiniteSet(Planned) /\ Len(plan) \in Nat
         /\ \A n \in Nodes : IsFiniteSet(deps[n])
  <1>1. /\ Planned \subseteq Nodes /\ Planned = First(plan, Len(plan)) /\ Len(plan) \in Nat
        /\ \A n \in Nodes : deps[n] \subseteq Nodes
    BY DEF Types, Planned, First
  <1>2. \A S : S \subseteq Nodes => IsFiniteSet(S) BY NodesAssumption, FS_Subset
  <1>. QED BY <1>1, <1>2

LEMMA InitInvariant == Init => IInv
  <1>. SUFFICES ASSUME Init PROVE IInv OBVIOUS
  <1>1. Planned = {} /\ Len(plan) = 0 BY DEF Init, Planned
  <1>2. Types BY DEF Init, Types
  <1>3. Counted
    <2>1. \A n \in Nodes : deps[n] \ Planned = deps[n] BY <1>1
    <2>. QED BY <2>1 DEF Init, Counted
  <1>4. ReadyExactly BY <1>1, <1>2 DEF Init, ReadyExactly, Roots, Types
  <1>5. Cardinality(Planned) = Len(plan) BY <1>1, FS_EmptySet
  <1>6. Greedy BY <1>1 DEF Greedy
  <1>7. Ended /\ Worked BY DEF Init, Ended, Worked
  <1>. QED BY <1>2, <1>3, <1>4, <1>5, <1>6, <1>7 DEF IInv

-----------------------------------------------------------------------------
(* One turn of Kahn's loop. *)

LEMMA PlanOneInvariant ==
  ASSUME IInv, PlanOne
  PROVE  IInv'
  <1>. DEFINE n == Min(ready)
  <1>1. n \in ready /\ \A m \in ready : n <= m
    BY NodesAssumption, MinIsLeast DEF PlanOne, IInv, ReadyExactly
  <1>2. /\ plan' = Append(plan, n)
        /\ indegree' = [m \in Nodes |-> IF m \in Children(n) THEN indegree[m] - 1
                                                             ELSE indegree[m]]
        /\ ready' = (ready \cup {m \in Children(n) : indegree[m] = 1}) \ {n}
        /\ phase = "kahn"
        /\ UNCHANGED <<deps, entries, phase, result, pending>>
    BY DEF PlanOne, Pop, Take
  <1>. HIDE DEF n
  <1>3. n \in Nodes /\ n \notin Planned /\ deps[n] \subseteq Planned
    BY <1>1 DEF IInv, ReadyExactly
  <1>4. Types' BY <1>2, <1>3 DEF IInv, Types
  <1>5. /\ Len(plan') = Len(plan) + 1 /\ Len(plan) \in Nat
        /\ plan'[Len(plan) + 1] = n
        /\ \A i \in 1..Len(plan) : plan'[i] = plan[i]
    BY <1>2, <1>3 DEF IInv, Types
  <1>6. \A k \in 0..Len(plan) : First(plan', k) = First(plan, k)
    BY <1>5 DEF First
  <1>7. Planned' = Planned \cup {n}
    <2>1. 1..Len(plan') = (1..Len(plan)) \cup {Len(plan) + 1} BY <1>5
    <2>. QED BY <1>5, <2>1 DEF Planned
  <1>8. Cardinality(Planned') = Len(plan')
    <2>1. IsFiniteSet(Planned) /\ Cardinality(Planned) = Len(plan)
      BY PlannedFinite DEF IInv
    <2>2. Cardinality(Planned \cup {n}) = Cardinality(Planned) + 1
      BY <1>3, <2>1, FS_AddElement
    <2>. QED BY <1>5, <1>7, <2>1, <2>2
  <1>9. \A m \in Nodes : n \in deps[m] => m \notin Planned /\ m # n
    <2>1. ASSUME NEW m \in Planned PROVE deps[m] \subseteq Planned
      <3>1. PICK i \in 1..Len(plan) : plan[i] = m BY DEF Planned
      <3>2. First(plan, i - 1) \subseteq Planned BY <1>5 DEF First, Planned
      <3>. QED BY <3>1, <3>2 DEF IInv, Greedy
    <2>. QED BY <1>3, <2>1
  <1>10. \A m \in Nodes : /\ IsFiniteSet(deps[m] \ Planned)
                          /\ Cardinality(deps[m] \ Planned) \in Nat
    BY PlannedFinite, FS_Difference, FS_CardinalityType DEF IInv
  <1>11. Counted'
    <2>1. ASSUME NEW m \in Nodes
          PROVE  indegree'[m] = Cardinality(deps[m] \ Planned')
      <3>1. deps[m] \ Planned' = (deps[m] \ Planned) \ {n} BY <1>7
      <3>2. Cardinality(deps[m] \ Planned') =
              IF n \in deps[m] THEN Cardinality(deps[m] \ Planned) - 1
                               ELSE Cardinality(deps[m] \ Planned)
        BY <1>3, <1>10, <3>1, FS_RemoveElement
      <3>. QED BY <1>2, <3>2 DEF IInv, Counted, Children
    <2>. QED BY <1>2, <2>1 DEF Counted
  <1>12. ReadyExactly'
    <2>1. ASSUME NEW m \in Nodes, n \in deps[m]
          PROVE  indegree[m] = 1 <=> deps[m] \subseteq Planned \cup {n}
      <3>1. n \in deps[m] \ Planned BY <1>3, <2>1
      <3>2. indegree[m] = 1 <=> \E x : deps[m] \ Planned = {x}
        BY <1>10, FS_Singleton DEF IInv, Counted
      <3>. QED BY <3>1, <3>2
    <2>2. ASSUME NEW m \in Nodes
          PROVE  m \in ready' <=> m \notin Planned' /\ deps[m] \subseteq Planned'
      <3>1. CASE n \in deps[m]
        <4>1. m \notin ready BY <1>3, <3>1 DEF IInv, ReadyExactly
        <4>. QED BY <1>2, <1>7, <1>9, <2>1, <3>1, <4>1 DEF Children
      <3>2. CASE n \notin deps[m]
        <4>1. m \in ready' <=> m \in ready /\ m # n BY <1>2, <3>2 DEF Children
        <4>. QED BY <1>7, <3>2, <4>1 DEF IInv, ReadyExactly
      <3>. QED BY <3>1, <3>2
    <2>3. ready' \subseteq Nodes BY <1>2 DEF IInv, ReadyExactly, Children
    <2>. QED BY <1>2, <2>2, <2>3 DEF ReadyExactly
  <1>13. Greedy'
    <2>. SUFFICES ASSUME NEW i \in 1..(Len(plan) + 1)
                  PROVE  /\ deps[plan'[i]] \subseteq First(plan', i - 1)
                         /\ \A m \in Nodes \ First(plan', i - 1) :
                                deps[m] \subseteq First(plan', i - 1) => plan'[i] <= m
      BY <1>2, <1>5 DEF Greedy
    <2>1. First(plan', i - 1) = First(plan, i - 1) BY <1>5, <1>6
    <2>2. CASE i = Len(plan) + 1
      <3>1. First(plan, i - 1) = Planned BY <1>5, <2>2 DEF First, Planned
      <3>. QED BY <1>1, <1>3, <1>5, <2>1, <2>2, <3>1 DEF IInv, ReadyExactly
    <2>3. CASE i \in 1..Len(plan)
      BY <1>5, <2>1, <2>3 DEF IInv, Greedy
    <2>. QED BY <1>5, <2>2, <2>3
  <1>14. Ended' /\ Worked' BY <1>2 DEF Ended, Worked
  <1>. QED BY <1>4, <1>8, <1>11, <1>12, <1>13, <1>14 DEF IInv

(* The steps after the loop leave it alone. *)
LEMMA LoopKept ==
  ASSUME IInv, UNCHANGED <<deps, indegree, ready, plan>>
  PROVE  (Cardinality(Planned) = Len(plan) /\ Counted /\ ReadyExactly /\ Greedy)'
  <1>1. Planned' = Planned BY DEF Planned
  <1>2. \A k : First(plan', k) = First(plan, k) OBVIOUS
  <1>. QED BY <1>1, <1>2 DEF IInv, Counted, ReadyExactly, Greedy

LEMMA PlanEndsInvariant ==
  ASSUME IInv, PlanEnds
  PROVE  IInv'
  <1>1. /\ phase = "kahn" /\ ready = {}
        /\ phase' = IF Len(plan) # Cardinality(Nodes) THEN "DAG_CYCLE" ELSE "entries"
        /\ UNCHANGED <<deps, entries, indegree, ready, plan, result, pending>>
    BY DEF PlanEnds
  <1>2. Planned = Nodes <=> Len(plan) = Cardinality(Nodes)
    BY NodesAssumption, PlannedFinite, FS_Subset DEF IInv
  <1>3. Planned' = Planned BY <1>1 DEF Planned
  <1>4. Types' BY <1>1 DEF IInv, Types
  <1>5. Ended' /\ Worked' BY <1>1, <1>2, <1>3 DEF Ended, Worked
  <1>. QED BY <1>1, <1>4, <1>5, LoopKept DEF IInv

-----------------------------------------------------------------------------
(* The worklist of descendants. *)

LEMMA ReadEntriesInvariant ==
  ASSUME IInv, ReadEntries
  PROVE  IInv'
  <1>1. /\ phase = "entries" /\ entries' \subseteq Nodes /\ phase' = "descend"
        /\ result' = entries' /\ pending' = entries'
        /\ UNCHANGED <<deps, indegree, ready, plan>>
    BY DEF ReadEntries
  <1>2. Types' BY <1>1 DEF IInv, Types
  <1>3. Ended' BY <1>1 DEF IInv, Ended, Planned
  <1>4. Worked' BY <1>1 DEF Worked
  <1>. QED BY <1>1, <1>2, <1>3, <1>4, LoopKept DEF IInv

LEMMA DescendInvariant ==
  ASSUME IInv, Descend
  PROVE  IInv'
  <1>1. PICK n \in pending : /\ result' = result \cup Below(n)
                             /\ pending' = (pending \ {n}) \cup Below(n)
    BY DEF Descend
  <1>2. phase = "descend" /\ UNCHANGED <<deps, entries, indegree, ready, plan, phase>>
    BY DEF Descend
  <1>3. n \in result /\ result' = result \cup Children(n)
    BY <1>1 DEF Below, IInv, Types
  <1>4. \A m : Children(m)' = Children(m) BY <1>2 DEF Children
  <1>5. Types' BY <1>1, <1>2 DEF IInv, Types, Below, Children
  <1>6. Ended' BY <1>2 DEF IInv, Ended, Planned
  <1>7. Worked'
    <2>1. entries' \subseteq result' BY <1>2, <1>3 DEF IInv, Worked
    <2>2. ASSUME NEW m \in result' \ pending' PROVE Children(m)' \subseteq result'
      <3>1. m = n \/ m \in result \ pending BY <1>1, <1>3
      <3>. QED BY <1>2, <1>3, <1>4, <3>1 DEF IInv, Worked
    <2>3. ASSUME NEW S \in SUBSET Nodes, entries' \subseteq S, Closed(S)'
          PROVE  result' \subseteq S
      <3>1. Closed(S) BY <1>4, <2>3 DEF Closed
      <3>2. result \subseteq S BY <1>2, <2>3, <3>1 DEF IInv, Worked
      <3>. QED BY <1>3, <3>1, <3>2 DEF Closed
    <2>. QED BY <2>1, <2>2, <2>3 DEF Worked
  <1>. QED BY <1>2, <1>5, <1>6, <1>7, LoopKept DEF IInv

LEMMA CheckEntriesInvariant ==
  ASSUME IInv, CheckEntries
  PROVE  IInv'
  <1>1. /\ phase = "descend" /\ phase' \in {"UNREACHABLE_NODE", "accepted"}
        /\ UNCHANGED <<deps, entries, indegree, ready, plan, result, pending>>
    BY DEF CheckEntries
  <1>2. Types' BY <1>1 DEF IInv, Types
  <1>3. Ended' /\ Worked' BY <1>1 DEF IInv, Ended, Worked, Planned
  <1>. QED BY <1>1, <1>2, <1>3, LoopKept DEF IInv

LEMMA NextInvariant == IInv /\ [Next]_vars => IInv'
  <1>. SUFFICES ASSUME IInv, [Next]_vars PROVE IInv' OBVIOUS
  <1>1. CASE UNCHANGED vars
    <2>1. UNCHANGED <<deps, entries, indegree, ready, plan, phase, result, pending>>
      BY <1>1 DEF vars
    <2>2. Types' BY <2>1 DEF IInv, Types
    <2>3. Ended' BY <2>1 DEF IInv, Ended, Planned
    <2>4. Worked' BY <2>1 DEF IInv, Worked, Closed, Children
    <2>. QED BY <2>1, <2>2, <2>3, <2>4, LoopKept DEF IInv
  <1>. QED BY <1>1, PlanOneInvariant, PlanEndsInvariant, ReadEntriesInvariant,
              DescendInvariant, CheckEntriesInvariant DEF Next, Rest

(* What the steps of the planner keep. *)
THEOREM Invariant == Spec => []IInv
  <1>. QED BY InitInvariant, NextInvariant, PTL DEF Spec

THEOREM TypeCorrect == Spec => []TypeOK
  <1>1. ASSUME IInv PROVE TypeOK
    <2>1. ASSUME NEW n \in Nodes
          PROVE  Cardinality(deps[n] \ Planned) \in 0..Cardinality(Nodes)
      <3>1. deps[n] \ Planned \subseteq Nodes BY <1>1 DEF IInv, Types
      <3>2. /\ IsFiniteSet(deps[n] \ Planned)
            /\ Cardinality(deps[n] \ Planned) <= Cardinality(Nodes)
        BY <3>1, NodesAssumption, FS_Subset
      <3>3. Cardinality(deps[n] \ Planned) \in Nat /\ Cardinality(Nodes) \in Nat
        BY <3>2, NodesAssumption, FS_CardinalityType
      <3>. QED BY <3>2, <3>3
    <2>. QED BY <1>1, <2>1 DEF IInv, Types, Counted, ReadyExactly, TypeOK
  <1>. QED BY <1>1, Invariant, PTL

-----------------------------------------------------------------------------
(* What the plan is. *)

(* Every node is planned after all it depends on, and once: the scheduling *)
(* loop walks the plan on this assumption (validate_dag).                  *)
THEOREM PlanIsTopologicalHolds == Spec => []PlanIsTopological
  <1>1. IInv => PlanIsTopological
    BY DEF IInv, Greedy, First, PlanIsTopological, Topological
  <1>. QED BY <1>1, Invariant, PTL

(* A set of which every member has a dependency in it has no node in a     *)
(* plan: the first of them would have a dependency planned before.         *)
LEMMA PlannedAcyclic ==
  ASSUME IInv, NEW S \in SUBSET Nodes, \A n \in S : deps[n] \cap S # {}
  PROVE  S \cap Planned = {}
  <1>. SUFFICES ASSUME S \cap Planned # {} PROVE FALSE OBVIOUS
  <1>. DEFINE T == {i \in 1..Len(plan) : plan[i] \in S}
  <1>1. T \subseteq Nat /\ T # {} BY DEF Planned
  <1>2. PICK i \in T : \A j \in T : i <= j
    <2>. HIDE DEF T
    <2>. QED BY <1>1, LeastNumber
  <1>3. PICK d \in deps[plan[i]] : d \in S BY <1>2
  <1>4. i \in 1..Len(plan) /\ d \in First(plan, i - 1)
    BY <1>2, <1>3 DEF IInv, Greedy
  <1>5. PICK j \in 1..(i - 1) : plan[j] = d BY <1>4 DEF First
  <1>6. Len(plan) \in Nat BY PlannedFinite DEF IInv
  <1>7. j \in T /\ j < i BY <1>3, <1>4, <1>5, <1>6
  <1>. QED BY <1>1, <1>2, <1>7

(* validate_dag refuses a dependency relation as a cycle exactly when it   *)
(* has one, and otherwise plans every node.                                *)
THEOREM CyclesRejectedHolds == Spec => []CyclesRejected
  <1>1. ASSUME IInv PROVE CyclesRejected
    <2>1. ASSUME phase = "DAG_CYCLE" PROVE Cyclic
      <3>. DEFINE S == Nodes \ Planned
      <3>1. Planned \subseteq Nodes BY <1>1, PlannedFinite DEF IInv
      <3>2. S \in SUBSET Nodes /\ S # {} BY <1>1, <2>1, <3>1 DEF IInv, Ended
      <3>3. ASSUME NEW n \in S PROVE deps[n] \cap S # {}
        BY <1>1, <2>1 DEF IInv, Ended, ReadyExactly, Types
      <3>. QED BY <3>2, <3>3 DEF Cyclic
    <2>2. ASSUME phase \in {"entries", "descend", "accepted", "UNREACHABLE_NODE"}
          PROVE  ~Cyclic /\ Planned = Nodes
      <3>1. Planned = Nodes BY <1>1, <2>2 DEF IInv, Ended
      <3>. QED BY <1>1, <3>1, PlannedAcyclic DEF Cyclic
    <2>. QED BY <2>1, <2>2 DEF CyclesRejected
  <1>. QED BY <1>1, Invariant, PTL

(* An order of all the nodes has none of them twice. *)
LEMMA OrdersInjective ==
  ASSUME NEW p \in Orders, NEW i \in DOMAIN p, NEW j \in DOMAIN p, p[i] = p[j]
  PROVE  i = j
  <1>. DEFINE D == 1..Cardinality(Nodes)
  <1>1. Cardinality(Nodes) \in Nat BY NodesAssumption, FS_CardinalityType
  <1>2. IsFiniteSet(D) /\ Cardinality(D) = Cardinality(Nodes)
    <2>1. /\ IsFiniteSet(1..Cardinality(Nodes))
          /\ Cardinality(1..Cardinality(Nodes)) =
               IF 1 > Cardinality(Nodes) THEN 0 ELSE Cardinality(Nodes) - 1 + 1
      BY <1>1, FS_Interval
    <2>. QED BY <1>1, <2>1
  <1>3. p \in [D -> Nodes] /\ p \in Surjection(D, Nodes) BY DEF Orders, Surjection
  <1>4. p \in Injection(D, Nodes)
    <2>. HIDE DEF D
    <2>. QED BY <1>2, <1>3, FS_SurjSameCardinalityImpliesInj
  <1>. QED BY <1>3, <1>4 DEF Injection, IsInjective

(* The plan is the least topological order: the heap makes the plan of a   *)
(* DAG the same in every process (validate_dag, design.md:43).             *)
THEOREM PlanIsLeastOrderHolds == Spec => []PlanIsLeastOrder
  <1>1. ASSUME IInv PROVE PlanIsLeastOrder
    <2>. SUFFICES ASSUME phase = "entries", NEW p \in Orders, Topological(p), p # plan
                  PROVE  Precedes(plan, p)
      BY DEF PlanIsLeastOrder
    <2>. DEFINE N == Cardinality(Nodes)
                T == {i \in 1..N : p[i] # plan[i]}
    <2>1. Len(plan) = N /\ N \in Nat
      <3>1. Len(plan) = N BY <1>1 DEF IInv, Ended
      <3>. QED BY <3>1, NodesAssumption, FS_CardinalityType
    <2>2. p \in [1..N -> Nodes] /\ plan \in [1..N -> Nodes]
      BY <1>1, <2>1 DEF Orders, IInv, Types
    <2>3. T \subseteq Nat /\ T # {}
      <3>1. \E i \in 1..N : p[i] # plan[i]
        <4>. HIDE DEF N, T
        <4>1. p = [i \in 1..N |-> p[i]] /\ plan = [i \in 1..N |-> plan[i]] BY <2>2
        <4>. QED BY <4>1
      <3>. QED BY <3>1
    <2>4. PICK i \in T : \A j \in T : i <= j
      <3>. HIDE DEF T
      <3>. QED BY <2>3, LeastNumber
    <2>5. i \in 1..N /\ p[i] # plan[i] /\ \A j \in 1..(i - 1) : p[j] = plan[j]
      BY <2>1, <2>4
    <2>6. p[i] \in Nodes /\ plan[i] \in Nodes BY <2>2, <2>5
    <2>7. p[i] \notin First(plan, i - 1)
      <3>1. ASSUME NEW j \in 1..(i - 1) PROVE plan[j] # p[i]
        BY <2>1, <2>2, <2>5, <3>1, OrdersInjective
      <3>. QED BY <3>1 DEF First
    <2>8. Len(p) = N BY <2>1, <2>2
    <2>9. deps[p[i]] \subseteq First(plan, i - 1)
      BY <2>5, <2>8 DEF Topological, First
    <2>10. plan[i] <= p[i]
      BY <1>1, <2>1, <2>5, <2>6, <2>7, <2>9 DEF IInv, Greedy
    <2>11. plan[i] < p[i]
      <3>1. plan[i] \in Nat /\ p[i] \in Nat BY <2>6, NodesAssumption
      <3>. QED BY <2>5, <2>10, <3>1
    <2>. QED BY <2>1, <2>5, <2>11 DEF Precedes
  <1>. QED BY <1>1, Invariant, PTL

(* descendants returns its origins and all that lies below them, and       *)
(* nothing else, whatever order its worklist is taken in.                  *)
THEOREM DescendantsAreReachableHolds == Spec => []DescendantsAreReachable
  <1>1. ASSUME IInv PROVE DescendantsAreReachable
    <2>. SUFFICES ASSUME phase = "descend", pending = {} PROVE result = Reachable(entries)
      BY DEF DescendantsAreReachable
    <2>1. result \subseteq Nodes /\ entries \subseteq result /\ Closed(result)
      BY <1>1 DEF IInv, Types, Worked, Closed
    <2>2. \A S \in SUBSET Nodes : entries \subseteq S /\ Closed(S) => result \subseteq S
      BY <1>1 DEF IInv, Worked
    <2>. QED BY <2>1, <2>2 DEF Reachable
  <1>. QED BY <1>1, Invariant, PTL
=============================================================================
