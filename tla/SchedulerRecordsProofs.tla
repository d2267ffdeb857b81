----------------------- MODULE SchedulerRecordsProofs -----------------------
(***************************************************************************)
(* The inductive invariant of Scheduler, and its parts about the records,  *)
(* the types, the end of the run and the reuse of prior successes: every   *)
(* step keeps them.  SchedulerProofs goes on with the loop's own variables *)
(* and states the theorems.                                                *)
(***************************************************************************)
EXTENDS Scheduler, ControlRecordsProofs, FiniteSetTheorems, TLAPS

(* The phases in which the loop works on its snapshot. *)
Iteration == {"retry", "cancel", "reserve", "plan", "planfail", "cancel2", "submit", "cancel3"}

-----------------------------------------------------------------------------
(* The inductive invariant, part by part. *)

(* The run record moves once, when every future has been given up. *)
ClosedInv ==
    /\ runStatus = IF pc = "ended" THEN decided ELSE "RUNNING"
    /\ pc \in {"finish", "ended"} => decided = Summary /\ \A n \in Nodes : exec[n] = "idle"

(* What a record's status says of its attempts. *)
AttemptOK(n) ==
    /\ node[n].attempt \in 0..(1 + MaxRetries[n])
    /\ node[n].status \in {"PENDING", "BLOCKED", "SKIPPED_CONDITION",
                           "SKIPPED_ALREADY_SATISFIED"} => node[n].attempt = 0
    /\ node[n].status \in {"READY", "RUNNING", "SUCCEEDED", "FAILED", "TIMED_OUT"}
           => node[n].attempt > 0
    /\ node[n].uncertain => node[n].status \in {"FAILED", "TIMED_OUT"}

(* What a future says of the record of its node. *)
FutureOK(n) ==
    /\ exec[n] = "idle" => node[n].status # "RUNNING"
    /\ exec[n] = "done" => node[n].status \in Outcomes
    /\ exec[n] = "running" =>
           node[n].status \in {"READY", "RUNNING"} \cup Outcomes /\ ~node[n].uncertain

(* A child at work belongs to the current attempt, and its executor still  *)
(* watches it or has declared it uncertain.                                *)
ChildOK(n) ==
    \A a \in Attempts :
        child[n][a] \in {"launched", "claimed"} =>
            /\ a = node[n].attempt
            /\ \/ node[n].uncertain
               \/ /\ exec[n] = "running"
                  /\ node[n].status = IF child[n][a] = "launched" THEN "READY" ELSE "RUNNING"

(* What the loop knows while it works on its snapshot. *)
SnapshotInv ==
    /\ pc \in {"snapshot"} \cup Iteration => active = Pending
    /\ pc \in Iteration => \A n \in Nodes : ~recs[n].uncertain
    /\ SnapshotCurrent

(* The node whose planning failed is between its two transactions. *)
PlanFailInv ==
    pc = "planfail" =>
        /\ at <= Len(Plan) /\ Plan[at] \notin active
        /\ node[Plan[at]].status = "READY"

Settled(n) ==
    /\ node[n].status \in Terminal
    /\ ~node[n].uncertain
    /\ ~Retryable(n, node[n])
    /\ exec[n] = "idle"

Planned(n) == node[n].status \notin {"PENDING", "CANCELLED"} \/ node[n].attempt > 0

(* A node leaves PENDING (cancellation apart) once its dependencies are settled. *)
SettledOK(n) == Planned(n) => \A d \in Deps[n] : Settled(d)

(* The status s is one that the trigger of n asks for. *)
Justifies(n, s, states) ==
    /\ s \in {"READY", "RUNNING", "SKIPPED_ALREADY_SATISFIED"} \cup Outcomes
           => Matches(n, states)
    /\ s = "BLOCKED" => ~Matches(n, states) /\ \E d \in Deps[n] : states[d].status \in Bad
    /\ s = "SKIPPED_CONDITION" => ~Matches(n, states) \/ n \in ConditionFalse

(* A node is reused below reused nodes only. *)
ReuseOK(n) ==
    node[n].status = "SKIPPED_ALREADY_SATISFIED" =>
        \A m \in Ancestors[n] : node[m].status = "SKIPPED_ALREADY_SATISFIED"

RecordOK(n) == AttemptOK(n) /\ FutureOK(n) /\ ChildOK(n)

RecordsInv ==
    \A n \in Nodes :
        RecordOK(n) /\ SettledOK(n) /\ Justifies(n, node[n].status, node) /\ ReuseOK(n)

(* Whatever was attempted, or had no prior success, invalidates all that   *)
(* is below it.                                                            *)
InvalidInv ==
    /\ \A n \in invalid : Descendants({n}) \subseteq invalid
    /\ \A n \in Nodes : prior[n].status \notin Success \cup {"NONE"} => n \in invalid
    /\ \A n \in Nodes : /\ node[n].attempt > 0
                        /\ ~(pc = "planfail" /\ n = Plan[at])
                        => n \in invalid

(* The holders of one set stay within every limit. *)
Within(holders) ==
    /\ Cardinality(holders) <= MaxParallel
    /\ \A b \in Budgets : Used(b, holders) <= Limit[b]

CapacityInv ==
    /\ Within({n \in Nodes : exec[n] = "running"})
    /\ pc \in {"snapshot", "retry", "cancel"} => Within(active)
    /\ pc \in {"reserve", "plan", "planfail", "cancel2", "submit"} =>
           active \subseteq reserved /\ Within(reserved)

(* Why an iteration that wrote nothing leaves somebody who can wake the    *)
(* loop.  Visited: the nodes that the pass of a phase has been over.       *)
Before(k) == {Plan[i] : i \in 1..(k - 1)}

Visited(phase, later) ==
    {n \in Nodes : pc \in later \/ (pc = phase /\ n \in Before(at))}

AwaitsRetry(n) == n \notin active /\ Retryable(n, recs[n])

LoopStarts ==
    /\ pc # "stalled"
    /\ pc \in {"reap", "snapshot", "barrier"} => at = 1

WorkLeft ==
    pc \in {"cancel", "reserve", "plan", "cancel2", "submit"} =>
        ~(active = {} /\ \A n \in Nodes : recs[n].status \in Terminal)

(* Before the deadline every retry that is due has been taken; after it    *)
(* every pending node has been cancelled.                                  *)
RetriesTaken ==
    \A n \in Visited("retry", {"cancel", "reserve", "plan", "cancel2", "submit"}) :
        AwaitsRetry(n) => expired

CancelsTaken ==
    \A n \in Visited("cancel", {"reserve", "plan", "cancel2", "submit"}) :
        (\E m \in Nodes : AwaitsRetry(m)) => n \in active \/ recs[n].status # "PENDING"

ReservedReady ==
    pc \in {"reserve", "plan", "cancel2", "submit"} =>
        \A n \in reserved : n \in active \/ recs[n].status = "READY"

NobodyPlanned ==
    \A n \in Visited("plan", {"cancel2", "submit"}) : MustWait(n) \/ ~Fits(n, reserved)

ProgressInv ==
    /\ LoopStarts
    /\ ~changed =>
           WorkLeft /\ RetriesTaken /\ CancelsTaken /\ ReservedReady /\ NobodyPlanned

(* The loop is left when every node has ended, or for an uncertain one. *)
DrainInv ==
    pc \in {"drain", "finish"} =>
        (\E n \in Nodes : node[n].uncertain) \/ (\A n \in Nodes : node[n].status \in Terminal)

LoopInv == SnapshotInv /\ PlanFailInv /\ CapacityInv /\ DrainInv /\ ProgressInv

IInv == TypeOK /\ ClosedInv /\ RecordsInv /\ InvalidInv /\ LoopInv

(* Without fail_fast a pending node below a cancelled one is cancelled by  *)
(* the same pass.                                                          *)
CancelledInv ==
    \A n \in Nodes : \A d \in Deps[n] :
        node[d].status = "CANCELLED" /\ node[d].attempt = 0 /\ node[n].status = "PENDING" =>
            expired /\ pc \in {"cancel", "cancel2", "cancel3"} /\ n \notin Before(at)

AncestorsInv == \A n \in Nodes : Planned(n) => \A m \in Ancestors[n] : Settled(m)

-----------------------------------------------------------------------------
(* The plan and the graph. *)

LEMMA PlanPositions ==
  /\ Len(Plan) \in Nat
  /\ \A i \in 1..Len(Plan) : Plan[i] \in Nodes
  /\ \A n \in Nodes : \E i \in 1..Len(Plan) : Plan[i] = n
  /\ \A i \in 1..Len(Plan), d \in Nodes :
         d \in Deps[Plan[i]] => \E j \in 1..(i - 1) : Plan[j] = d
  /\ \A n \in Nodes : Deps[n] \subseteq Nodes
  <1>1. Len(Plan) \in Nat /\ \A i \in 1..Len(Plan) : Plan[i] \in Nodes
    BY PlanAssumption, SMT
  <1>2. \A n \in Nodes : \E i \in 1..Len(Plan) : Plan[i] = n
    BY PlanAssumption, Zenon
  <1>3. \A i \in 1..Len(Plan), d \in Nodes :
           d \in Deps[Plan[i]] => \E j \in 1..(i - 1) : Plan[j] = d
    <2>. TAKE i \in 1..Len(Plan), d \in Nodes
    <2>1. Deps[Plan[i]] \subseteq {Plan[j] : j \in 1..(i - 1)} BY PlanAssumption
    <2>. QED BY <2>1
  <1>4. \A n \in Nodes : Deps[n] \subseteq Nodes
    BY ConfigurationAssumption
  <1>. QED BY <1>1, <1>2, <1>3, <1>4

LEMMA NodesFinite == IsFiniteSet(Nodes)
  <1>. DEFINE f == [i \in 1..Len(Plan) |-> Plan[i]]
  <1>1. f \in Surjection(1..Len(Plan), Nodes)
    BY PlanPositions, Zenon DEF Surjection
  <1>2. \E k \in Nat : ExistsSurjection(1..k, Nodes)
    BY <1>1, PlanPositions, Zenon DEF ExistsSurjection
  <1>. QED BY <1>2, FS_NatSurjection

(* What a node depends on directly, or through one of its dependencies. *)
LEMMA AncestorsUp ==
  ASSUME NEW n \in Nodes
  PROVE  /\ Deps[n] \subseteq Ancestors[n]
         /\ Ancestors[n] \subseteq Nodes
         /\ \A m \in Ancestors[n] : m \in Deps[n] \/ \E d \in Deps[n] : m \in Ancestors[d]
  <1>1. Deps[n] \subseteq Nodes BY PlanPositions
  <1>2. Deps[n] \subseteq Ancestors[n] /\ Ancestors[n] \subseteq Nodes
    BY <1>1, Zenon DEF Ancestors
  <1>. DEFINE Up == Deps[n] \cup UNION {Ancestors[d] : d \in Deps[n]}
  <1>3. \A d \in Nodes : Deps[d] \subseteq Ancestors[d] /\ Ancestors[d] \subseteq Nodes
    BY PlanPositions, Zenon DEF Ancestors
  <1>4. \A d \in Nodes : \A k \in Ancestors[d] : Deps[k] \subseteq Ancestors[d]
    <2>. SUFFICES ASSUME NEW d \in Nodes, NEW k \in Ancestors[d], NEW e \in Deps[k]
                  PROVE  e \in Ancestors[d]
      OBVIOUS
    <2>1. k \in Nodes BY <1>3
    <2>2. e \in Nodes BY <2>1, PlanPositions
    <2>3. \A S \in SUBSET Nodes :
             Deps[d] \subseteq S /\ (\A j \in S : Deps[j] \subseteq S) => k \in S
      BY Zenon DEF Ancestors
    <2>4. \A S \in SUBSET Nodes :
             Deps[d] \subseteq S /\ (\A j \in S : Deps[j] \subseteq S) => e \in S
      BY <2>3, Zenon
    <2>. QED BY <2>2, <2>4, Zenon DEF Ancestors
  <1>5. Up \in SUBSET Nodes BY <1>1, <1>3
  <1>6. \A k \in Up : Deps[k] \subseteq Up
    BY <1>1, <1>3, <1>4, Zenon
  <1>7. Ancestors[n] \subseteq Up
    BY <1>5, <1>6, Zenon DEF Ancestors
  <1>. QED BY <1>2, <1>7

LEMMA DescendantsDown ==
  ASSUME NEW n \in Nodes
  PROVE  /\ n \in Descendants({n})
         /\ Descendants({n}) \subseteq Nodes
         /\ \A m \in Nodes : n \in Deps[m] => m \in Descendants({n})
         /\ \A m \in Descendants({n}) : Descendants({m}) \subseteq Descendants({n})
  <1>1. \A m \in Nodes : m \in Descendants({n}) <=> m = n \/ n \in Ancestors[m]
    BY Zenon DEF Descendants
  <1>2. Descendants({n}) \subseteq Nodes BY Zenon DEF Descendants
  <1>3. \A m \in Nodes : n \in Deps[m] => m \in Descendants({n})
    BY <1>1, AncestorsUp, Zenon
  <1>4. \A m, k \in Nodes : n \in Ancestors[m] /\ m \in Ancestors[k] => n \in Ancestors[k]
    <2>. SUFFICES ASSUME NEW m \in Nodes, NEW k \in Nodes,
                         n \in Ancestors[m], m \in Ancestors[k],
                         NEW S \in SUBSET Nodes, Deps[k] \subseteq S,
                         \A j \in S : Deps[j] \subseteq S
                  PROVE  n \in S
      BY Zenon DEF Ancestors
    <2>1. m \in S BY Zenon DEF Ancestors
    <2>2. Deps[m] \subseteq S BY <2>1
    <2>. QED BY <2>2, Zenon DEF Ancestors
  <1>5. \A m \in Descendants({n}) : Descendants({m}) \subseteq Descendants({n})
    <2>. SUFFICES ASSUME NEW m \in Descendants({n}), NEW k \in Descendants({m})
                  PROVE  k \in Descendants({n})
      OBVIOUS
    <2>1. m \in Nodes BY <1>2
    <2>2. k \in Nodes /\ (k = m \/ m \in Ancestors[k])
      BY <2>1, Zenon DEF Descendants
    <2>3. m = n \/ n \in Ancestors[m] BY <1>1, <2>1
    <2>. QED BY <1>1, <1>4, <2>1, <2>2, <2>3, Zenon
  <1>. QED BY <1>1, <1>2, <1>3, <1>5

-----------------------------------------------------------------------------
(* Capacity.  What a set of nodes holds of a budget grows by no more than  *)
(* the demand of the node added to it.                                     *)

Units(b, holders) == UNION {{n} \X (1..Demand[n][b]) : n \in holders}

LEMMA UnitsFinite ==
  ASSUME NEW b \in Budgets, NEW holders \in SUBSET Nodes
  PROVE  IsFiniteSet(Units(b, holders))
  <1>1. Limit[b] \in Nat BY FitsAloneAssumption
  <1>2. IsFiniteSet(1..Limit[b]) BY <1>1, FS_Interval
  <1>3. IsFiniteSet(Nodes \X (1..Limit[b])) BY <1>2, NodesFinite, FS_Product
  <1>4. \A n \in Nodes : 1..Demand[n][b] \subseteq 1..Limit[b]
    BY FitsAloneAssumption
  <1>5. Units(b, holders) \subseteq Nodes \X (1..Limit[b])
    BY <1>4 DEF Units
  <1>. QED BY <1>3, <1>5, FS_Subset

LEMMA UsedTypes ==
  ASSUME NEW b \in Budgets, NEW holders \in SUBSET Nodes
  PROVE  /\ Used(b, holders) \in Nat
         /\ \A fewer \in SUBSET holders : Used(b, fewer) <= Used(b, holders)
         /\ \A n \in Nodes : Used(b, holders \cup {n}) <= Used(b, holders) + Demand[n][b]
  <1>1. \A h \in SUBSET Nodes : Used(b, h) = Cardinality(Units(b, h))
    BY Zenon DEF Used, Units
  <1>2. Used(b, holders) \in Nat BY <1>1, UnitsFinite, FS_CardinalityType
  <1>3. \A fewer \in SUBSET holders : Used(b, fewer) <= Used(b, holders)
    <2>. SUFFICES ASSUME NEW fewer \in SUBSET holders
                  PROVE  Used(b, fewer) <= Used(b, holders)
      OBVIOUS
    <2>1. Units(b, fewer) \subseteq Units(b, holders) BY DEF Units
    <2>. QED BY <1>1, <2>1, UnitsFinite, FS_Subset
  <1>4. ASSUME NEW n \in Nodes
        PROVE  Used(b, holders \cup {n}) <= Used(b, holders) + Demand[n][b]
    <2>. DEFINE own == {n} \X (1..Demand[n][b])
    <2>1. Demand[n][b] \in Nat BY FitsAloneAssumption
    <2>2. IsFiniteSet({n}) /\ Cardinality({n}) = 1 BY FS_Singleton
    <2>3. IsFiniteSet(1..Demand[n][b]) /\ Cardinality(1..Demand[n][b]) = Demand[n][b]
      <3>1. 1 \in Int /\ Demand[n][b] \in Int BY <2>1
      <3>2. /\ IsFiniteSet(1..Demand[n][b])
            /\ Cardinality(1..Demand[n][b])
               = IF 1 > Demand[n][b] THEN 0 ELSE Demand[n][b] - 1 + 1
        BY <3>1, FS_Interval, Zenon
      <3>. QED BY <2>1, <3>2
    <2>4. IsFiniteSet(own) /\ Cardinality(own) = Demand[n][b]
      <3>1. IsFiniteSet(own) /\ Cardinality(own) = 1 * Demand[n][b]
        BY <2>2, <2>3, FS_Product
      <3>2. 1 * Demand[n][b] = Demand[n][b] BY <2>1
      <3>. QED BY <3>1, <3>2
    <2>5. Units(b, holders \cup {n}) = Units(b, holders) \cup own
      BY DEF Units
    <2>6. IsFiniteSet(Units(b, holders)) BY UnitsFinite
    <2>. HIDE DEF own
    <2>7. Cardinality(Units(b, holders) \cup own)
          = Cardinality(Units(b, holders)) + Cardinality(own)
            - Cardinality(Units(b, holders) \cap own)
      BY <2>4, <2>6, FS_Union
    <2>8. Cardinality(Units(b, holders) \cap own) \in Nat
      BY <2>6, FS_Intersection, FS_CardinalityType
    <2>9. Cardinality(Units(b, holders)) \in Nat
      BY <2>6, FS_CardinalityType
    <2>10. holders \cup {n} \in SUBSET Nodes OBVIOUS
    <2>11. /\ Used(b, holders) = Cardinality(Units(b, holders))
           /\ Used(b, holders \cup {n}) = Cardinality(Units(b, holders) \cup own)
      BY <1>1, <2>5, <2>10, Zenon
    <2>. QED BY <2>1, <2>4, <2>7, <2>8, <2>9, <2>11
  <1>. QED BY <1>2, <1>3, <1>4

(* Fewer holders stay within the limits; so does one more that fits. *)
LEMMA WithinFewer ==
  ASSUME NEW holders \in SUBSET Nodes, NEW fewer \in SUBSET holders, Within(holders)
  PROVE  Within(fewer)
  <1>1. IsFiniteSet(holders) BY NodesFinite, FS_Subset
  <1>2. Cardinality(fewer) <= Cardinality(holders) BY <1>1, FS_Subset
  <1>3. Cardinality(fewer) \in Nat /\ Cardinality(holders) \in Nat
    BY <1>1, FS_Subset, FS_CardinalityType
  <1>4. Cardinality(fewer) <= MaxParallel
    BY <1>2, <1>3, FitsAloneAssumption DEF Within
  <1>5. ASSUME NEW b \in Budgets PROVE Used(b, fewer) <= Limit[b]
    <2>1. Used(b, fewer) <= Used(b, holders) /\ Used(b, holders) <= Limit[b]
      BY UsedTypes DEF Within
    <2>2. Used(b, fewer) \in Nat /\ Used(b, holders) \in Nat /\ Limit[b] \in Nat
      BY UsedTypes, FitsAloneAssumption
    <2>. QED BY <2>1, <2>2
  <1>. QED BY <1>4, <1>5 DEF Within

LEMMA WithinOneMore ==
  ASSUME NEW holders \in SUBSET Nodes, NEW n \in Nodes, Fits(n, holders), Within(holders)
  PROVE  Within(holders \cup {n})
  <1>1. IsFiniteSet(holders) BY NodesFinite, FS_Subset
  <1>2. Cardinality(holders) \in Nat BY <1>1, FS_CardinalityType
  <1>3. Cardinality(holders \cup {n}) <= MaxParallel
    <2>1. Cardinality(holders \cup {n})
          = IF n \in holders THEN Cardinality(holders) ELSE Cardinality(holders) + 1
      BY <1>1, FS_AddElement, Zenon
    <2>2. Cardinality(holders) < MaxParallel BY DEF Fits
    <2>. QED BY <1>2, <2>1, <2>2, FitsAloneAssumption
  <1>4. ASSUME NEW b \in Budgets PROVE Used(b, holders \cup {n}) <= Limit[b]
    <2>1. Used(b, holders \cup {n}) <= Used(b, holders) + Demand[n][b]
      BY UsedTypes
    <2>2. Used(b, holders) + Demand[n][b] <= Limit[b] BY DEF Fits
    <2>3. /\ Used(b, holders \cup {n}) \in Nat /\ Used(b, holders) \in Nat
          /\ Demand[n][b] \in Nat /\ Limit[b] \in Nat
      BY UsedTypes, FitsAloneAssumption
    <2>. QED BY <2>1, <2>2, <2>3
  <1>. QED BY <1>3, <1>4 DEF Within

(* A node always fits where nothing is held. *)
LEMMA FitsAlone ==
  ASSUME NEW n \in Nodes
  PROVE  Fits(n, {})
  <1>1. Cardinality({}) = 0 BY FS_EmptySet
  <1>2. ASSUME NEW b \in Budgets PROVE Used(b, {}) = 0
    <2>1. Used(b, {}) = Cardinality({}) BY DEF Used
    <2>. QED BY <1>1, <2>1
  <1>3. ASSUME NEW b \in Budgets PROVE Used(b, {}) + Demand[n][b] <= Limit[b]
    BY <1>2, FitsAloneAssumption
  <1>. QED BY <1>1, <1>3, FitsAloneAssumption DEF Fits

-----------------------------------------------------------------------------
(* Records.  A step moves the record of one node at most, never that of a  *)
(* settled one, so what was said of the nodes below it stays true.         *)

(* A trigger looks at the statuses of the dependencies only. *)
LEMMA MatchesSame ==
  ASSUME NEW n \in Nodes, NEW s, NEW t, \A d \in Deps[n] : s[d].status = t[d].status
  PROVE  /\ Matches(n, s) <=> Matches(n, t)
         /\ TriggerStatus(n, s) = TriggerStatus(n, t)
  <1>1. Matches(n, s) <=> Matches(n, t) BY ConfigurationAssumption DEF Matches
  <1>2. TriggerStatus(n, s) = TriggerStatus(n, t) BY Zenon DEF TriggerStatus
  <1>. QED BY <1>1, <1>2

LEMMA JustifiesSame ==
  ASSUME NEW n \in Nodes, NEW s, NEW t, \A d \in Deps[n] : s[d].status = t[d].status,
         NEW status, Justifies(n, status, s)
  PROVE  Justifies(n, status, t)
  <1>1. Matches(n, s) <=> Matches(n, t) BY MatchesSame, Zenon
  <1>. QED BY <1>1, Zenon DEF Justifies

(* Futures that are reaped change nothing for the records. *)
LEMMA RecordsRest ==
  ASSUME RecordsInv, node' = node, child' = child,
         \A n \in Nodes : exec'[n] = exec[n] \/ (exec[n] = "done" /\ exec'[n] = "idle")
  PROVE  RecordsInv'
  <1>. SUFFICES ASSUME NEW n \in Nodes
                PROVE  /\ RecordOK(n)' /\ SettledOK(n)'
                       /\ Justifies(n, node'[n].status, node') /\ ReuseOK(n)'
    BY Zenon DEF RecordsInv, Justifies, Matches
  <1>1. /\ RecordOK(n) /\ SettledOK(n) /\ Justifies(n, node[n].status, node) /\ ReuseOK(n)
    BY Zenon DEF RecordsInv
  <1>2. RecordOK(n)'
    BY <1>1 DEF RecordOK, AttemptOK, FutureOK, ChildOK, Outcomes
  <1>3. SettledOK(n)'
    BY <1>1, PlanPositions DEF SettledOK, Planned, Settled, Retryable
  <1>4. ReuseOK(n)' BY <1>1 DEF ReuseOK
  <1>. QED BY <1>1, <1>2, <1>3, <1>4, Zenon

(* The record of node n moves, and with it perhaps its future and workers. *)
Move(n, record) ==
    /\ record \in NodeRecord
    /\ node' = [node EXCEPT ![n] = record]
    /\ \A m \in Nodes \ {n} : exec'[m] = exec[m] /\ child'[m] = child[m]

(* What makes such a move one that keeps the invariant. *)
SoundMove(n, record) ==
    /\ Move(n, record) /\ record.status # "PENDING"
    /\ ~Settled(n)
    /\ RecordOK(n)'
    /\ Planned(n)' => \A d \in Deps[n] : Settled(d)
    /\ Justifies(n, record.status, node)
    /\ record.status = "SKIPPED_ALREADY_SATISFIED" =>
           \A m \in Ancestors[n] : node[m].status = "SKIPPED_ALREADY_SATISFIED"

LEMMA RecordsMove ==
  ASSUME TypeOK, RecordsInv, NEW n \in Nodes, NEW record, SoundMove(n, record)
  PROVE  RecordsInv'
  <1>. USE DEF SoundMove
  <1>1. node'[n] = record /\ \A m \in Nodes \ {n} : node'[m] = node[m]
    BY DEF TypeOK, Move
  <1>2. \A m \in Nodes : node[m].status = "SKIPPED_ALREADY_SATISFIED" => m # n
    BY DEF RecordsInv, RecordOK, AttemptOK, FutureOK, Settled, Retryable, Terminal,
           Success, Outcomes, TypeOK
  <1>3. \A m \in Nodes : Settled(m) => m # n /\ Settled(m)'
    BY <1>1 DEF Settled, Retryable, Move
  <1>4. \A m \in Nodes : SettledOK(m)'
    <2>1. SettledOK(n)' BY <1>3, PlanPositions, Zenon DEF SettledOK
    <2>2. ASSUME NEW m \in Nodes \ {n} PROVE SettledOK(m)'
      <3>1. SettledOK(m) BY Zenon DEF RecordsInv
      <3>. QED BY <1>1, <1>3, <3>1, PlanPositions DEF SettledOK, Planned
    <2>. QED BY <2>1, <2>2, Zenon
  <1>5. \A m \in Nodes : RecordOK(m)'
    <2>1. ASSUME NEW m \in Nodes \ {n} PROVE RecordOK(m)'
      <3>1. RecordOK(m) BY Zenon DEF RecordsInv
      <3>. QED BY <1>1, <3>1 DEF RecordOK, AttemptOK, FutureOK, ChildOK, Move
    <2>. QED BY <2>1, Zenon
  <1>6. ASSUME NEW m \in Nodes PROVE Justifies(m, node'[m].status, node')
    <2>1. CASE m = n
      <3>1. CASE record.status \in {"PENDING", "CANCELLED"}
        BY <1>1, <2>1, <3>1 DEF Justifies, Outcomes
      <3>2. CASE record.status \notin {"PENDING", "CANCELLED"}
        <4>1. \A d \in Deps[n] : node[d].status = node'[d].status
          BY <1>1, <1>3, <3>2, PlanPositions DEF Planned
        <4>. QED BY <1>1, <2>1, <4>1, JustifiesSame
      <3>. QED BY <3>1, <3>2
    <2>2. CASE m # n
      <3>1. Justifies(m, node[m].status, node) /\ SettledOK(m)
        BY Zenon DEF RecordsInv
      <3>2. CASE node[m].status \in {"PENDING", "CANCELLED"}
        BY <1>1, <2>2, <3>2 DEF Justifies, Outcomes
      <3>3. CASE node[m].status \notin {"PENDING", "CANCELLED"}
        <4>1. \A d \in Deps[m] : node[d].status = node'[d].status
          BY <1>1, <1>3, <3>1, <3>3, PlanPositions DEF SettledOK, Planned
        <4>. QED BY <1>1, <2>2, <3>1, <4>1, JustifiesSame
      <3>. QED BY <3>2, <3>3
    <2>. QED BY <2>1, <2>2
  <1>7. \A m \in Nodes : ReuseOK(m)'
    <2>1. ReuseOK(n)'
      BY <1>1, <1>2, AncestorsUp, Zenon DEF ReuseOK
    <2>2. ASSUME NEW m \in Nodes \ {n} PROVE ReuseOK(m)'
      <3>1. ReuseOK(m) BY Zenon DEF RecordsInv
      <3>. QED BY <1>1, <1>2, <3>1, AncestorsUp, Zenon DEF ReuseOK
    <2>. QED BY <2>1, <2>2, Zenon
  <1>. QED BY <1>4, <1>5, <1>6, <1>7, Zenon DEF RecordsInv, Justifies, Matches

(* The orchestrator writes the record of a node that has no future. *)
LEMMA IdleWrite ==
  ASSUME TypeOK, RecordsInv, NEW n \in Nodes, exec[n] = "idle", ~node[n].uncertain,
         NEW record \in NodeRecord,
         node' = [node EXCEPT ![n] = record], exec' = exec, child' = child,
         ~record.uncertain, record.status # "RUNNING",
         record.attempt \in 0..(1 + MaxRetries[n]),
         record.status \in {"PENDING", "BLOCKED", "SKIPPED_CONDITION",
                            "SKIPPED_ALREADY_SATISFIED"} => record.attempt = 0,
         record.status \in {"READY"} \cup Outcomes => record.attempt > 0
  PROVE  Move(n, record) /\ RecordOK(n)'
  <1>1. node'[n] = record BY DEF TypeOK
  <1>2. Move(n, record) BY DEF Move
  <1>3. AttemptOK(n)' BY <1>1 DEF AttemptOK, Outcomes
  <1>4. FutureOK(n)' BY <1>1 DEF FutureOK
  <1>5. ChildOK(n)'
    <2>1. ChildOK(n) BY Zenon DEF RecordsInv, RecordOK
    <2>2. \A a \in Attempts : child[n][a] \notin {"launched", "claimed"}
      BY <2>1 DEF ChildOK
    <2>. QED BY <2>2 DEF ChildOK
  <1>. QED BY <1>2, <1>3, <1>4, <1>5, Zenon DEF RecordOK

(* Between the snapshot and the end of the iteration the loop knows the    *)
(* nodes it may write.                                                     *)
LEMMA LoopReads ==
  ASSUME SnapshotInv, pc \in Iteration, NEW n \in Nodes, n \notin active
  PROVE  recs[n] = node[n] /\ exec[n] = "idle" /\ ~node[n].uncertain
  BY SMT DEF SnapshotInv, SnapshotCurrent, Iteration, Pending

LEMMA RetryMoves ==
  ASSUME IInv, Retry, NEW n, n = Plan[at], n \notin active, ~expired, Retryable(n, recs[n])
  PROVE  n \in Nodes /\ SoundMove(n, Prepared(node[n]))
  <1>. DEFINE record == Prepared(node[n])
  <1>1. n \in Nodes BY PlanPositions DEF Retry, InLoop, IInv, TypeOK
  <1>2. recs[n] = node[n] /\ exec[n] = "idle" /\ ~node[n].uncertain
    BY <1>1, LoopReads DEF IInv, LoopInv, Retry, InLoop, Iteration
  <1>3. node[n] \in NodeRecord BY <1>1 DEF IInv, TypeOK
  <1>4. /\ record \in NodeRecord /\ ~record.uncertain
        /\ record.attempt = node[n].attempt + 1 /\ record.status = "READY"
    BY <1>2, <1>3, PreparedType
  <1>5. node' = [node EXCEPT ![n] = record] /\ exec' = exec /\ child' = child
    BY DEF Retry, Store, workVars
  <1>. HIDE DEF record
  <1>6. /\ node[n].status \in {"FAILED", "TIMED_OUT"} /\ node[n].attempt <= MaxRetries[n]
        /\ Retryable(n, node[n])
    BY <1>2 DEF Retryable
  <1>7. RecordOK(n) /\ SettledOK(n) /\ Justifies(n, node[n].status, node)
    BY <1>1, Zenon DEF IInv, RecordsInv
  <1>8. record.attempt \in 0..(1 + MaxRetries[n]) /\ record.attempt > 0
    BY <1>1, <1>3, <1>4, <1>6, ConfigurationAssumption DEF NodeRecord
  <1>9. Move(n, record) /\ RecordOK(n)'
    BY <1>1, <1>2, <1>4, <1>5, <1>8, IdleWrite DEF IInv
  <1>10. Planned(n) BY <1>6 DEF Planned
  <1>11. Justifies(n, record.status, node)
    BY <1>4, <1>6, <1>7 DEF Justifies, Outcomes
  <1>. QED BY <1>1, <1>4, <1>6, <1>7, <1>9, <1>10, <1>11
          DEF SoundMove, Settled, SettledOK, record

LEMMA CancelMoves ==
  ASSUME IInv, Cancel, NEW n, n = Plan[at], n \notin active,
         recs[n].status \in {"PENDING", "READY"}, node' # node
  PROVE  n \in Nodes /\ SoundMove(n, Skipped(node[n], "CANCELLED"))
  <1>. DEFINE record == Skipped(node[n], "CANCELLED")
  <1>1. n \in Nodes BY PlanPositions DEF Cancel, InLoop, IInv, TypeOK
  <1>2. recs[n] = node[n] /\ exec[n] = "idle" /\ ~node[n].uncertain
    BY <1>1, LoopReads DEF IInv, LoopInv, Cancel, InLoop, Iteration
  <1>3. node[n] \in NodeRecord BY <1>1 DEF IInv, TypeOK
  <1>4. /\ record \in NodeRecord /\ ~record.uncertain
        /\ record.attempt = node[n].attempt /\ record.status = "CANCELLED"
    BY <1>2, <1>3, SkippedType DEF Terminal, Bad
  <1>5. node' = [node EXCEPT ![n] = record] /\ exec' = exec /\ child' = child
    BY DEF Cancel, Store, storeVars, workVars
  <1>. HIDE DEF record
  <1>6. RecordOK(n) /\ SettledOK(n)
    BY <1>1, Zenon DEF IInv, RecordsInv
  <1>7. record.attempt \in 0..(1 + MaxRetries[n])
    BY <1>4, <1>6, Zenon DEF RecordOK, AttemptOK
  <1>8. Move(n, record) /\ RecordOK(n)'
    BY <1>1, <1>2, <1>4, <1>5, <1>7, IdleWrite DEF IInv, Outcomes
  <1>9. ~Settled(n) BY <1>2 DEF Settled, Terminal, Success, Bad
  <1>10. node'[n] = record BY <1>1, <1>5 DEF IInv, TypeOK
  <1>11. Planned(n)' => Planned(n) BY <1>4, <1>10 DEF Planned
  <1>12. Justifies(n, record.status, node) BY <1>4 DEF Justifies, Outcomes
  <1>. QED BY <1>1, <1>4, <1>6, <1>8, <1>9, <1>11, <1>12 DEF SoundMove, SettledOK, record

(* What planning a node has established: it is PENDING, never attempted,   *)
(* and everything it depends on is settled in the store as in the snapshot.*)
LEMMA PlanningFacts ==
  ASSUME IInv, NEW n \in Nodes, Planning(n)
  PROVE  /\ n \notin active /\ recs[n] = node[n] /\ node[n] \in NodeRecord
         /\ node[n].status = "PENDING" /\ node[n].attempt = 0
         /\ exec[n] = "idle" /\ ~node[n].uncertain
         /\ \A d \in Deps[n] : recs[d] = node[d] /\ Settled(d)
         /\ Matches(n, recs) <=> Matches(n, node)
         /\ TriggerStatus(n, recs) = TriggerStatus(n, node)
  <1>1. n \notin active /\ recs[n].status = "PENDING" /\ Deps[n] \cap active = {}
    BY DEF Planning, MustWait
  <1>2. pc \in Iteration BY DEF Planning, InLoop, Iteration
  <1>3. recs[n] = node[n] /\ exec[n] = "idle" /\ ~node[n].uncertain
    BY <1>1, <1>2, LoopReads DEF IInv, LoopInv
  <1>4. node[n] \in NodeRecord BY DEF IInv, TypeOK
  <1>5. AttemptOK(n) BY Zenon DEF IInv, RecordsInv, RecordOK
  <1>6. node[n].attempt = 0 BY <1>1, <1>3, <1>5 DEF AttemptOK
  <1>7. ASSUME NEW d \in Deps[n] PROVE recs[d] = node[d] /\ Settled(d)
    <2>1. d \in Nodes /\ d \notin active BY <1>1, PlanPositions
    <2>2. recs[d] = node[d] /\ exec[d] = "idle" /\ ~node[d].uncertain
      BY <1>2, <2>1, LoopReads DEF IInv, LoopInv
    <2>3. recs[d].status \in Terminal /\ ~Retryable(d, recs[d])
      BY DEF Planning, MustWait
    <2>. QED BY <2>2, <2>3 DEF Settled
  <1>8. /\ Matches(n, recs) <=> Matches(n, node)
        /\ TriggerStatus(n, recs) = TriggerStatus(n, node)
    BY <1>7, MatchesSame
  <1>. QED BY <1>1, <1>3, <1>4, <1>6, <1>7, <1>8

(* A planned node gets a first status, its dependencies being settled. *)
LEMMA PlanMoves ==
  ASSUME IInv, NEW n \in Nodes, Planning(n), NEW record \in NodeRecord,
         node' = [node EXCEPT ![n] = record], exec' = exec, child' = child,
         ~record.uncertain,
         \/ /\ record.status \in {"BLOCKED", "SKIPPED_CONDITION",
                                  "SKIPPED_ALREADY_SATISFIED"}
            /\ record.attempt = 0
         \/ record.status = "READY" /\ record.attempt = 1,
         Justifies(n, record.status, node),
         record.status = "SKIPPED_ALREADY_SATISFIED" =>
             \A m \in Ancestors[n] : node[m].status = "SKIPPED_ALREADY_SATISFIED"
  PROVE  SoundMove(n, record)
  <1>1. /\ node[n].status = "PENDING" /\ exec[n] = "idle" /\ ~node[n].uncertain
        /\ \A d \in Deps[n] : Settled(d)
    BY PlanningFacts
  <1>2. ~Settled(n) BY <1>1 DEF Settled, Terminal, Success, Bad
  <1>3. record.attempt \in 0..(1 + MaxRetries[n])
    BY ConfigurationAssumption
  <1>4. /\ record.status # "RUNNING"
        /\ record.status \in {"PENDING", "BLOCKED", "SKIPPED_CONDITION",
                              "SKIPPED_ALREADY_SATISFIED"} => record.attempt = 0
        /\ record.status \in {"READY"} \cup Outcomes => record.attempt > 0
    BY SMT DEF Outcomes
  <1>5. TypeOK /\ RecordsInv BY DEF IInv
  <1>6. Move(n, record) /\ RecordOK(n)'
    BY <1>1, <1>3, <1>4, <1>5, IdleWrite
  <1>. QED BY <1>1, <1>2, <1>6 DEF SoundMove

LEMMA PlanSkipMoves ==
  ASSUME IInv, NEW n \in Nodes, PlanSkip(n)
  PROVE  \E record : SoundMove(n, record) /\ record.attempt = 0 /\ ~record.uncertain
                      /\ record.status \in {"BLOCKED", "SKIPPED_CONDITION"}
  <1>1. Planning(n) BY DEF PlanSkip
  <1>2. PICK status \in {"BLOCKED", "SKIPPED_CONDITION"} :
           /\ Justifies(n, status, node)
           /\ node' = [node EXCEPT ![n] = Skipped(node[n], status)]
    <2>1. CASE /\ ~Matches(n, recs)
               /\ Store(n, Skipped(node[n], TriggerStatus(n, recs)))
      <3>1. ~Matches(n, node) /\ TriggerStatus(n, recs) = TriggerStatus(n, node)
        BY <1>1, <2>1, PlanningFacts
      <3>2. /\ TriggerStatus(n, node) \in {"BLOCKED", "SKIPPED_CONDITION"}
            /\ TriggerStatus(n, node) = "BLOCKED" =>
                   \E d \in Deps[n] : node[d].status \in Bad
        BY Zenon DEF TriggerStatus
      <3>3. Justifies(n, TriggerStatus(n, node), node)
        BY <3>1, <3>2 DEF Justifies, Outcomes
      <3>4. node' = [node EXCEPT ![n] = Skipped(node[n], TriggerStatus(n, node))]
        BY <2>1, <3>1, Zenon DEF Store
      <3>. QED BY <3>2, <3>3, <3>4, Zenon
    <2>2. CASE /\ n \in ConditionFalse
               /\ Store(n, Skipped(node[n], "SKIPPED_CONDITION"))
      <3>1. Justifies(n, "SKIPPED_CONDITION", node) BY <2>2 DEF Justifies, Outcomes
      <3>. QED BY <2>2, <3>1, Zenon DEF Store
    <2>. QED BY <2>1, <2>2, Zenon DEF PlanSkip
  <1>3. /\ node[n] \in NodeRecord /\ node[n].attempt = 0 /\ ~node[n].uncertain
    BY <1>1, PlanningFacts
  <1>4. status \in Terminal BY DEF Terminal, Bad
  <1>. DEFINE record == Skipped(node[n], status)
  <1>5. /\ record \in NodeRecord /\ ~record.uncertain
        /\ record.attempt = 0 /\ record.status = status
    BY <1>3, <1>4, SkippedType
  <1>6. node' = [node EXCEPT ![n] = record] /\ exec' = exec /\ child' = child
    BY <1>2 DEF PlanSkip, workVars
  <1>. HIDE DEF record
  <1>7. Justifies(n, record.status, node) BY <1>2, <1>5, Zenon
  <1>8. record.status # "SKIPPED_ALREADY_SATISFIED" BY <1>5
  <1>9. SoundMove(n, record) BY <1>1, <1>5, <1>6, <1>7, <1>8, PlanMoves
  <1>. QED BY <1>5, <1>9

(* What a prior success that may be reused says of the dependencies: they  *)
(* were reused too.                                                        *)
LEMMA ReusedDependencies ==
  ASSUME IInv, NEW n \in Nodes, Planning(n), CanReuse(n), NEW d \in Deps[n]
  PROVE  node[d].status = "SKIPPED_ALREADY_SATISFIED"
  <1>1. d \in Nodes BY PlanPositions
  <1>2. recs[d] = node[d] /\ Settled(d) BY PlanningFacts
  <1>4. n \in Descendants({d}) BY <1>1, DescendantsDown
  <1>5. d \notin invalid
    <2>1. d \in invalid => Descendants({d}) \subseteq invalid
      BY Zenon DEF IInv, InvalidInv
    <2>. QED BY <1>4, <2>1 DEF CanReuse
  <1>6. prior[d].status \in Success \cup {"NONE"}
    BY <1>1, <1>5, Zenon DEF IInv, InvalidInv
  <1>7. pc # "planfail" BY DEF Planning, InLoop
  <1>8. ~(node[d].attempt > 0)
    BY <1>1, <1>5, <1>7, Zenon DEF IInv, InvalidInv
  <1>9. Normalised(node[d].status) = Normalised(prior[d].status)
    BY <1>2 DEF CanReuse, SameInputs
  <1>10. AttemptOK(d) BY <1>1, Zenon DEF IInv, RecordsInv, RecordOK
  <1>11. node[d].status \in Terminal BY <1>2 DEF Settled
  <1>12. node[d].status # "SUCCEEDED" BY <1>8, <1>10 DEF AttemptOK
  <1>. QED BY <1>6, <1>9, <1>11, <1>12 DEF Normalised, Success, Terminal, Bad

LEMMA PlanReuseMoves ==
  ASSUME IInv, NEW n \in Nodes, PlanReuse(n)
  PROVE  \E record : SoundMove(n, record) /\ record.attempt = 0 /\ ~record.uncertain
                      /\ record.status = "SKIPPED_ALREADY_SATISFIED"
  <1>1. Planning(n) /\ CanReuse(n) /\ Matches(n, recs)
    BY DEF PlanReuse, Considered
  <1>2. /\ node[n] \in NodeRecord /\ node[n].attempt = 0 /\ ~node[n].uncertain
        /\ Matches(n, node)
    BY <1>1, PlanningFacts
  <1>. DEFINE record == Reused(node[n], [outputs |-> NoOutput, reusedFrom |-> 0], 0)
              source == [outputs |-> NoOutput, reusedFrom |-> 0]
  <1>3. /\ record \in NodeRecord /\ ~record.uncertain /\ record.attempt = 0
        /\ record.status = "SKIPPED_ALREADY_SATISFIED"
    <2>1. source.outputs \in Nat \X Nat /\ source.reusedFrom \in Nat
      BY SMT DEF NoOutput
    <2>2. node[n] \in NodeRecord /\ 0 \in Nat BY <1>2
    <2>. HIDE DEF source
    <2>3. /\ Reused(node[n], source, 0) \in NodeRecord
          /\ Reused(node[n], source, 0).uncertain = node[n].uncertain
          /\ Reused(node[n], source, 0).attempt = node[n].attempt
          /\ Reused(node[n], source, 0).status = "SKIPPED_ALREADY_SATISFIED"
      BY <2>1, <2>2, ReusedType
    <2>. QED BY <1>2, <2>3 DEF source
  <1>4. node' = [node EXCEPT ![n] = record] /\ exec' = exec /\ child' = child
    BY DEF PlanReuse, Store, workVars
  <1>. HIDE DEF record
  <1>5. Justifies(n, record.status, node) BY <1>2, <1>3 DEF Justifies, Outcomes
  <1>6. \A m \in Ancestors[n] : node[m].status = "SKIPPED_ALREADY_SATISFIED"
    <2>1. \A d \in Deps[n] : node[d].status = "SKIPPED_ALREADY_SATISFIED"
      BY <1>1, ReusedDependencies
    <2>2. \A d \in Deps[n] : ReuseOK(d)
      BY PlanPositions, Zenon DEF IInv, RecordsInv
    <2>3. \A m \in Ancestors[n] : m \in Deps[n] \/ \E d \in Deps[n] : m \in Ancestors[d]
      BY AncestorsUp
    <2>. QED BY <2>1, <2>2, <2>3, Zenon DEF ReuseOK
  <1>7. SoundMove(n, record) BY <1>1, <1>3, <1>4, <1>5, <1>6, PlanMoves
  <1>. QED BY <1>3, <1>7

LEMMA PlanPrepareMoves ==
  ASSUME IInv, NEW n \in Nodes, PlanError(n) \/ PlanDispatch(n)
  PROVE  /\ SoundMove(n, Prepared(node[n]))
         /\ Prepared(node[n]).attempt = 1 /\ Prepared(node[n]).status = "READY"
         /\ ~Prepared(node[n]).uncertain
  <1>1. Planning(n) /\ Matches(n, recs)
    BY DEF PlanError, PlanDispatch, Considered
  <1>2. /\ node[n] \in NodeRecord /\ node[n].attempt = 0 /\ ~node[n].uncertain
        /\ Matches(n, node)
    BY <1>1, PlanningFacts
  <1>. DEFINE record == Prepared(node[n])
  <1>3. /\ record \in NodeRecord /\ ~record.uncertain /\ record.attempt = 1
        /\ record.status = "READY"
    BY <1>2, PreparedType
  <1>4. node' = [node EXCEPT ![n] = record] /\ exec' = exec /\ child' = child
    BY DEF PlanError, PlanDispatch, Store, workVars
  <1>. HIDE DEF record
  <1>5. Justifies(n, record.status, node) BY <1>2, <1>3 DEF Justifies, Outcomes
  <1>6. record.status # "SKIPPED_ALREADY_SATISFIED" BY <1>3
  <1>7. SoundMove(n, record) BY <1>1, <1>3, <1>4, <1>5, <1>6, PlanMoves
  <1>. QED BY <1>3, <1>7 DEF record

LEMMA PlanFailsMoves ==
  ASSUME IInv, NEW n \in Nodes, PlanFails(n)
  PROVE  \E record : SoundMove(n, record) /\ record.status = "FAILED" /\ ~record.uncertain
                      /\ record.attempt = node[n].attempt
  <1>1. pc = "planfail" /\ n = Plan[at] BY DEF PlanFails
  <1>2. n \notin active /\ node[n].status = "READY"
    BY <1>1, Zenon DEF IInv, LoopInv, PlanFailInv
  <1>3. recs[n] = node[n] /\ exec[n] = "idle" /\ ~node[n].uncertain
    BY <1>1, <1>2, LoopReads DEF IInv, LoopInv, Iteration
  <1>4. node[n] \in NodeRecord BY DEF IInv, TypeOK
  <1>5. PICK retryable \in BOOLEAN :
           Store(n, Finished(node[n], "FAILED", retryable, FALSE, NoOutput, FALSE))
    <2>1. PICK retryable \in (IF n \in Unreadable THEN BOOLEAN ELSE {FALSE}) :
             Store(n, Finished(node[n], "FAILED", retryable, FALSE, NoOutput, FALSE))
      BY Zenon DEF PlanFails
    <2>2. retryable \in BOOLEAN OBVIOUS
    <2>. QED BY <2>1, <2>2, Zenon
  <1>. DEFINE record == Finished(node[n], "FAILED", retryable, FALSE, NoOutput, FALSE)
  <1>6. /\ record \in NodeRecord /\ ~record.uncertain
        /\ record.attempt = node[n].attempt /\ record.status = "FAILED"
    <2>1. PICK off \in BOOLEAN : off = FALSE OBVIOUS
    <2>2. record = Finished(node[n], "FAILED", retryable, off, NoOutput, off)
      BY <2>1, Zenon
    <2>3. "FAILED" \in Outcomes /\ NoOutput \in Nat \X Nat
      BY SMT DEF Outcomes, NoOutput
    <2>. HIDE DEF record
    <2>4. /\ record \in NodeRecord /\ record.uncertain = off
          /\ record.attempt = node[n].attempt /\ record.status = "FAILED"
      BY <1>4, <2>2, <2>3, FinishedType
    <2>. QED BY <2>1, <2>4
  <1>7. node' = [node EXCEPT ![n] = record] /\ exec' = exec /\ child' = child
    BY <1>5 DEF PlanFails, Store, workVars
  <1>. HIDE DEF record
  <1>8. RecordOK(n) /\ SettledOK(n) /\ Justifies(n, node[n].status, node)
    BY Zenon DEF IInv, RecordsInv
  <1>9. /\ record.attempt \in 0..(1 + MaxRetries[n])
        /\ record.attempt > 0
    BY <1>2, <1>6, <1>8 DEF RecordOK, AttemptOK
  <1>10. TypeOK /\ RecordsInv BY DEF IInv
  <1>11. Move(n, record) /\ RecordOK(n)'
    BY <1>3, <1>6, <1>7, <1>9, <1>10, IdleWrite
  <1>12. Justifies(n, record.status, node)
    BY <1>2, <1>6, <1>8 DEF Justifies, Outcomes
  <1>13. ~Settled(n) /\ Planned(n)
    BY <1>2 DEF Settled, Planned, Terminal, Success, Bad
  <1>14. SoundMove(n, record)
    BY <1>6, <1>8, <1>11, <1>12, <1>13 DEF SoundMove, SettledOK
  <1>. QED BY <1>6, <1>14

-----------------------------------------------------------------------------
(* The executor threads and the children.  *)

(* The current attempt of a node with a running future ends, or its child  *)
(* starts it.                                                              *)
LEMMA WorkMoves ==
  ASSUME TypeOK, RecordsInv, NEW n \in Nodes, exec[n] = "running",
         node[n].status \in {"READY", "RUNNING"},
         NEW record, Move(n, record), RecordOK(n)',
         record.status \in {"RUNNING"} \cup Outcomes
  PROVE  SoundMove(n, record)
  <1>1. Justifies(n, node[n].status, node) /\ SettledOK(n)
    BY Zenon DEF RecordsInv
  <1>2. Justifies(n, record.status, node) BY <1>1 DEF Justifies, Outcomes
  <1>3. ~Settled(n) BY DEF Settled
  <1>4. Planned(n) BY DEF Planned
  <1>. QED BY <1>1, <1>2, <1>3, <1>4 DEF SoundMove, SettledOK, Outcomes

LEMMA ChildClaimsMoves ==
  ASSUME IInv, NEW n \in Nodes, NEW a \in Attempts, ChildClaims(n, a)
  PROVE  SoundMove(n, Claimed(node[n])) /\ exec[n] = "running"
  <1>1. /\ RecordOK(n) /\ node[n] \in NodeRecord /\ child[n] \in [Attempts -> Phases]
        /\ TypeOK /\ RecordsInv
    BY DEF IInv, TypeOK, RecordsInv
  <1>2. /\ child[n][a] = "launched"
        /\ node[n].status = "READY" /\ node[n].attempt = a
        /\ node' = [node EXCEPT ![n] = Claimed(node[n])]
        /\ child' = [child EXCEPT ![n][a] = "claimed"]
        /\ exec' = exec
    BY DEF ChildClaims, Claimable, SetChild
  <1>3. ~node[n].uncertain BY <1>1, <1>2 DEF RecordOK, AttemptOK
  <1>4. exec[n] = "running" BY <1>1, <1>2, <1>3 DEF RecordOK, ChildOK
  <1>. DEFINE record == Claimed(node[n])
  <1>5. /\ record \in NodeRecord /\ ~record.uncertain
        /\ record.attempt = node[n].attempt /\ record.status = "RUNNING"
    BY <1>1, <1>3, ClaimedType
  <1>. HIDE DEF record
  <1>6. node'[n] = record BY <1>1, <1>2 DEF TypeOK, record
  <1>7. Move(n, record) BY <1>1, <1>2, <1>5 DEF Move, TypeOK, record
  <1>8. AttemptOK(n)' BY <1>1, <1>2, <1>5, <1>6 DEF RecordOK, AttemptOK
  <1>9. FutureOK(n)' BY <1>2, <1>4, <1>5, <1>6 DEF FutureOK
  <1>10. ChildOK(n)'
    <2>1. \A b \in Attempts : child'[n][b] = IF b = a THEN "claimed" ELSE child[n][b]
      BY <1>1, <1>2 DEF TypeOK
    <2>. QED BY <1>1, <1>2, <1>4, <1>5, <1>6, <2>1 DEF RecordOK, ChildOK
  <1>11. SoundMove(n, record)
    BY <1>1, <1>2, <1>4, <1>5, <1>7, <1>8, <1>9, <1>10, WorkMoves DEF RecordOK
  <1>. QED BY <1>4, <1>11 DEF record

(* A record that ends while no child of the node is left at work. *)
LEMMA EndMoves ==
  ASSUME IInv, NEW n \in Nodes, exec[n] = "running",
         node[n].status \in {"READY", "RUNNING"}, NEW record \in NodeRecord,
         node' = [node EXCEPT ![n] = record],
         record.attempt = node[n].attempt, record.status \in Outcomes,
         record.uncertain => record.status \in {"FAILED", "TIMED_OUT"} /\ exec'[n] # "running",
         exec'[n] \in {"running", "done"},
         \A m \in Nodes \ {n} : exec'[m] = exec[m] /\ child'[m] = child[m],
         \A a \in Attempts : child'[n][a] \in {"launched", "claimed"} =>
                                 record.uncertain /\ child'[n][a] = child[n][a]
  PROVE  SoundMove(n, record)
  <1>1. RecordOK(n) /\ TypeOK /\ RecordsInv BY DEF IInv, RecordsInv
  <1>2. node'[n] = record BY <1>1 DEF TypeOK
  <1>3. Move(n, record) BY DEF Move
  <1>4. AttemptOK(n)'
    BY <1>1, <1>2 DEF RecordOK, AttemptOK, Outcomes
  <1>5. FutureOK(n)' BY <1>2 DEF FutureOK
  <1>6. ChildOK(n)'
    BY <1>1, <1>2 DEF RecordOK, ChildOK
  <1>. QED BY <1>1, <1>3, <1>4, <1>5, <1>6, WorkMoves DEF RecordOK

LEMMA ChildReportsMoves ==
  ASSUME IInv, NEW n \in Nodes, NEW a \in Attempts, ChildReports(n, a)
  PROVE  /\ exec[n] = "running"
         /\ \E record : /\ SoundMove(n, record) /\ record.status \in Outcomes
                        /\ record.attempt = node[n].attempt
  <1>1. /\ child[n][a] = "claimed" /\ node[n].attempt = a /\ node[n].status = "RUNNING"
        /\ child' = [child EXCEPT ![n][a] = "reported"] /\ exec' = exec
    BY DEF ChildReports, Finishable, SetChild
  <1>2. /\ RecordOK(n) /\ node[n] \in NodeRecord
        /\ child \in [Nodes -> [Attempts -> Phases]]
    BY DEF IInv, TypeOK, RecordsInv
  <1>3. ~node[n].uncertain BY <1>1, <1>2 DEF RecordOK, AttemptOK
  <1>4. exec[n] = "running" BY <1>1, <1>2, <1>3 DEF RecordOK, ChildOK
  <1>5. PICK off \in BOOLEAN : off = FALSE OBVIOUS
  <1>6. /\ Outcomes = {"SUCCEEDED", "FAILED", "TIMED_OUT"}
        /\ NoOutput \in Nat \X Nat /\ <<1, a>> \in Nat \X Nat
    <2>1. a \in Nat BY <1>1, <1>2 DEF NodeRecord
    <2>. QED BY <2>1, SMT DEF Outcomes, NoOutput
  <1>7. PICK status \in Outcomes, retryable \in BOOLEAN, output \in Nat \X Nat,
             late \in BOOLEAN :
           node' = [node EXCEPT ![n] =
                      Finished(node[n], status, retryable, off, output, late)]
    <2>1. CASE \E late \in BOOLEAN :
                  node' = [node EXCEPT ![n] =
                             Finished(node[n], "SUCCEEDED", FALSE, FALSE, <<1, a>>, late)]
      <3>1. PICK late \in BOOLEAN :
               node' = [node EXCEPT ![n] =
                          Finished(node[n], "SUCCEEDED", FALSE, FALSE, <<1, a>>, late)]
        BY <2>1
      <3>2. node' = [node EXCEPT ![n] =
                       Finished(node[n], "SUCCEEDED", off, off, <<1, a>>, late)]
        BY <1>5, <3>1, Zenon
      <3>. QED BY <1>6, <3>2, Zenon
    <2>2. CASE \E status \in {"FAILED", "TIMED_OUT"}, retryable \in BOOLEAN :
                  node' = [node EXCEPT ![n] =
                             Finished(node[n], status, retryable, FALSE, NoOutput, FALSE)]
      <3>1. PICK status \in {"FAILED", "TIMED_OUT"}, retryable \in BOOLEAN :
               node' = [node EXCEPT ![n] =
                          Finished(node[n], status, retryable, FALSE, NoOutput, FALSE)]
        BY <2>2
      <3>2. node' = [node EXCEPT ![n] =
                       Finished(node[n], status, retryable, off, NoOutput, off)]
        BY <1>5, <3>1, Zenon
      <3>3. status \in Outcomes BY <1>6
      <3>. QED BY <1>6, <3>2, <3>3, Zenon
    <2>3. (IF expired THEN {TRUE} ELSE BOOLEAN) \subseteq BOOLEAN OBVIOUS
    <2>. QED BY <2>1, <2>2, <2>3, Zenon DEF ChildReports
  <1>. DEFINE record == Finished(node[n], status, retryable, off, output, late)
  <1>8. /\ record \in NodeRecord /\ record.uncertain = off
        /\ record.attempt = node[n].attempt /\ record.status \in Outcomes
    BY <1>2, FinishedType
  <1>9. node' = [node EXCEPT ![n] = record] BY <1>7
  <1>. HIDE DEF record
  <1>10. \A b \in Attempts : child'[n][b] \notin {"launched", "claimed"}
    <2>1. \A b \in Attempts : child'[n][b] = IF b = a THEN "reported" ELSE child[n][b]
      BY <1>1, <1>2
    <2>. QED BY <1>1, <1>2, <2>1 DEF RecordOK, ChildOK
  <1>11. \A m \in Nodes \ {n} : exec'[m] = exec[m] /\ child'[m] = child[m]
    BY <1>1, <1>2
  <1>12. ~record.uncertain BY <1>5, <1>8
  <1>13. SoundMove(n, record)
    BY <1>1, <1>4, <1>8, <1>9, <1>10, <1>11, <1>12, EndMoves
  <1>. QED BY <1>4, <1>8, <1>13

(* An executor leaves a record that has ended as it is; otherwise it ends  *)
(* the record itself.                                                      *)
LEMMA ExecutorMoves ==
  ASSUME IInv, NEW n \in Nodes, Executor(n)
  PROVE  /\ exec[n] = "running" /\ exec' = [exec EXCEPT ![n] = "done"] /\ child' = child
         /\ \/ node' = node /\ node[n].status \in Outcomes
            \/ \E record : /\ SoundMove(n, record) /\ record.status \in Outcomes
                           /\ record.attempt = node[n].attempt
                           /\ node[n].status \in {"READY", "RUNNING"}
  <1>1. /\ exec[n] = "running" /\ exec' = [exec EXCEPT ![n] = "done"] /\ child' = child
    BY DEF Executor, ExecutorSettles, ExecutorGivesUp
  <1>2. RecordOK(n) /\ node[n] \in NodeRecord /\ exec \in [Nodes -> {"idle", "running", "done"}]
    BY DEF IInv, TypeOK, RecordsInv
  <1>3. node[n].status \in {"READY", "RUNNING"} \cup Outcomes
    BY <1>1, <1>2 DEF RecordOK, FutureOK
  <1>4. CASE node[n].status \in Terminal
    <2>1. node' = node BY <1>4, Zenon DEF Executor, ExecutorSettles, ExecutorGivesUp
    <2>2. node[n].status \in Outcomes
      BY <1>3, <1>4 DEF Outcomes, Terminal, Success, Bad
    <2>. QED BY <1>1, <2>1, <2>2
  <1>5. CASE node[n].status \notin Terminal
    <2>1. node[n].status \in {"READY", "RUNNING"}
      BY <1>3, <1>5 DEF Outcomes, Terminal, Success, Bad
    <2>2. PICK off \in BOOLEAN, on \in BOOLEAN : off = FALSE /\ on = TRUE OBVIOUS
    <2>3. PICK status \in {"FAILED", "TIMED_OUT"}, retryable \in BOOLEAN,
               uncertain \in BOOLEAN :
             /\ node' = [node EXCEPT ![n] =
                           Finished(node[n], status, retryable, uncertain, NoOutput, off)]
             /\ uncertain \/ child[n][node[n].attempt] = "none"
      <3>1. CASE ExecutorSettles(n)
        <4>1. PICK status \in {"FAILED", "TIMED_OUT"}, retryable \in BOOLEAN :
                 node' = [node EXCEPT ![n] =
                            Finished(node[n], status, retryable, FALSE, NoOutput, FALSE)]
          BY <1>5, <3>1, Zenon DEF ExecutorSettles
        <4>2. node' = [node EXCEPT ![n] =
                         Finished(node[n], status, retryable, off, NoOutput, off)]
          BY <2>2, <4>1, Zenon
        <4>. QED BY <3>1, <4>2, Zenon DEF ExecutorSettles
      <3>2. CASE ExecutorGivesUp(n)
        <4>1. PICK status \in {"FAILED", "TIMED_OUT"} :
                 node' = [node EXCEPT ![n] =
                            Finished(node[n], status, FALSE, TRUE, NoOutput, FALSE)]
          BY <1>5, <3>2, Zenon DEF ExecutorGivesUp
        <4>2. node' = [node EXCEPT ![n] =
                         Finished(node[n], status, off, on, NoOutput, off)]
          BY <2>2, <4>1, Zenon
        <4>. QED BY <2>2, <4>2, Zenon
      <3>. QED BY <3>1, <3>2, Zenon DEF Executor
    <2>. DEFINE record == Finished(node[n], status, retryable, uncertain, NoOutput, off)
    <2>4. record = Finished(node[n], status, retryable, uncertain, NoOutput, off) OBVIOUS
    <2>. HIDE DEF record
    <2>5. /\ status \in Outcomes /\ status # "SUCCEEDED"
          /\ NoOutput \in Nat \X Nat
      BY SMT DEF Outcomes, NoOutput
    <2>6. /\ record \in NodeRecord /\ record.uncertain = uncertain
          /\ record.attempt = node[n].attempt /\ record.status = status
      BY <1>2, <2>4, <2>5, FinishedType, SMTT(30)
    <2>7. node' = [node EXCEPT ![n] = record] BY <2>3, <2>4
    <2>8. \A m \in Nodes \ {n} : exec'[m] = exec[m] /\ child'[m] = child[m]
      BY <1>1, <1>2
    <2>9. exec'[n] = "done" BY <1>1, <1>2
    <2>10. \A a \in Attempts : child'[n][a] \in {"launched", "claimed"} =>
                                 record.uncertain /\ child'[n][a] = child[n][a]
      <3>1. ~uncertain => child[n][node[n].attempt] = "none" BY <2>3, Zenon
      <3>. QED BY <1>1, <1>2, <2>6, <3>1 DEF RecordOK, ChildOK
    <2>11. SoundMove(n, record)
      BY <1>1, <2>1, <2>5, <2>6, <2>7, <2>8, <2>9, <2>10, EndMoves
    <2>. QED BY <1>1, <2>1, <2>5, <2>6, <2>11
  <1>. QED BY <1>4, <1>5

(* Dispatch gives READY attempts a future and a child of their own. *)
LEMMA SubmitRecords == ASSUME IInv, Submit PROVE RecordsInv'
  <1>. SUFFICES ASSUME NEW n \in Nodes
                PROVE  /\ RecordOK(n)' /\ SettledOK(n)'
                       /\ Justifies(n, node'[n].status, node') /\ ReuseOK(n)'
    BY Zenon DEF RecordsInv, Justifies, Matches
  <1>1. /\ RecordOK(n) /\ SettledOK(n) /\ Justifies(n, node[n].status, node) /\ ReuseOK(n)
    BY Zenon DEF IInv, RecordsInv
  <1>2. node' = node BY DEF Submit, storeVars
  <1>3. \A m \in Batch : /\ m \in Nodes /\ recs[m] = node[m] /\ exec[m] = "idle"
                         /\ ~node[m].uncertain /\ node[m].status = "READY"
    <2>. SUFFICES ASSUME NEW m \in Batch
                  PROVE  /\ m \in Nodes /\ recs[m] = node[m] /\ exec[m] = "idle"
                         /\ ~node[m].uncertain /\ node[m].status = "READY"
      OBVIOUS
    <2>1. m \in Nodes /\ m \notin active /\ recs[m].status = "READY"
      BY DEF Batch, IInv, TypeOK
    <2>. QED BY <2>1, LoopReads DEF Submit, IInv, LoopInv, Iteration
  <1>4. \A m \in Nodes : exec'[m] = IF m \in Batch THEN "running" ELSE exec[m]
    BY Zenon DEF Submit
  <1>5. RecordOK(n)'
    <2>1. CASE n \in Batch
      <3>1. child'[n] = [child[n] EXCEPT ![node[n].attempt] = "launched"]
        BY <1>3, <2>1, Zenon DEF Submit
      <3>2. \A a \in Attempts : child[n][a] \notin {"launched", "claimed"}
        BY <1>1, <1>3, <2>1 DEF RecordOK, ChildOK
      <3>3. child[n] \in [Attempts -> Phases] BY DEF IInv, TypeOK
      <3>4. ChildOK(n)'
        BY <1>2, <1>3, <1>4, <2>1, <3>1, <3>2, <3>3 DEF ChildOK
      <3>. QED BY <1>1, <1>2, <1>3, <1>4, <2>1, <3>4 DEF RecordOK, AttemptOK, FutureOK
    <2>2. CASE n \notin Batch
      <3>1. child'[n] = child[n] BY <2>2, Zenon DEF Submit
      <3>. QED BY <1>1, <1>2, <1>4, <2>2, <3>1 DEF RecordOK, AttemptOK, FutureOK, ChildOK
    <2>. QED BY <2>1, <2>2
  <1>6. SettledOK(n)'
    <2>1. \A d \in Nodes : Settled(d) => Settled(d)'
      BY <1>2, <1>3, <1>4 DEF Settled, Retryable, Terminal, Success, Bad
    <2>. QED BY <1>1, <1>2, <2>1, PlanPositions DEF SettledOK, Planned
  <1>7. ReuseOK(n)' BY <1>1, <1>2 DEF ReuseOK
  <1>. QED BY <1>1, <1>2, <1>5, <1>6, <1>7, Zenon

LEMMA ChildEndsRecords ==
  ASSUME IInv, NEW n \in Nodes, NEW a \in Attempts, ChildEnds(n, a)
  PROVE  RecordsInv'
  <1>. SUFFICES ASSUME NEW m \in Nodes
                PROVE  /\ RecordOK(m)' /\ SettledOK(m)'
                       /\ Justifies(m, node'[m].status, node') /\ ReuseOK(m)'
    BY Zenon DEF RecordsInv, Justifies, Matches
  <1>1. /\ RecordOK(m) /\ SettledOK(m) /\ Justifies(m, node[m].status, node) /\ ReuseOK(m)
    BY Zenon DEF IInv, RecordsInv
  <1>2. node' = node /\ exec' = exec /\ child' = [child EXCEPT ![n][a] = "none"]
    BY DEF ChildEnds, SetChild, storeVars
  <1>3. \A b \in Attempts : child'[m][b] \in {"launched", "claimed"} =>
                                child'[m][b] = child[m][b]
    BY <1>2 DEF IInv, TypeOK
  <1>4. RecordOK(m)'
    BY <1>1, <1>2, <1>3 DEF RecordOK, AttemptOK, FutureOK, ChildOK
  <1>5. SettledOK(m)'
    BY <1>1, <1>2, PlanPositions DEF SettledOK, Planned, Settled, Retryable
  <1>6. ReuseOK(m)' BY <1>1, <1>2 DEF ReuseOK
  <1>. QED BY <1>1, <1>2, <1>4, <1>5, <1>6, Zenon

(* All other steps leave the records and the children alone. *)
Rest ==
    /\ node' = node /\ child' = child
    /\ \A n \in Nodes : exec'[n] = exec[n] \/ (exec[n] = "done" /\ exec'[n] = "idle")

LoopRest ==
    \/ Reap \/ Snapshot \/ RetryDone \/ CancelDone \/ CancelLast \/ Reserve \/ ReserveDone
    \/ PlanPass \/ PlanDone \/ SubmitOverdue \/ BatchReturns \/ NothingToSubmit \/ Wake
    \/ Summarise \/ FinishRun

LEMMA LoopRests == ASSUME TypeOK, LoopRest PROVE Rest
  <1>1. CASE Reap BY <1>1, SMT DEF Reap, Rest, storeVars
  <1>2. CASE Snapshot \/ RetryDone \/ CancelDone \/ CancelLast \/ Reserve \/ ReserveDone
             \/ PlanPass \/ PlanDone
    BY <1>2, Zenon DEF Snapshot, RetryDone, CancelDone, CancelLast, Reserve, ReserveDone,
                       PlanPass, PlanDone, Rest, storeVars, workVars
  <1>3. CASE SubmitOverdue \/ NothingToSubmit \/ Wake \/ FinishRun
    BY <1>3, Zenon DEF SubmitOverdue, NothingToSubmit, Wake, FinishRun, Rest, storeVars, workVars
  <1>4. CASE BatchReturns \/ Summarise
    BY <1>4 DEF BatchReturns, Summarise, TypeOK, Rest, storeVars
  <1>. QED BY <1>1, <1>2, <1>3, <1>4 DEF LoopRest

(* What one step does to the records, the futures and the children. *)
LEMMA StepMoves ==
  ASSUME IInv, [Next]_vars
  PROVE  \/ Rest
         \/ Submit
         \/ \E n \in Nodes, a \in Attempts : ChildEnds(n, a)
         \/ \E n \in Nodes : Executor(n)
         \/ \E n \in Nodes : \E record : SoundMove(n, record) /\ exec' = exec
  <1>1. CASE Orchestrator
    <2>1. CASE LoopRest BY <2>1, LoopRests DEF IInv
    <2>2. CASE Retry
      <3>1. CASE LET n == Plan[at]
                 IN  n \notin active /\ ~expired /\ Retryable(n, recs[n])
        BY <2>2, <3>1, RetryMoves DEF Retry, workVars
      <3>2. CASE ~(LET n == Plan[at]
                   IN  n \notin active /\ ~expired /\ Retryable(n, recs[n]))
        BY <2>2, <3>2, Zenon DEF Retry, Rest, storeVars, workVars
      <3>. QED BY <3>1, <3>2
    <2>3. CASE Cancel
      <3>1. exec' = exec /\ child' = child BY <2>3 DEF Cancel, workVars
      <3>2. CASE node' # node
        <4>1. LET n == Plan[at]
              IN  n \notin active /\ recs[n].status \in {"PENDING", "READY"}
          BY <2>3, <3>2, Zenon DEF Cancel, storeVars
        <4>. QED BY <2>3, <3>1, <3>2, <4>1, CancelMoves
      <3>3. CASE node' = node BY <3>1, <3>3, Zenon DEF Rest
      <3>. QED BY <3>2, <3>3
    <2>4. CASE \E n \in Nodes : PlanSkip(n) \/ PlanReuse(n) \/ PlanError(n) \/ PlanFails(n)
                                \/ PlanDispatch(n)
      <3>1. PICK n \in Nodes : PlanSkip(n) \/ PlanReuse(n) \/ PlanError(n) \/ PlanFails(n)
                                \/ PlanDispatch(n)
        BY <2>4
      <3>2. exec' = exec
        BY <3>1, Zenon DEF PlanSkip, PlanReuse, PlanError, PlanFails, PlanDispatch, workVars
      <3>. QED BY <3>1, <3>2, PlanSkipMoves, PlanReuseMoves, PlanPrepareMoves, PlanFailsMoves
    <2>. QED BY <1>1, <2>1, <2>2, <2>3, <2>4, Zenon DEF Orchestrator, LoopRest
  <1>2. CASE \E n \in Nodes : Executor(n)
    BY <1>2
  <1>3. CASE (\E n \in Nodes : BackoffElapses(n)) \/ RunDeadline
    BY <1>3, Zenon DEF BackoffElapses, RunDeadline, storeVars, workVars, Rest
  <1>4. CASE \E n \in Nodes, a \in Attempts : Child(n, a)
    <2>1. PICK n \in Nodes, a \in Attempts : Child(n, a) BY <1>4
    <2>2. CASE ChildClaims(n, a)
      <3>1. exec' = exec BY <2>2 DEF ChildClaims
      <3>. QED BY <2>2, <3>1, ChildClaimsMoves
    <2>3. CASE ChildReports(n, a)
      <3>1. exec' = exec BY <2>3 DEF ChildReports
      <3>. QED BY <2>3, <3>1, ChildReportsMoves
    <2>. QED BY <2>1, <2>2, <2>3 DEF Child
  <1>5. CASE Ended \/ UNCHANGED vars
    BY <1>5, Zenon DEF Ended, vars, Rest
  <1>. QED BY <1>1, <1>2, <1>3, <1>4, <1>5 DEF Next

LEMMA RecordsStep == ASSUME IInv, [Next]_vars PROVE RecordsInv'
  <1>1. CASE Rest BY <1>1, RecordsRest DEF IInv, Rest
  <1>2. CASE Submit BY <1>2, SubmitRecords
  <1>3. CASE \E n \in Nodes, a \in Attempts : ChildEnds(n, a) BY <1>3, ChildEndsRecords
  <1>4. CASE \E n \in Nodes : Executor(n)
    <2>1. PICK n \in Nodes : Executor(n) BY <1>4
    <2>2. CASE \E record : SoundMove(n, record)
      BY <2>2, RecordsMove DEF IInv
    <2>3. CASE node' = node /\ node[n].status \in Outcomes
      <3>1. /\ exec[n] = "running" /\ exec' = [exec EXCEPT ![n] = "done"] /\ child' = child
        BY <2>1, ExecutorMoves
      <3>2. /\ TypeOK /\ RecordsInv /\ node[n] \in NodeRecord
            /\ RecordOK(n) /\ SettledOK(n) /\ Justifies(n, node[n].status, node)
        BY DEF IInv, RecordsInv, TypeOK
      <3>3. RecordOK(n)'
        BY <2>3, <3>1, <3>2 DEF RecordOK, AttemptOK, FutureOK, ChildOK, TypeOK, Outcomes
      <3>4. Move(n, node[n])
        BY <2>3, <3>1, <3>2 DEF Move, TypeOK
      <3>5. ~Settled(n) BY <3>1 DEF Settled
      <3>6. Planned(n) /\ node[n].status \notin {"SKIPPED_ALREADY_SATISFIED", "PENDING"}
        BY <2>3 DEF Planned, Outcomes
      <3>7. SoundMove(n, node[n])
        BY <3>2, <3>3, <3>4, <3>5, <3>6 DEF SoundMove, SettledOK
      <3>. QED BY <3>2, <3>7, RecordsMove
    <2>. QED BY <2>1, <2>2, <2>3, ExecutorMoves
  <1>5. CASE \E n \in Nodes : \E record : SoundMove(n, record)
    BY <1>5, RecordsMove DEF IInv
  <1>. QED BY <1>1, <1>2, <1>3, <1>4, <1>5, StepMoves

-----------------------------------------------------------------------------
(* Types *)

LEMMA NodeType == ASSUME IInv, [Next]_vars PROVE node' \in [Nodes -> NodeRecord]
  <1>1. node \in [Nodes -> NodeRecord] BY DEF IInv, TypeOK
  <1>2. ASSUME NEW n \in Nodes, NEW record, SoundMove(n, record)
        PROVE  node' \in [Nodes -> NodeRecord]
    BY <1>1, <1>2 DEF SoundMove, Move
  <1>3. ASSUME NEW n \in Nodes, NEW a \in Attempts, ChildEnds(n, a) PROVE node' = node
    BY <1>3 DEF ChildEnds, storeVars
  <1>4. ASSUME NEW n \in Nodes, Executor(n) PROVE node' \in [Nodes -> NodeRecord]
    BY <1>1, <1>2, <1>4, ExecutorMoves
  <1>5. Submit => node' = node BY DEF Submit, storeVars
  <1>. QED BY <1>1, <1>2, <1>3, <1>4, <1>5, StepMoves DEF Rest

LEMMA BlankType == Blank \in [Nodes -> NodeRecord]
  BY PendingNodeType DEF Blank

LEMMA StoreType ==
  ASSUME TypeOK, node' \in [Nodes -> NodeRecord], NEW n \in Nodes, NEW record, Store(n, record)
  PROVE  recs' \in [Nodes -> NodeRecord] /\ runStatus' = runStatus
  <1>1. record = node'[n] BY DEF Store, TypeOK
  <1>. QED BY <1>1 DEF Store, TypeOK

(* The types of the loop's own variables. *)
LoopType ==
    /\ recs \in [Nodes -> NodeRecord]
    /\ changed \in BOOLEAN /\ pc \in LoopPhases /\ at \in 1..(Len(Plan) + 1)
    /\ active \subseteq Nodes /\ reserved \subseteq Nodes /\ alarm \subseteq Nodes

LEMMA EndIterationType ==
  ASSUME NEW phase \in LoopPhases, EndIteration(phase)
  PROVE  LoopType'
  <1>1. Len(Plan) \in Nat BY PlanPositions
  <1>2. recs' \in [Nodes -> NodeRecord] /\ pc' \in LoopPhases
    BY BlankType, Zenon DEF EndIteration
  <1>3. at' \in 1..(Len(Plan) + 1) BY <1>1 DEF EndIteration
  <1>. QED BY <1>2, <1>3 DEF EndIteration, LoopType

LEMMA LoopTypeStep == ASSUME IInv, Orchestrator PROVE LoopType'
  <1>1. TypeOK /\ LoopType /\ Len(Plan) \in Nat
    BY PlanPositions DEF IInv, TypeOK, LoopType
  <1>2. node' \in [Nodes -> NodeRecord]
    BY NodeType DEF Next
  <1>3. at <= Len(Plan) => Plan[at] \in Nodes /\ at + 1 \in 1..(Len(Plan) + 1)
    BY <1>1, PlanPositions DEF LoopType
  <1>4. CASE Reap \/ Snapshot \/ BatchReturns \/ FinishRun \/ SubmitOverdue
    BY <1>1, <1>4 DEF Reap, Snapshot, BatchReturns, FinishRun, SubmitOverdue, LoopType,
                      LoopPhases, TypeOK
  <1>5. CASE RetryDone \/ CancelDone \/ ReserveDone \/ PlanDone
    BY <1>1, <1>5 DEF RetryDone, CancelDone, ReserveDone, PlanDone, LeaveLoop, ReservedBefore,
                      LoopType, LoopPhases
  <1>6. CASE PlanPass \/ Reserve
    BY <1>1, <1>3, <1>6 DEF PlanPass, Reserve, InLoop, Advance, LoopType
  <1>7. CASE CancelLast \/ Wake \/ Summarise \/ Submit
    <2>1. {"reap", "barrier", "finish", IF Eager THEN "reap" ELSE "barrier"} \subseteq LoopPhases
      BY DEF LoopPhases
    <2>. QED BY <1>7, <2>1, EndIterationType, Zenon
             DEF CancelLast, Wake, Summarise, Submit
  <1>8. CASE NothingToSubmit
    <2>1. CASE EndIteration("reap") BY <2>1, EndIterationType DEF LoopPhases
    <2>2. CASE ~EndIteration("reap")
      BY <1>1, <1>8, <2>2 DEF NothingToSubmit, LoopType, LoopPhases
    <2>. QED BY <2>1, <2>2
  <1>9. CASE Retry \/ Cancel
    <2>1. at <= Len(Plan) /\ Plan[at] \in Nodes BY <1>3, <1>9 DEF Retry, Cancel, InLoop
    <2>2. recs' \in [Nodes -> NodeRecord] /\ changed' \in BOOLEAN
      BY <1>1, <1>2, <1>9, <2>1, StoreType, Zenon DEF Retry, Cancel, LoopType
    <2>. QED BY <1>1, <1>3, <1>9, <2>1, <2>2 DEF Retry, Cancel, Advance, LoopType
  <1>10. CASE \E n \in Nodes : PlanSkip(n) \/ PlanReuse(n) \/ PlanError(n) \/ PlanFails(n)
                               \/ PlanDispatch(n)
    <2>1. PICK n \in Nodes : PlanSkip(n) \/ PlanReuse(n) \/ PlanError(n) \/ PlanFails(n)
                              \/ PlanDispatch(n)
      BY <1>10
    <2>2. at <= Len(Plan)
      BY <2>1, Zenon DEF PlanSkip, PlanReuse, PlanError, PlanFails, PlanDispatch, Considered,
                         Planning, InLoop, IInv, LoopInv, PlanFailInv
    <2>3. recs' \in [Nodes -> NodeRecord]
      BY <1>1, <1>2, <2>1, StoreType, Zenon
         DEF PlanSkip, PlanReuse, PlanError, PlanFails, PlanDispatch
    <2>4. /\ changed' \in BOOLEAN /\ pc' \in LoopPhases /\ at' \in {at, at + 1}
          /\ active' = active /\ alarm' = alarm /\ reserved' \in {reserved, reserved \cup {n}}
      BY <1>1, <2>1
         DEF PlanSkip, PlanReuse, PlanError, PlanFails, PlanDispatch, Advance, LoopType, LoopPhases
    <2>. QED BY <1>1, <1>3, <2>2, <2>3, <2>4 DEF LoopType
  <1>. QED BY <1>4, <1>5, <1>6, <1>7, <1>8, <1>9, <1>10, Zenon DEF Orchestrator

LEMMA TypeStep == ASSUME IInv, [Next]_vars PROVE TypeOK'
  <1>1. TypeOK /\ ClosedInv BY DEF IInv
  <1>2. node' \in [Nodes -> NodeRecord] BY NodeType
  <1>3. CASE Orchestrator
    <2>1. LoopType' BY <1>3, LoopTypeStep
    <2>2. /\ runStatus' \in {"RUNNING", "SUCCEEDED", "FAILED", "RECOVERY_REQUIRED"}
          /\ decided' \in {"none", "SUCCEEDED", "FAILED", "RECOVERY_REQUIRED"}
      <3>1. Summary \in {"SUCCEEDED", "FAILED", "RECOVERY_REQUIRED"} BY Zenon DEF Summary
      <3>2. /\ runStatus' = runStatus \/ (FinishRun /\ runStatus' = decided)
            /\ decided' = decided \/ (Summarise /\ decided' = Summary)
        BY <1>3, Zenon
           DEF Orchestrator, Reap, Snapshot, Retry, RetryDone, Cancel, CancelDone, CancelLast,
               Reserve, ReserveDone, PlanPass, PlanDone, PlanSkip, PlanReuse, PlanError,
               PlanFails, PlanDispatch, SubmitOverdue, Submit, BatchReturns, NothingToSubmit,
               Wake, Summarise, FinishRun, Store, storeVars
      <3>3. FinishRun => decided # "none"
        BY <3>1, <1>1 DEF FinishRun, ClosedInv
      <3>. QED BY <1>1, <3>1, <3>2, <3>3 DEF TypeOK
    <2>3. expired' = expired /\ due' \in [Nodes -> BOOLEAN]
      BY <1>1, <1>3, Zenon
         DEF TypeOK, Orchestrator, Reap, Snapshot, RetryDone, Cancel, CancelDone, CancelLast,
             Reserve, ReserveDone, PlanPass, PlanDone, PlanSkip, PlanReuse, PlanError,
             PlanFails, PlanDispatch, SubmitOverdue, Submit, BatchReturns, NothingToSubmit,
             Wake, Summarise, FinishRun, timeVars, Retry
    <2>4. exec' \in [Nodes -> {"idle", "running", "done"}]
      BY <1>1, <1>3
         DEF TypeOK, Orchestrator, Reap, Snapshot, Retry, RetryDone, Cancel, CancelDone,
             CancelLast, Reserve, ReserveDone, PlanPass, PlanDone, PlanSkip, PlanReuse,
             PlanError, PlanFails, PlanDispatch, SubmitOverdue, Submit, BatchReturns,
             NothingToSubmit, Wake, Summarise, FinishRun, workVars
    <2>5. child' \in [Nodes -> [Attempts -> Phases]]
      <3>1. CASE Submit BY <1>1, <3>1 DEF Submit, TypeOK, Phases
      <3>2. CASE ~Submit
        BY <1>1, <1>3, <3>2, Zenon
           DEF TypeOK, Orchestrator, Reap, Snapshot, Retry, RetryDone, Cancel, CancelDone,
               CancelLast, Reserve, ReserveDone, PlanPass, PlanDone, PlanSkip, PlanReuse,
               PlanError, PlanFails, PlanDispatch, SubmitOverdue, BatchReturns,
               NothingToSubmit, Wake, Summarise, FinishRun, workVars
      <3>. QED BY <3>1, <3>2
    <2>6. invalid' \subseteq Nodes
      <3>1. invalid' = invalid \/ \E n \in Nodes : Invalidate(n)
        BY <1>3, Zenon
           DEF Orchestrator, Reap, Snapshot, Retry, RetryDone, Cancel, CancelDone, CancelLast,
               Reserve, ReserveDone, PlanPass, PlanDone, PlanSkip, PlanReuse, PlanError,
               PlanFails, PlanDispatch, SubmitOverdue, Submit, BatchReturns, NothingToSubmit,
               Wake, Summarise, FinishRun
      <3>. QED BY <1>1, <3>1, DescendantsDown, Zenon DEF Invalidate, TypeOK
    <2>. QED BY <1>1, <1>2, <2>1, <2>2, <2>3, <2>4, <2>5, <2>6 DEF TypeOK, LoopType
  <1>4. CASE \E n \in Nodes : Executor(n)
    BY <1>1, <1>2, <1>4, ExecutorMoves
       DEF TypeOK, Executor, ExecutorSettles, ExecutorGivesUp, timeVars, loopVars
  <1>5. CASE (\E n \in Nodes : BackoffElapses(n)) \/ RunDeadline
    BY <1>1, <1>5 DEF TypeOK, BackoffElapses, RunDeadline, storeVars, workVars, loopVars
  <1>6. CASE \E n \in Nodes, a \in Attempts : Child(n, a)
    <2>1. PICK n \in Nodes, a \in Attempts : Child(n, a) BY <1>6
    <2>2. PICK phase \in Phases : child' = [child EXCEPT ![n][a] = phase]
      BY <2>1 DEF Child, ChildClaims, ChildReports, ChildEnds, SetChild, Phases
    <2>3. child' \in [Nodes -> [Attempts -> Phases]] BY <1>1, <2>2 DEF TypeOK
    <2>4. UNCHANGED <<runStatus, timeVars, exec, loopVars>>
      BY <2>1, Zenon DEF Child, ChildClaims, ChildReports, ChildEnds, storeVars
    <2>. QED BY <1>1, <1>2, <2>3, <2>4 DEF TypeOK, timeVars, loopVars
  <1>7. CASE Ended \/ UNCHANGED vars
    BY <1>1, <1>7 DEF TypeOK, Ended, vars
  <1>. QED BY <1>3, <1>4, <1>5, <1>6, <1>7, Zenon DEF Next

-----------------------------------------------------------------------------
(* The summary stands from the moment it is computed. *)

LEMMA SummarySame == ASSUME node' = node PROVE Summary' = Summary
  BY Zenon DEF Summary

LEMMA ClosedStep == ASSUME IInv, [Next]_vars PROVE ClosedInv'
  <1>1. TypeOK /\ ClosedInv BY DEF IInv
  <1>2. CASE Summarise
    <2>1. pc = "drain" /\ pc' = "finish" /\ node' = node /\ runStatus' = runStatus
          /\ decided' = Summary /\ \A n \in Nodes : exec'[n] = "idle"
      BY <1>2 DEF Summarise, EndIteration, storeVars
    <2>. QED BY <1>1, <2>1, SummarySame, Zenon DEF ClosedInv
  <1>3. CASE FinishRun
    <2>1. pc = "finish" /\ pc' = "ended" /\ node' = node /\ runStatus' = decided
          /\ decided' = decided /\ exec' = exec
      BY <1>3 DEF FinishRun, workVars
    <2>. QED BY <1>1, <2>1, SummarySame, Zenon DEF ClosedInv
  <1>4. CASE Orchestrator /\ ~Summarise /\ ~FinishRun
    <2>1. /\ runStatus' = runStatus
          /\ pc \notin {"finish", "ended"} /\ pc' \notin {"finish", "ended"}
      BY <1>4
         DEF Orchestrator, Reap, Snapshot, Retry, RetryDone, Cancel, CancelDone, CancelLast,
             Reserve, ReserveDone, PlanPass, PlanDone, PlanSkip, PlanReuse, PlanError,
             PlanFails, PlanDispatch, SubmitOverdue, Submit, BatchReturns, NothingToSubmit,
             Wake, Store, storeVars, EndIteration, LeaveLoop, Advance, InLoop, Considered,
             Planning
    <2>. QED BY <1>1, <2>1 DEF ClosedInv
  <1>5. CASE UNCHANGED <<runStatus, pc, decided>> /\ \E n \in Nodes : exec[n] = "running"
    BY <1>1, <1>5 DEF ClosedInv
  <1>6. CASE UNCHANGED <<runStatus, pc, decided, node, exec>>
    BY <1>1, <1>6, SummarySame, Zenon DEF ClosedInv
  <1>7. CASE \E n \in Nodes : Executor(n)
    <2>1. PICK n \in Nodes : Executor(n) BY <1>7
    <2>2. exec[n] = "running" BY <2>1, ExecutorMoves
    <2>3. UNCHANGED <<runStatus, pc, decided>>
      BY <2>1, Zenon DEF Executor, ExecutorSettles, ExecutorGivesUp, loopVars
    <2>. QED BY <1>5, <2>2, <2>3
  <1>8. CASE \E n \in Nodes, a \in Attempts : Child(n, a)
    <2>1. PICK n \in Nodes, a \in Attempts : Child(n, a) BY <1>8
    <2>2. UNCHANGED <<runStatus, pc, decided>>
      BY <2>1, Zenon DEF Child, ChildClaims, ChildReports, ChildEnds, storeVars, loopVars
    <2>3. CASE ChildClaims(n, a) BY <1>5, <2>2, <2>3, ChildClaimsMoves
    <2>4. CASE ChildReports(n, a) BY <1>5, <2>2, <2>4, ChildReportsMoves
    <2>5. CASE ChildEnds(n, a)
      BY <1>6, <2>2, <2>5 DEF ChildEnds, storeVars
    <2>. QED BY <2>1, <2>3, <2>4, <2>5 DEF Child
  <1>9. CASE (\E n \in Nodes : BackoffElapses(n)) \/ RunDeadline \/ Ended \/ UNCHANGED vars
    BY <1>6, <1>9, Zenon
       DEF BackoffElapses, RunDeadline, Ended, vars, storeVars, workVars, loopVars
  <1>. QED BY <1>2, <1>3, <1>4, <1>7, <1>8, <1>9, Zenon DEF Next

-----------------------------------------------------------------------------
(* Reuse *)

(* What is invalid stays so and stays closed; Invalidate closes it over n. *)
LEMMA InvalidateCloses ==
  ASSUME InvalidInv, NEW n \in Nodes, Invalidate(n)
  PROVE  /\ invalid \subseteq invalid' /\ n \in invalid'
         /\ \A m \in invalid' : Descendants({m}) \subseteq invalid'
  <1>1. CASE n \in invalid
    BY <1>1, Zenon DEF Invalidate, InvalidInv
  <1>2. CASE n \notin invalid
    <2>1. invalid' = invalid \cup Descendants({n}) BY <1>2, Zenon DEF Invalidate
    <2>2. \A m \in invalid : Descendants({m}) \subseteq invalid
      BY Zenon DEF InvalidInv
    <2>. QED BY <2>1, <2>2, DescendantsDown, Zenon
  <1>. QED BY <1>1, <1>2

(* A node that was never attempted is attempted by planning it only. *)
LEMMA FirstAttempts ==
  ASSUME IInv, [Next]_vars, NEW m \in Nodes, node'[m].attempt > 0, ~(node[m].attempt > 0)
  PROVE  PlanError(m) \/ PlanDispatch(m)
  <1>1. ~Rest /\ node' # node BY DEF Rest
  <1>2. ASSUME NEW n \in Nodes, NEW record, SoundMove(n, record)
        PROVE  m = n /\ record.attempt > 0
    BY <1>2 DEF SoundMove, Move, IInv, TypeOK
  <1>3. CASE Orchestrator
    <2>1. ~LoopRest BY <1>1, LoopRests DEF IInv
    <2>2. ~Submit BY <1>1 DEF Submit, storeVars
    <2>3. ~Retry
      <3>. SUFFICES ASSUME Retry PROVE FALSE OBVIOUS
      <3>. DEFINE n == Plan[at]
      <3>1. n \notin active /\ ~expired /\ Retryable(n, recs[n])
        BY <1>1, Zenon DEF Retry, storeVars
      <3>2. n \in Nodes /\ SoundMove(n, Prepared(node[n])) BY <3>1, RetryMoves
      <3>3. recs[n] = node[n]
        BY <3>1, <3>2, LoopReads DEF IInv, LoopInv, Retry, InLoop, Iteration
      <3>4. AttemptOK(n) /\ node[n].status \in {"FAILED", "TIMED_OUT"}
        BY <3>1, <3>2, <3>3 DEF IInv, RecordsInv, RecordOK, Retryable
      <3>5. m = n BY <1>2, <3>2
      <3>. QED BY <3>4, <3>5 DEF AttemptOK
    <2>4. ~Cancel
      <3>. SUFFICES ASSUME Cancel PROVE FALSE OBVIOUS
      <3>. DEFINE n == Plan[at]
      <3>1. n \notin active /\ recs[n].status \in {"PENDING", "READY"}
        BY <1>1, Zenon DEF Cancel, storeVars
      <3>2. n \in Nodes /\ SoundMove(n, Skipped(node[n], "CANCELLED"))
        BY <1>1, <3>1, CancelMoves
      <3>3. Skipped(node[n], "CANCELLED").attempt = node[n].attempt
        BY <3>2, SkippedType DEF IInv, TypeOK, Terminal, Bad
      <3>4. m = n /\ Skipped(node[n], "CANCELLED").attempt > 0 BY <1>2, <3>2
      <3>. QED BY <3>3, <3>4
    <2>5. \A n \in Nodes : ~PlanSkip(n) /\ ~PlanReuse(n)
      <3>1. ~(0 > 0) OBVIOUS
      <3>. QED BY <1>2, <3>1, PlanSkipMoves, PlanReuseMoves, Zenon
    <2>6. \A n \in Nodes : ~PlanFails(n) BY <1>2, PlanFailsMoves
    <2>7. PICK n \in Nodes : PlanError(n) \/ PlanDispatch(n)
      BY <1>3, <2>1, <2>2, <2>3, <2>4, <2>5, <2>6, Zenon DEF Orchestrator, LoopRest
    <2>8. m = n BY <1>2, <2>7, PlanPrepareMoves
    <2>. QED BY <2>7, <2>8
  <1>4. \A n \in Nodes : ~Executor(n) BY <1>1, <1>2, ExecutorMoves
  <1>5. ASSUME NEW n \in Nodes, NEW a \in Attempts, Child(n, a) PROVE FALSE
    <2>1. ~ChildEnds(n, a) BY <1>1 DEF ChildEnds, storeVars
    <2>2. ~ChildReports(n, a) BY <1>2, ChildReportsMoves
    <2>3. ~ChildClaims(n, a)
      <3>. SUFFICES ASSUME ChildClaims(n, a) PROVE FALSE OBVIOUS
      <3>1. Claimed(node[n]).attempt = node[n].attempt
        BY ClaimedType DEF IInv, TypeOK
      <3>2. m = n /\ Claimed(node[n]).attempt > 0 BY <1>2, ChildClaimsMoves
      <3>. QED BY <3>1, <3>2
    <2>. QED BY <1>5, <2>1, <2>2, <2>3 DEF Child
  <1>6. ~((\E n \in Nodes : BackoffElapses(n)) \/ RunDeadline \/ Ended \/ UNCHANGED vars)
    BY <1>1, Zenon DEF BackoffElapses, RunDeadline, Ended, vars, storeVars
  <1>. QED BY <1>3, <1>4, <1>5, <1>6, Zenon DEF Next

LEMMA InvalidStep == ASSUME IInv, [Next]_vars PROVE InvalidInv'
  <1>1. InvalidInv BY DEF IInv
  <1>2. prior' = prior
    BY Zenon
       DEF Next, Orchestrator, Reap, Snapshot, Retry, RetryDone, Cancel, CancelDone, CancelLast,
           Reserve, ReserveDone, PlanPass, PlanDone, PlanSkip, PlanReuse, PlanError,
           PlanFails, PlanDispatch, SubmitOverdue, Submit, BatchReturns, NothingToSubmit,
           Wake, Summarise, FinishRun, Executor, ExecutorSettles, ExecutorGivesUp,
           BackoffElapses, RunDeadline, Child, ChildClaims, ChildReports, ChildEnds, Ended, vars
  <1>3. CASE \E n \in Nodes : PlanError(n)
    <2>1. PICK n \in Nodes : PlanError(n) BY <1>3
    <2>2. /\ pc = "plan" /\ pc' = "planfail" /\ at' = at /\ n = Plan[at] /\ invalid' = invalid
      BY <2>1 DEF PlanError, Considered, Planning, InLoop
    <2>3. ASSUME NEW m \in Nodes, m # n PROVE node'[m] = node[m]
      BY <2>1, <2>3 DEF PlanError, Store, IInv, TypeOK
    <2>. QED BY <1>1, <1>2, <2>2, <2>3 DEF InvalidInv
  <1>4. CASE \E n \in Nodes : PlanFails(n) \/ PlanDispatch(n)
    <2>1. PICK n \in Nodes : PlanFails(n) \/ PlanDispatch(n) BY <1>4
    <2>2. Invalidate(n) BY <2>1 DEF PlanFails, PlanDispatch
    <2>3. /\ invalid \subseteq invalid' /\ n \in invalid'
          /\ \A m \in invalid' : Descendants({m}) \subseteq invalid'
      BY <1>1, <2>2, InvalidateCloses
    <2>4. n = Plan[at]
      BY <2>1 DEF PlanFails, PlanDispatch, Considered, Planning
    <2>5. ASSUME NEW m \in Nodes, m # n PROVE node'[m] = node[m]
      BY <2>1, <2>5 DEF PlanFails, PlanDispatch, Store, IInv, TypeOK
    <2>. QED BY <1>1, <1>2, <2>3, <2>4, <2>5 DEF InvalidInv
  <1>5. CASE ~(\E n \in Nodes : PlanError(n) \/ PlanFails(n) \/ PlanDispatch(n))
    <2>1. \A m \in Nodes : node'[m].attempt > 0 => node[m].attempt > 0
      BY <1>5, FirstAttempts
    <2>2. invalid' = invalid /\ (pc = "planfail" => pc' = pc /\ at' = at)
      BY <1>5
         DEF Next, Orchestrator, Reap, Snapshot, Retry, RetryDone, Cancel, CancelDone,
             CancelLast, Reserve, ReserveDone, PlanPass, PlanDone, PlanSkip, PlanReuse,
             SubmitOverdue, Submit, BatchReturns, NothingToSubmit, Wake, Summarise, FinishRun,
             Executor, ExecutorSettles, ExecutorGivesUp, BackoffElapses, RunDeadline, Child,
             ChildClaims, ChildReports, ChildEnds, Ended, vars, loopVars, LeaveLoop, InLoop,
             Considered, Planning
    <2>. QED BY <1>1, <1>2, <2>1, <2>2 DEF InvalidInv
  <1>. QED BY <1>3, <1>4, <1>5
=============================================================================
