--------------------------- MODULE SchedulerProofs ---------------------------
(***************************************************************************)
(* Theorems about Scheduler, for every graph, trigger, retry policy,       *)
(* budget and scheduling mode: what the loop knows at each phase, the      *)
(* inductive invariant, the properties that follow from it, and that a run *)
(* changes the records only as the control store does.                     *)
(***************************************************************************)
EXTENDS SchedulerRecordsProofs, SchedulerStore, WellFoundedInduction

(* The steps of everyone else leave the loop's variables alone, and touch  *)
(* only nodes that have a future.                                          *)
World ==
    /\ UNCHANGED loopVars
    /\ Pending' = Pending
    /\ {n \in Nodes : exec'[n] = "running"} \subseteq {n \in Nodes : exec[n] = "running"}
    /\ \A n \in Nodes : node'[n] # node[n] =>
           exec[n] = "running" /\ node[n].status \in {"READY", "RUNNING"}
    /\ expired => expired'

LEMMA WorldSteps == ASSUME IInv, [Next]_vars, ~Orchestrator PROVE World
  <1>. USE DEF World
  <1>1. node \in [Nodes -> NodeRecord] /\ exec \in [Nodes -> {"idle", "running", "done"}]
        /\ child \in [Nodes -> [Attempts -> Phases]]
    BY DEF IInv, TypeOK
  <1>2. ASSUME NEW n \in Nodes, Executor(n) PROVE World
    <2>1. /\ exec[n] = "running" /\ exec' = [exec EXCEPT ![n] = "done"]
          /\ \/ node' = node
             \/ /\ \E record : SoundMove(n, record)
                /\ node[n].status \in {"READY", "RUNNING"}
      BY <1>2, ExecutorMoves
    <2>2. UNCHANGED <<timeVars, loopVars>>
      BY <1>2, Zenon DEF Executor, ExecutorSettles, ExecutorGivesUp
    <2>3. Pending' = Pending BY <1>1, <2>1 DEF Pending
    <2>. QED BY <1>1, <2>1, <2>2, <2>3 DEF SoundMove, Move, timeVars
  <1>3. ASSUME NEW n \in Nodes, NEW a \in Attempts, Child(n, a) PROVE World
    <2>1. UNCHANGED <<timeVars, loopVars, exec>>
      BY <1>3, Zenon DEF Child, ChildClaims, ChildReports, ChildEnds
    <2>2. \/ node' = node
          \/ /\ exec[n] = "running" /\ \E record : SoundMove(n, record)
             /\ node[n].status \in {"READY", "RUNNING"}
      <3>1. ChildClaims(n, a) => node[n].status \in {"READY", "RUNNING"}
        BY DEF ChildClaims, Claimable
      <3>2. ChildReports(n, a) => node[n].status \in {"READY", "RUNNING"}
        BY DEF ChildReports, Finishable
      <3>. QED BY <1>3, <3>1, <3>2, ChildClaimsMoves, ChildReportsMoves, Zenon
               DEF Child, ChildEnds, storeVars
    <2>3. Pending' = Pending BY <2>1, Zenon DEF Pending
    <2>. QED BY <1>1, <2>1, <2>2, <2>3 DEF SoundMove, Move, timeVars
  <1>4. CASE (\E n \in Nodes : BackoffElapses(n)) \/ RunDeadline \/ Ended \/ UNCHANGED vars
    <2>1. UNCHANGED <<loopVars, exec, node>>
      BY <1>4, Zenon
         DEF BackoffElapses, RunDeadline, Ended, vars, storeVars, workVars, loopVars
    <2>2. expired' = expired \/ expired' = TRUE
      BY <1>4, Zenon DEF BackoffElapses, RunDeadline, Ended, vars
    <2>3. Pending' = Pending BY <2>1, Zenon DEF Pending
    <2>. QED BY <2>1, <2>2, <2>3
  <1>. QED BY <1>2, <1>3, <1>4 DEF Next

-----------------------------------------------------------------------------
(* The snapshot *)

(* The loop copies what it writes into its snapshot. *)
LEMMA StoreSnapshot ==
  ASSUME TypeOK, SnapshotInv, pc \in Iteration, NEW n \in Nodes, NEW record,
         Store(n, record), ~record.uncertain, active' = active, exec' = exec
  PROVE  SnapshotInv'
  <1>1. Pending' = Pending BY Zenon DEF Pending
  <1>2. active = Pending BY DEF SnapshotInv
  <1>3. \A m \in Nodes : ~recs'[m].uncertain
    BY DEF SnapshotInv, Store, TypeOK
  <1>4. \A m \in Nodes \ active : recs[m] = node[m]
    BY DEF SnapshotInv, SnapshotCurrent, Iteration
  <1>5. \A m \in Nodes \ active' : recs'[m] = node'[m]
    BY <1>4 DEF Store, TypeOK
  <1>. QED BY <1>1, <1>2, <1>3, <1>5 DEF SnapshotInv, SnapshotCurrent, Iteration

(* It keeps its snapshot while it writes nothing. *)
LEMMA SameSnapshot ==
  ASSUME SnapshotInv, pc \in Iteration, UNCHANGED <<node, exec, recs, active>>
  PROVE  SnapshotInv'
  <1>1. Pending' = Pending BY Zenon DEF Pending
  <1>2. active = Pending /\ (\A m \in Nodes : ~recs[m].uncertain)
        /\ \A m \in Nodes \ active : recs[m] = node[m]
    BY DEF SnapshotInv, SnapshotCurrent, Iteration
  <1>. QED BY <1>1, <1>2 DEF SnapshotInv, SnapshotCurrent, Iteration

LEMMA SnapshotStep == ASSUME IInv, [Next]_vars PROVE SnapshotInv'
  <1>1. TypeOK /\ SnapshotInv BY DEF IInv, LoopInv
  <1>2. CASE ~Orchestrator
    <2>1. World BY <1>2, WorldSteps
    <2>2. pc' = pc /\ recs' = recs /\ active' = active /\ Pending' = Pending
      BY <2>1 DEF World, loopVars
    <2>3. pc \in Iteration => \A n \in Nodes \ active : node'[n] = node[n]
      BY <1>1, <2>1 DEF World, SnapshotInv, Pending
    <2>. QED BY <1>1, <2>2, <2>3 DEF SnapshotInv, SnapshotCurrent, Iteration
  <1>3. CASE Reap
    <2>1. pc' = "snapshot" /\ active' = Pending'
      BY <1>1, <1>3 DEF Reap, Pending, TypeOK
    <2>. QED BY <2>1 DEF SnapshotInv, SnapshotCurrent, Iteration
  <1>4. CASE Snapshot
    <2>1. /\ pc = "snapshot" /\ recs' = node /\ UNCHANGED <<node, active, exec>>
          /\ pc' \in {"drain", "retry"}
          /\ pc' = "retry" => \A n \in Nodes : ~node[n].uncertain
      BY <1>4 DEF Snapshot, storeVars, workVars
    <2>2. Pending' = Pending BY <2>1, Zenon DEF Pending
    <2>. QED BY <1>1, <2>1, <2>2 DEF SnapshotInv, SnapshotCurrent, Iteration
  <1>5. CASE pc' \notin {"snapshot"} \cup Iteration
    BY <1>5 DEF SnapshotInv, SnapshotCurrent, Iteration
  <1>6. CASE RetryDone \/ CancelDone \/ Reserve \/ ReserveDone \/ PlanPass \/ PlanDone
             \/ SubmitOverdue
    <2>1. pc \in Iteration /\ UNCHANGED <<node, exec, recs, active>>
      BY <1>6 DEF RetryDone, CancelDone, Reserve, ReserveDone, PlanPass, PlanDone,
                  SubmitOverdue, LeaveLoop, InLoop, Iteration, storeVars, workVars
    <2>. QED BY <1>1, <2>1, SameSnapshot
  <1>7. CASE CancelLast \/ BatchReturns \/ Submit \/ NothingToSubmit \/ Wake \/ Summarise
             \/ FinishRun
    <2>1. pc' \notin {"snapshot"} \cup Iteration
      BY <1>7 DEF CancelLast, BatchReturns, Submit, NothingToSubmit, Wake, Summarise,
                  FinishRun, EndIteration, Iteration
    <2>. QED BY <1>5, <2>1
  <1>8. CASE Retry \/ Cancel
    <2>. DEFINE n == Plan[at]
    <2>1. n \in Nodes /\ pc \in Iteration /\ active' = active /\ exec' = exec
      BY <1>1, <1>8, PlanPositions DEF Retry, Cancel, InLoop, Iteration, TypeOK, workVars
    <2>2. CASE UNCHANGED <<node, recs>>
      BY <1>1, <2>1, <2>2, SameSnapshot
    <2>3. CASE Retry /\ ~UNCHANGED <<node, recs>>
      <3>1. n \notin active /\ Store(n, Prepared(node[n]))
        BY <2>3, Zenon DEF Retry, storeVars
      <3>2. ~node[n].uncertain /\ node[n] \in NodeRecord
        BY <1>1, <2>1, <3>1, LoopReads DEF TypeOK
      <3>3. ~Prepared(node[n]).uncertain BY <3>2, PreparedType
      <3>. QED BY <1>1, <2>1, <3>1, <3>3, StoreSnapshot
    <2>4. CASE Cancel /\ ~UNCHANGED <<node, recs>>
      <3>1. n \notin active /\ Store(n, Skipped(node[n], "CANCELLED"))
        BY <2>4, Zenon DEF Cancel, storeVars
      <3>2. ~node[n].uncertain /\ node[n] \in NodeRecord
        BY <1>1, <2>1, <3>1, LoopReads DEF TypeOK
      <3>3. ~Skipped(node[n], "CANCELLED").uncertain
        BY <3>2, SkippedType DEF Terminal, Bad
      <3>. QED BY <1>1, <2>1, <3>1, <3>3, StoreSnapshot
    <2>. QED BY <1>8, <2>2, <2>3, <2>4
  <1>9. CASE \E n \in Nodes : PlanSkip(n) \/ PlanReuse(n) \/ PlanError(n) \/ PlanFails(n)
                              \/ PlanDispatch(n)
    <2>1. PICK n \in Nodes : PlanSkip(n) \/ PlanReuse(n) \/ PlanError(n) \/ PlanFails(n)
                             \/ PlanDispatch(n)
      BY <1>9
    <2>2. pc \in Iteration /\ active' = active /\ exec' = exec
      BY <2>1 DEF PlanSkip, PlanReuse, PlanError, PlanFails, PlanDispatch, Considered,
                  Planning, InLoop, Iteration, workVars
    <2>3. PICK record : Store(n, record)
      BY <2>1, Zenon DEF PlanSkip, PlanReuse, PlanError, PlanFails, PlanDispatch
    <2>4. \E r : SoundMove(n, r) /\ ~r.uncertain
      BY <2>1, PlanSkipMoves, PlanReuseMoves, PlanPrepareMoves, PlanFailsMoves
    <2>5. ~record.uncertain
      BY <1>1, <2>3, <2>4 DEF Store, SoundMove, Move, TypeOK
    <2>. QED BY <1>1, <2>2, <2>3, <2>5, StoreSnapshot
  <1>. QED BY <1>2, <1>3, <1>4, <1>6, <1>7, <1>8, <1>9, Zenon DEF Orchestrator

LEMMA PlanFailStep == ASSUME IInv, [Next]_vars PROVE PlanFailInv'
  <1>1. TypeOK /\ SnapshotInv /\ PlanFailInv BY DEF IInv, LoopInv
  <1>2. CASE ~Orchestrator
    <2>1. World BY <1>2, WorldSteps
    <2>2. SUFFICES ASSUME pc = "planfail" PROVE PlanFailInv'
      BY <2>1 DEF World, loopVars, PlanFailInv
    <2>3. Plan[at] \in Nodes /\ Plan[at] \notin Pending
      BY <1>1, <2>2, PlanPositions DEF PlanFailInv, SnapshotInv, Iteration, TypeOK
    <2>4. node'[Plan[at]] = node[Plan[at]]
      BY <2>1, <2>3 DEF World, Pending
    <2>. QED BY <1>1, <2>1, <2>2, <2>4 DEF World, loopVars, PlanFailInv
  <1>3. CASE \E n \in Nodes : PlanError(n)
    <2>1. PICK n \in Nodes : PlanError(n) BY <1>3
    <2>2. Planning(n) /\ at <= Len(Plan) /\ n = Plan[at] /\ at' = at /\ active' = active
          /\ Store(n, Prepared(node[n]))
      BY <2>1 DEF PlanError, Considered, Planning, InLoop
    <2>3. n \notin active BY <2>2, PlanningFacts
    <2>4. Prepared(node[n]).status = "READY" BY <2>1, PlanPrepareMoves
    <2>5. node'[n] = Prepared(node[n]) BY <1>1, <2>2 DEF Store, TypeOK
    <2>. QED BY <2>2, <2>3, <2>4, <2>5 DEF PlanFailInv
  <1>4. CASE Orchestrator /\ ~(\E n \in Nodes : PlanError(n))
    <2>1. pc' # "planfail"
      BY <1>4
         DEF Orchestrator, Reap, Snapshot, Retry, RetryDone, Cancel, CancelDone, CancelLast,
             Reserve, ReserveDone, PlanPass, PlanDone, PlanSkip, PlanReuse,
             PlanFails, PlanDispatch, SubmitOverdue, Submit, BatchReturns, NothingToSubmit,
             Wake, Summarise, FinishRun, EndIteration, LeaveLoop, Advance, InLoop, Considered,
             Planning
    <2>. QED BY <2>1 DEF PlanFailInv
  <1>. QED BY <1>2, <1>3, <1>4

LEMMA DrainStep == ASSUME IInv, [Next]_vars PROVE DrainInv'
  <1>1. TypeOK /\ DrainInv /\ RecordsInv /\ SnapshotInv BY DEF IInv, LoopInv
  <1>2. CASE ~Orchestrator
    <2>1. World BY <1>2, WorldSteps
    <2>2. pc' = pc BY <2>1 DEF World, loopVars
    <2>3. \A n \in Nodes : node[n].uncertain \/ node[n].status \in Terminal => node'[n] = node[n]
      <3>. SUFFICES ASSUME NEW n \in Nodes, node'[n] # node[n]
                    PROVE  ~node[n].uncertain /\ node[n].status \notin Terminal
        OBVIOUS
      <3>1. exec[n] = "running" /\ node[n].status \in {"READY", "RUNNING"}
        BY <2>1 DEF World
      <3>2. FutureOK(n) BY <1>1, Zenon DEF RecordsInv, RecordOK
      <3>. QED BY <3>1, <3>2 DEF FutureOK, Terminal, Success, Bad
    <2>. QED BY <1>1, <2>2, <2>3 DEF DrainInv
  <1>3. CASE Snapshot
    <2>1. node' = node BY <1>3 DEF Snapshot, storeVars
    <2>2. pc' = "retry" \/ \E n \in Nodes : node[n].uncertain
      BY <1>3, Zenon DEF Snapshot
    <2>. QED BY <2>1, <2>2 DEF DrainInv
  <1>4. CASE RetryDone
    <2>1. node' = node /\ pc \in Iteration
      BY <1>4 DEF RetryDone, LeaveLoop, storeVars, Iteration
    <2>2. CASE pc' = "cancel" BY <2>2 DEF DrainInv
    <2>3. CASE active = {} /\ \A n \in Nodes : recs[n].status \in Terminal
      <3>1. \A n \in Nodes : recs[n] = node[n] BY <1>1, <2>1, <2>3, LoopReads
      <3>. QED BY <2>1, <2>3, <3>1 DEF DrainInv
    <2>. QED BY <1>4, <2>2, <2>3, Zenon DEF RetryDone, LeaveLoop
  <1>5. CASE Summarise
    <2>1. node' = node /\ pc = "drain" BY <1>5 DEF Summarise, storeVars
    <2>. QED BY <1>1, <2>1 DEF DrainInv
  <1>6. CASE Orchestrator /\ ~Snapshot /\ ~RetryDone /\ ~Summarise
    <2>1. pc' \notin {"drain", "finish"}
      BY <1>6
         DEF Orchestrator, Reap, Retry, Cancel, CancelDone, CancelLast,
             Reserve, ReserveDone, PlanPass, PlanDone, PlanSkip, PlanReuse, PlanError,
             PlanFails, PlanDispatch, SubmitOverdue, Submit, BatchReturns, NothingToSubmit,
             Wake, FinishRun, EndIteration, LeaveLoop, Advance, InLoop, Considered,
             Planning
    <2>. QED BY <2>1 DEF DrainInv
  <1>. QED BY <1>2, <1>3, <1>4, <1>5, <1>6

-----------------------------------------------------------------------------
(* Budgets *)

Running == {n \in Nodes : exec[n] = "running"}

(* Only Submit adds to the attempts in execution. *)
LEMMA RunningShrinks ==
  ASSUME IInv, [Next]_vars, ~Submit
  PROVE  Running' \subseteq Running
  <1>1. CASE ~Orchestrator
    BY <1>1, WorldSteps DEF World, Running
  <1>2. CASE Orchestrator
    <2>1. exec' = exec \/ Rest
      <3>1. CASE LoopRest BY <3>1, LoopRests DEF IInv
      <3>2. CASE ~LoopRest
        BY <1>2, <3>2, Zenon
           DEF Orchestrator, LoopRest, Retry, Cancel, PlanSkip, PlanReuse, PlanError,
               PlanFails, PlanDispatch, workVars
      <3>. QED BY <3>1, <3>2
    <2>. QED BY <2>1 DEF Rest, Running
  <1>. QED BY <1>1, <1>2

LEMMA CapacityStep == ASSUME IInv, [Next]_vars PROVE CapacityInv'
  <1>1. TypeOK /\ CapacityInv /\ SnapshotInv BY DEF IInv, LoopInv
  <1>2. Running \in SUBSET Nodes /\ Within(Running) /\ active \in SUBSET Nodes
        /\ reserved \in SUBSET Nodes
    BY <1>1, Zenon DEF CapacityInv, Running, TypeOK
  <1>3. Within(Running')
    <2>1. CASE Submit
      <3>1. Running \subseteq active /\ active \subseteq reserved /\ Within(reserved)
        BY <1>1, <2>1 DEF Submit, SnapshotInv, CapacityInv, Iteration, Pending, Running
      <3>2. Running' \subseteq Running \cup Batch
        BY <2>1, Zenon DEF Submit, Running
      <3>3. Batch \subseteq reserved BY DEF Batch
      <3>4. Running' \in SUBSET reserved BY <3>1, <3>2, <3>3
      <3>. QED BY <1>2, <3>1, <3>4, WithinFewer
    <2>2. CASE ~Submit
      <3>1. Running' \in SUBSET Running BY <2>2, RunningShrinks
      <3>. QED BY <1>2, <3>1, WithinFewer
    <2>. QED BY <2>1, <2>2
  <1>4. pc' \in {"snapshot", "retry", "cancel"} => Within(active')
    <2>1. CASE ~Orchestrator
      <3>1. pc' = pc /\ active' = active BY <2>1, WorldSteps DEF World, loopVars
      <3>. QED BY <1>1, <3>1 DEF CapacityInv
    <2>2. CASE Reap
      <3>1. active' = Running BY <2>2 DEF Reap, Running
      <3>. QED BY <1>2, <3>1
    <2>3. CASE Orchestrator /\ ~Reap
      <3>1. pc' \in {"snapshot", "retry", "cancel"} =>
               pc \in {"snapshot", "retry", "cancel"} /\ active' = active
        BY <2>3
         DEF Orchestrator, Snapshot, Retry, RetryDone, Cancel, CancelDone, CancelLast,
             Reserve, ReserveDone, PlanPass, PlanDone, PlanSkip, PlanReuse, PlanError,
             PlanFails, PlanDispatch, SubmitOverdue, Submit, BatchReturns, NothingToSubmit,
             Wake, Summarise, FinishRun, EndIteration, LeaveLoop, Advance, InLoop, Considered,
             Planning
      <3>. QED BY <1>1, <3>1 DEF CapacityInv
    <2>. QED BY <2>1, <2>2, <2>3
  <1>5. pc' \in {"reserve", "plan", "planfail", "cancel2", "submit"} =>
           active' \subseteq reserved' /\ Within(reserved')
    <2>1. CASE ~Orchestrator
      <3>1. UNCHANGED <<pc, active, reserved>> BY <2>1, WorldSteps DEF World, loopVars
      <3>. QED BY <1>1, <3>1 DEF CapacityInv
    <2>2. CASE CancelDone
      BY <1>1, <2>2 DEF CancelDone, LeaveLoop, ReservedBefore, CapacityInv
    <2>3. ASSUME NEW n \in Nodes, Fits(n, reserved), reserved' = reserved \cup {n},
                 active' = active, pc \in {"reserve", "plan"}
          PROVE  active' \subseteq reserved' /\ Within(reserved')
      <3>1. active \subseteq reserved /\ Within(reserved)
        BY <1>1, <2>3 DEF CapacityInv
      <3>. QED BY <1>2, <2>3, <3>1, WithinOneMore
    <2>4. CASE Reserve
      <3>1. Plan[at] \in Nodes /\ pc = "reserve" /\ active' = active
        BY <1>1, <2>4, PlanPositions DEF Reserve, InLoop, TypeOK
      <3>2. reserved' = reserved
            \/ (Fits(Plan[at], reserved) /\ reserved' = reserved \cup {Plan[at]})
        BY <2>4, Zenon DEF Reserve
      <3>3. CASE reserved' = reserved BY <1>1, <3>1, <3>3 DEF CapacityInv
      <3>. QED BY <2>3, <3>1, <3>2, <3>3
    <2>5. CASE \E n \in Nodes : PlanDispatch(n)
      <3>1. PICK n \in Nodes : PlanDispatch(n) BY <2>5
      <3>2. /\ Fits(n, reserved) /\ reserved' = reserved \cup {n} /\ active' = active
            /\ pc = "plan"
        BY <3>1 DEF PlanDispatch, Considered, Planning, InLoop
      <3>. QED BY <2>3, <3>2
    <2>6. CASE Orchestrator /\ ~CancelDone /\ ~Reserve /\ ~(\E n \in Nodes : PlanDispatch(n))
      <3>1. pc' \in {"reserve", "plan", "planfail", "cancel2", "submit"} =>
               pc \in {"reserve", "plan", "planfail", "cancel2", "submit"}
               /\ UNCHANGED <<active, reserved>>
        BY <2>6
         DEF Orchestrator, Reap, Snapshot, Retry, RetryDone, Cancel, CancelLast,
             ReserveDone, PlanPass, PlanDone, PlanSkip, PlanReuse, PlanError,
             PlanFails, SubmitOverdue, Submit, BatchReturns, NothingToSubmit,
             Wake, Summarise, FinishRun, EndIteration, LeaveLoop, Advance, InLoop, Considered,
             Planning
      <3>. QED BY <1>1, <3>1 DEF CapacityInv
    <2>. QED BY <2>1, <2>2, <2>4, <2>5, <2>6
  <1>. QED BY <1>3, <1>4, <1>5, Zenon DEF CapacityInv, Within, Used, Running

-----------------------------------------------------------------------------
(* Progress *)

LEMMA BeforeGrows ==
  /\ Before(1) = {}
  /\ \A k \in 1..Len(Plan) : Before(k + 1) = Before(k) \cup {Plan[k]}
  /\ \A k \in Nat : k > Len(Plan) => Nodes \subseteq Before(k)
  <1>1. Before(1) = {} BY DEF Before
  <1>2. ASSUME NEW k \in 1..Len(Plan) PROVE Before(k + 1) = Before(k) \cup {Plan[k]}
    <2>1. 1..((k + 1) - 1) = 1..(k - 1) \cup {k} BY PlanPositions
    <2>. QED BY <2>1, Zenon DEF Before
  <1>3. ASSUME NEW k \in Nat, k > Len(Plan), NEW n \in Nodes PROVE n \in Before(k)
    <2>1. PICK i \in 1..Len(Plan) : Plan[i] = n BY PlanPositions
    <2>2. i \in 1..(k - 1) BY <1>3, PlanPositions
    <2>. QED BY <2>1, <2>2 DEF Before
  <1>. QED BY <1>1, <1>2, <1>3

(* The nodes above a pending one come earlier in the plan: among the       *)
(* pending nodes there is one with none pending above it.                  *)
LEMMA FirstPending ==
  ASSUME NEW states, NEW m \in Nodes, states[m].status = "PENDING"
  PROVE  \E n \in Nodes : /\ states[n].status = "PENDING"
                          /\ \A d \in Deps[n] : states[d].status # "PENDING"
  <1>. DEFINE R == OpToRel(<, Nat)
              T == {i \in 1..Len(Plan) : states[Plan[i]].status = "PENDING"}
  <1>1. IsWellFoundedOn(R, Nat) BY NatLessThanWellFounded, Zenon
  <1>2. \A i, j \in Nat : j < i => <<j, i>> \in R BY DEF OpToRel
  <1>. HIDE DEF R
  <1>3. T \subseteq Nat /\ T # {}
    BY PlanPositions
  <1>4. PICK i \in T : \A j \in T : ~(<<j, i>> \in R)
    <2>. HIDE DEF T
    <2>. QED BY <1>1, <1>3, WFMin, Zenon
  <1>5. i \in 1..Len(Plan) /\ i \in Nat /\ Plan[i] \in Nodes /\ states[Plan[i]].status = "PENDING"
    BY <1>3, PlanPositions
  <1>6. ASSUME NEW d \in Deps[Plan[i]] PROVE states[d].status # "PENDING"
    <2>1. d \in Nodes BY <1>5, PlanPositions
    <2>2. PICK j \in 1..(i - 1) : Plan[j] = d BY <1>5, <2>1, PlanPositions
    <2>3. j \in Nat /\ j < i /\ j \in 1..Len(Plan) BY <1>5, PlanPositions
    <2>4. j \notin T BY <1>2, <1>4, <1>5, <2>3
    <2>. QED BY <2>2, <2>3, <2>4
  <1>. QED BY <1>5, <1>6

(* An iteration that finds nothing to dispatch and wrote nothing has a     *)
(* future or a READY node to wait for.                                     *)
LEMMA SomebodyWakes ==
  ASSUME IInv, pc = "submit", Batch = {}, ~changed, Pending = {}
  PROVE  \E n \in Nodes \ active : recs[n].status = "READY"
  <1>. SUFFICES ASSUME \A n \in Nodes \ active : recs[n].status # "READY" PROVE FALSE
    OBVIOUS
  <1>1. TypeOK /\ RecordsInv /\ SnapshotInv /\ WorkLeft /\ RetriesTaken /\ CancelsTaken
        /\ ReservedReady /\ NobodyPlanned
    BY DEF IInv, LoopInv, ProgressInv
  <1>2. active = {} BY <1>1 DEF SnapshotInv, Iteration
  <1>3. \A n \in Nodes : recs[n] = node[n] /\ exec[n] = "idle" /\ node[n] \in NodeRecord
    BY <1>1, <1>2, LoopReads DEF Iteration, TypeOK
  <1>4. reserved = {} BY <1>1, <1>2 DEF ReservedReady, TypeOK
  <1>5. ASSUME NEW n \in Nodes PROVE recs[n].status = "PENDING" \/ recs[n].status \in Terminal
    <2>1. node[n].status # "RUNNING"
      BY <1>1, <1>3 DEF RecordsInv, RecordOK, FutureOK
    <2>2. node[n].status # "READY" BY <1>2, <1>3
    <2>. QED BY <1>3, <2>1, <2>2 DEF NodeRecord, Status
  <1>6. PICK m \in Nodes : recs[m].status = "PENDING" BY <1>1, <1>2, <1>5 DEF WorkLeft
  <1>7. PICK n \in Nodes : /\ recs[n].status = "PENDING"
                           /\ \A d \in Deps[n] : recs[d].status # "PENDING"
    BY <1>6, FirstPending
  <1>8. n \in Visited("plan", {"cancel2", "submit"})
        /\ n \in Visited("cancel", {"reserve", "plan", "cancel2", "submit"})
    BY DEF Visited
  <1>9. Fits(n, reserved) BY <1>4, FitsAlone
  <1>10. PICK d \in Deps[n] : Retryable(d, recs[d])
    <2>1. MustWait(n) BY <1>1, <1>8, <1>9 DEF NobodyPlanned
    <2>2. \A d \in Deps[n] : recs[d].status \in Terminal BY <1>5, <1>7, PlanPositions
    <2>. QED BY <1>2, <1>7, <2>1, <2>2 DEF MustWait
  <1>11. d \in Nodes /\ AwaitsRetry(d) BY <1>2, <1>10, PlanPositions DEF AwaitsRetry
  <1>. QED BY <1>1, <1>2, <1>7, <1>8, <1>11 DEF CancelsTaken

LEMMA QuietProgress ==
  ASSUME LoopStarts',
         changed' \/ pc' \notin {"retry", "cancel", "reserve", "plan", "cancel2", "submit"}
  PROVE  ProgressInv'
  <1>1. CASE changed' BY <1>1 DEF ProgressInv
  <1>2. CASE pc' \notin {"retry", "cancel", "reserve", "plan", "cancel2", "submit"}
    <2>1. /\ Visited("retry", {"cancel", "reserve", "plan", "cancel2", "submit"})' = {}
          /\ Visited("cancel", {"reserve", "plan", "cancel2", "submit"})' = {}
          /\ Visited("plan", {"cancel2", "submit"})' = {}
      BY <1>2 DEF Visited
    <2>. QED BY <1>2, <2>1, Zenon
             DEF ProgressInv, WorkLeft, RetriesTaken, CancelsTaken, ReservedReady, NobodyPlanned
  <1>. QED BY <1>1, <1>2

(* What an iteration knows as long as its snapshot stays as it is. *)
LEMMA SameReads ==
  ASSUME UNCHANGED <<recs, active>>, NEW n \in Nodes
  PROVE  /\ AwaitsRetry(n)' <=> AwaitsRetry(n)
         /\ MustWait(n)' <=> MustWait(n)
         /\ reserved' = reserved => (Fits(n, reserved)' <=> Fits(n, reserved))
  BY Zenon DEF AwaitsRetry, MustWait, Retryable, Fits, Used

LEMMA SameProgress ==
  ASSUME ProgressInv, expired => expired',
         UNCHANGED <<recs, active, reserved, changed, pc, at>>
  PROVE  ProgressInv'
  <1>1. \A phase, later : Visited(phase, later)' = Visited(phase, later)
    BY Zenon DEF Visited, Before
  <1>2. \A n \in Nodes : /\ AwaitsRetry(n)' <=> AwaitsRetry(n)
                         /\ MustWait(n)' <=> MustWait(n)
                         /\ Fits(n, reserved)' <=> Fits(n, reserved)
    BY SameReads
  <1>3. \A phase, later : Visited(phase, later) \subseteq Nodes BY Zenon DEF Visited
  <1>4. LoopStarts' BY DEF ProgressInv, LoopStarts
  <1>5. CASE ~changed
    <2>1. WorkLeft' BY <1>5, Zenon DEF ProgressInv, WorkLeft
    <2>2. RetriesTaken' BY <1>1, <1>2, <1>3, <1>5 DEF ProgressInv, RetriesTaken
    <2>3. CancelsTaken' BY <1>1, <1>2, <1>5, Zenon DEF ProgressInv, CancelsTaken
    <2>4. ReservedReady' BY <1>5, Zenon DEF ProgressInv, ReservedReady
    <2>5. NobodyPlanned' BY <1>1, <1>2, <1>3, <1>5, Zenon DEF ProgressInv, NobodyPlanned
    <2>. QED BY <1>4, <2>1, <2>2, <2>3, <2>4, <2>5 DEF ProgressInv
  <1>6. CASE changed BY <1>4, <1>6 DEF ProgressInv
  <1>. QED BY <1>5, <1>6

(* A pass over the plan that wrote nothing ends. *)
LEMMA NextPhase ==
  ASSUME TypeOK, ProgressInv, ~changed, at > Len(Plan), at' = 1,
         UNCHANGED <<recs, active, expired>>,
         \/ /\ pc = "retry" /\ pc' = "cancel"
            /\ ~(active = {} /\ \A n \in Nodes : recs[n].status \in Terminal)
         \/ pc = "cancel" /\ pc' = "reserve" /\ reserved' = active
         \/ pc = "reserve" /\ pc' = "plan" /\ reserved' = reserved
         \/ pc = "plan" /\ pc' = "cancel2" /\ reserved' = reserved
         \/ pc = "cancel2" /\ pc' = "submit" /\ reserved' = reserved
  PROVE  ProgressInv'
  <1>1. Nodes \subseteq Before(at) /\ Before(at)' = {}
    <2>1. at \in Nat BY PlanPositions DEF TypeOK
    <2>2. Before(at)' = Before(at') BY Zenon DEF Before
    <2>. QED BY <2>1, <2>2, BeforeGrows
  <1>2. \A n \in Nodes : /\ AwaitsRetry(n)' <=> AwaitsRetry(n)
                         /\ MustWait(n)' <=> MustWait(n)
                         /\ reserved' = reserved => (Fits(n, reserved)' <=> Fits(n, reserved))
    BY SameReads
  <1>3. WorkLeft /\ RetriesTaken /\ CancelsTaken /\ ReservedReady /\ NobodyPlanned
    BY DEF ProgressInv
  <1>4. LoopStarts' BY DEF LoopStarts
  <1>5. WorkLeft' BY <1>3 DEF WorkLeft
  <1>6. RetriesTaken' BY <1>1, <1>2, <1>3 DEF RetriesTaken, Visited
  <1>7. CancelsTaken' BY <1>1, <1>2, <1>3 DEF CancelsTaken, Visited
  <1>8. ReservedReady' BY <1>3 DEF ReservedReady
  <1>9. NobodyPlanned' BY <1>1, <1>2, <1>3 DEF NobodyPlanned, Visited
  <1>. QED BY <1>4, <1>5, <1>6, <1>7, <1>8, <1>9 DEF ProgressInv

(* A pass over the plan goes on without writing. *)
LEMMA NextNode ==
  ASSUME TypeOK, ProgressInv, ~changed, at <= Len(Plan), at' = at + 1,
         UNCHANGED <<recs, active, expired, pc>>,
         \/ /\ pc = "retry" /\ reserved' = reserved
            /\ AwaitsRetry(Plan[at]) => expired
         \/ /\ pc = "cancel" /\ reserved' = reserved
            /\ (\E m \in Nodes : AwaitsRetry(m)) =>
                   Plan[at] \in active \/ recs[Plan[at]].status # "PENDING"
         \/ /\ pc = "reserve"
            /\ \/ reserved' = reserved
               \/ reserved' = reserved \cup {Plan[at]} /\ recs[Plan[at]].status = "READY"
         \/ /\ pc = "plan" /\ reserved' = reserved
            /\ MustWait(Plan[at]) \/ ~Fits(Plan[at], reserved)
         \/ pc \in {"cancel2", "cancel3"} /\ reserved' = reserved
  PROVE  ProgressInv'
  <1>1. Before(at)' = Before(at) \cup {Plan[at]}
    <2>1. at \in 1..Len(Plan) BY PlanPositions DEF TypeOK
    <2>2. Before(at)' = Before(at') BY Zenon DEF Before
    <2>. QED BY <2>1, <2>2, BeforeGrows
  <1>2. \A n \in Nodes : /\ AwaitsRetry(n)' <=> AwaitsRetry(n)
                         /\ MustWait(n)' <=> MustWait(n)
                         /\ reserved' = reserved => (Fits(n, reserved)' <=> Fits(n, reserved))
    BY SameReads
  <1>3. WorkLeft /\ RetriesTaken /\ CancelsTaken /\ ReservedReady /\ NobodyPlanned
    BY DEF ProgressInv
  <1>4. LoopStarts' BY DEF LoopStarts
  <1>5. WorkLeft' BY <1>3 DEF WorkLeft
  <1>6. RetriesTaken' BY <1>1, <1>2, <1>3 DEF RetriesTaken, Visited
  <1>7. CancelsTaken' BY <1>1, <1>2, <1>3 DEF CancelsTaken, Visited
  <1>8. ReservedReady' BY <1>3 DEF ReservedReady
  <1>9. NobodyPlanned' BY <1>1, <1>2, <1>3 DEF NobodyPlanned, Visited
  <1>. QED BY <1>4, <1>5, <1>6, <1>7, <1>8, <1>9 DEF ProgressInv

LEMMA ProgressStep == ASSUME IInv, [Next]_vars PROVE ProgressInv'
  <1>1. TypeOK /\ ProgressInv /\ LoopStarts /\ SnapshotInv
    BY DEF IInv, LoopInv, ProgressInv
  <1>2. CASE ~Orchestrator
    <2>1. World BY <1>2, WorldSteps
    <2>. QED BY <1>1, <2>1, SameProgress DEF World, loopVars
  <1>3. CASE \/ Reap \/ CancelLast \/ SubmitOverdue \/ Submit \/ BatchReturns \/ Wake
             \/ Summarise \/ FinishRun
    <2>1. LoopStarts'
      BY <1>1, <1>3
         DEF Reap, CancelLast, SubmitOverdue, Submit, BatchReturns, Wake, Summarise, FinishRun,
             EndIteration, LoopStarts
    <2>2. pc' \notin {"retry", "cancel", "reserve", "plan", "cancel2", "submit"}
      BY <1>3
         DEF Reap, CancelLast, SubmitOverdue, Submit, BatchReturns, Wake, Summarise, FinishRun,
             EndIteration
    <2>. QED BY <2>1, <2>2, QuietProgress
  <1>4. CASE Snapshot
    <2>1. pc' \in {"retry", "drain"} /\ at' = 1
      BY <1>1, <1>4 DEF Snapshot, LoopStarts
    <2>2. Visited("retry", {"cancel", "reserve", "plan", "cancel2", "submit"})' = {}
      BY <2>1, BeforeGrows DEF Visited, Before
    <2>3. /\ Visited("cancel", {"reserve", "plan", "cancel2", "submit"})' = {}
          /\ Visited("plan", {"cancel2", "submit"})' = {}
      BY <2>1 DEF Visited
    <2>4. LoopStarts' /\ WorkLeft' /\ ReservedReady'
      BY <2>1 DEF LoopStarts, WorkLeft, ReservedReady
    <2>. QED BY <2>2, <2>3, <2>4, Zenon DEF ProgressInv, RetriesTaken, CancelsTaken, NobodyPlanned
  <1>5. CASE NothingToSubmit
    <2>1. CASE EndIteration("reap")
      BY <2>1, QuietProgress DEF EndIteration, LoopStarts
    <2>2. CASE ~EndIteration("reap")
      <3>1. /\ pc = "submit" /\ Batch = {} /\ ~changed
            /\ alarm' = {n \in Nodes \ active : recs[n].status = "READY"
                                                /\ (Pending # {} => ~due[n])}
            /\ pc' = IF Pending = {} /\ alarm' = {} THEN "stalled" ELSE "wait"
        BY <1>5, <2>2, Zenon DEF NothingToSubmit
      <3>2. ~(Pending = {} /\ alarm' = {})
        BY <3>1, SomebodyWakes
      <3>3. pc' = "wait" BY <3>1, <3>2
      <3>. QED BY <3>3, QuietProgress DEF LoopStarts
    <2>. QED BY <2>1, <2>2
  <1>6. CASE RetryDone \/ CancelDone \/ ReserveDone \/ PlanDone
    <2>1. /\ at > Len(Plan) /\ at' = 1 /\ UNCHANGED <<recs, active, expired, changed>>
          /\ \/ /\ pc = "retry" /\ pc' = "cancel"
                /\ ~(active = {} /\ \A n \in Nodes : recs[n].status \in Terminal)
             \/ pc = "cancel" /\ pc' = "reserve" /\ reserved' = active
             \/ pc = "reserve" /\ pc' = "plan" /\ reserved' = reserved
             \/ pc = "plan" /\ pc' = "cancel2" /\ reserved' = reserved
             \/ pc = "cancel2" /\ pc' = "submit" /\ reserved' = reserved
             \/ pc' = "drain"
      BY <1>6, Zenon
         DEF RetryDone, CancelDone, ReserveDone, PlanDone, LeaveLoop, timeVars, ReservedBefore
    <2>2. CASE changed \/ pc' = "drain"
      BY <2>1, <2>2, QuietProgress DEF LoopStarts
    <2>3. CASE ~(changed \/ pc' = "drain")
      BY <1>1, <2>1, <2>3, NextPhase
    <2>. QED BY <2>2, <2>3
  <1>7. ASSUME at <= Len(Plan), at' = at + 1, pc' = pc,
               pc \in {"retry", "cancel", "reserve", "plan", "cancel2", "cancel3"}, changed'
        PROVE  ProgressInv'
    BY <1>7, QuietProgress DEF LoopStarts
  <1>8. CASE Retry
    <2>1. at <= Len(Plan) /\ at' = at + 1 /\ pc' = pc /\ pc = "retry"
          /\ UNCHANGED <<active, reserved, expired>>
      BY <1>8 DEF Retry, InLoop, Advance
    <2>2. CASE changed' BY <1>7, <2>1, <2>2
    <2>3. CASE ~changed'
      <3>1. AwaitsRetry(Plan[at]) => expired
        BY <1>8, <2>3, Zenon DEF Retry, AwaitsRetry
      <3>2. recs' = recs /\ changed' = changed BY <1>8, <2>3, Zenon DEF Retry
      <3>. QED BY <1>1, <2>1, <2>3, <3>1, <3>2, NextNode
    <2>. QED BY <2>2, <2>3
  <1>9. CASE Cancel
    <2>1. at <= Len(Plan) /\ at' = at + 1 /\ pc' = pc /\ pc \in {"cancel", "cancel2", "cancel3"}
          /\ UNCHANGED <<active, reserved, expired>>
      BY <1>9 DEF Cancel, InLoop, Advance, timeVars
    <2>2. CASE changed' BY <1>7, <2>1, <2>2
    <2>3. CASE ~changed'
      <3>1. expired => Plan[at] \in active \/ recs[Plan[at]].status \notin {"PENDING", "READY"}
        BY <1>9, <2>3, Zenon DEF Cancel
      <3>2. recs' = recs /\ changed' = changed BY <1>9, <2>3, Zenon DEF Cancel
      <3>3. pc = "cancel" /\ (\E m \in Nodes : AwaitsRetry(m)) => expired
        BY <1>1, <2>3, <3>2 DEF ProgressInv, RetriesTaken, Visited
      <3>. QED BY <1>1, <2>1, <2>3, <3>1, <3>2, <3>3, NextNode
    <2>. QED BY <2>2, <2>3
  <1>10. CASE Reserve
    <2>1. at <= Len(Plan) /\ at' = at + 1 /\ pc' = pc /\ pc = "reserve"
          /\ UNCHANGED <<recs, active, expired, changed>>
      BY <1>10 DEF Reserve, InLoop, Advance, timeVars
    <2>2. \/ reserved' = reserved
          \/ reserved' = reserved \cup {Plan[at]} /\ recs[Plan[at]].status = "READY"
      BY <1>10, Zenon DEF Reserve
    <2>3. CASE changed' BY <1>7, <2>1, <2>3
    <2>4. CASE ~changed' BY <1>1, <2>1, <2>2, <2>4, NextNode
    <2>. QED BY <2>3, <2>4
  <1>11. CASE PlanPass
    <2>1. at <= Len(Plan) /\ at' = at + 1 /\ pc' = pc /\ pc = "plan"
          /\ UNCHANGED <<recs, active, reserved, expired, changed>>
          /\ (MustWait(Plan[at]) \/ ~Fits(Plan[at], reserved))
      BY <1>11 DEF PlanPass, InLoop, Advance, timeVars
    <2>2. CASE changed' BY <1>7, <2>1, <2>2
    <2>3. CASE ~changed' BY <1>1, <2>1, <2>3, NextNode
    <2>. QED BY <2>2, <2>3
  <1>12. CASE \E n \in Nodes : PlanSkip(n) \/ PlanReuse(n) \/ PlanError(n) \/ PlanFails(n)
                               \/ PlanDispatch(n)
    <2>1. PICK n \in Nodes : PlanSkip(n) \/ PlanReuse(n) \/ PlanError(n) \/ PlanFails(n)
                              \/ PlanDispatch(n)
      BY <1>12
    <2>2. changed' \/ pc' = "planfail"
      BY <2>1, Zenon DEF PlanSkip, PlanReuse, PlanError, PlanFails, PlanDispatch
    <2>3. pc' \in {"plan", "planfail"}
      BY <2>1 DEF PlanSkip, PlanReuse, PlanError, PlanFails, PlanDispatch, Considered,
                  Planning, InLoop, Advance
    <2>. QED BY <2>2, <2>3, QuietProgress DEF LoopStarts
  <1>. QED BY <1>2, <1>3, <1>4, <1>5, <1>6, <1>8, <1>9, <1>10, <1>11, <1>12, Zenon
           DEF Orchestrator

-----------------------------------------------------------------------------
(* The inductive invariant *)

LEMMA InitInvariant == Init => IInv
  <1>. SUFFICES ASSUME Init PROVE IInv
    OBVIOUS
  <1>1. /\ \A n \in Nodes : node[n] = PendingNode /\ exec[n] = "idle" /\ recs[n] = PendingNode
        /\ \A n \in Nodes, a \in Attempts : child[n][a] = "none"
        /\ pc = "reap" /\ at = 1 /\ runStatus = "RUNNING" /\ ~changed
        /\ active = {} /\ reserved = {} /\ alarm = {}
    BY Zenon DEF Init, Blank
  <1>. DEFINE Broken == {n \in Nodes : prior[n].status # "NONE" /\ prior[n].status \notin Success}
  <1>2. invalid = Descendants(Origins \cup Broken) BY Zenon DEF Init
  <1>3. Origins \cup Broken \subseteq invalid /\ invalid \subseteq Nodes
    BY <1>2, ConfigurationAssumption, Zenon DEF Descendants
  <1>4. TypeOK
    <2>1. node \in [Nodes -> NodeRecord] /\ recs \in [Nodes -> NodeRecord]
      BY BlankType DEF Init
    <2>2. at \in 1..(Len(Plan) + 1) BY <1>1, PlanPositions
    <2>. QED BY <1>1, <1>3, <2>1, <2>2 DEF Init, TypeOK, LoopPhases, Phases
  <1>5. ClosedInv BY <1>1 DEF ClosedInv
  <1>6. RecordsInv
    <2>. SUFFICES ASSUME NEW n \in Nodes
                  PROVE  /\ RecordOK(n) /\ SettledOK(n)
                         /\ Justifies(n, node[n].status, node) /\ ReuseOK(n)
      BY Zenon DEF RecordsInv
    <2>1. /\ node[n].status = "PENDING" /\ node[n].attempt = 0 /\ ~node[n].uncertain
      BY <1>1 DEF PendingNode
    <2>2. AttemptOK(n) BY <2>1, ConfigurationAssumption DEF AttemptOK
    <2>3. FutureOK(n) /\ ChildOK(n) BY <1>1, <2>1 DEF FutureOK, ChildOK
    <2>. QED BY <2>1, <2>2, <2>3 DEF RecordOK, SettledOK, Planned, Justifies, ReuseOK, Outcomes
  <1>7. InvalidInv
    <2>1. ASSUME NEW n \in invalid PROVE Descendants({n}) \subseteq invalid
      <3>. SUFFICES ASSUME NEW k \in Descendants({n}) PROVE k \in invalid
        OBVIOUS
      <3>1. n \in Nodes /\ k \in Nodes BY <1>3, DescendantsDown
      <3>2. k = n \/ n \in Ancestors[k] BY <3>1, Zenon DEF Descendants
      <3>3. CASE k = n BY <3>3
      <3>4. CASE n \in Ancestors[k] /\ n \in Origins \cup Broken
        BY <1>2, <3>1, <3>4, Zenon DEF Descendants
      <3>5. CASE n \in Ancestors[k] /\ n \notin Origins \cup Broken
        <4>1. PICK m \in Ancestors[n] : m \in Origins \cup Broken
          BY <1>2, <3>1, <3>5, Zenon DEF Descendants
        <4>2. m \in Nodes BY <3>1, <4>1, AncestorsUp
        <4>3. n \in Descendants({m}) /\ k \in Descendants({n})
          BY <3>1, <4>1, Zenon DEF Descendants
        <4>4. k \in Descendants({m}) BY <4>2, <4>3, DescendantsDown, Zenon
        <4>. QED BY <1>2, <3>1, <4>1, <4>4, Zenon DEF Descendants
      <3>. QED BY <3>2, <3>3, <3>4, <3>5
    <2>2. \A n \in Nodes : prior[n].status \notin Success \cup {"NONE"} => n \in invalid
      BY <1>3
    <2>3. \A n \in Nodes : ~(node[n].attempt > 0) BY <1>1 DEF PendingNode
    <2>. QED BY <2>1, <2>2, <2>3 DEF InvalidInv
  <1>8. SnapshotInv /\ PlanFailInv /\ DrainInv
    BY <1>1 DEF SnapshotInv, SnapshotCurrent, PlanFailInv, DrainInv, Iteration
  <1>9. CapacityInv
    <2>1. {n \in Nodes : exec[n] = "running"} = {} BY <1>1
    <2>2. Within({})
      <3>1. Cardinality({}) = 0 BY FS_EmptySet
      <3>2. ASSUME NEW b \in Budgets PROVE Used(b, {}) <= Limit[b]
        <4>1. Used(b, {}) = Cardinality({}) BY DEF Used
        <4>. QED BY <3>1, <4>1, FitsAloneAssumption
      <3>. QED BY <3>1, <3>2, FitsAloneAssumption DEF Within
    <2>. QED BY <1>1, <2>1, <2>2 DEF CapacityInv
  <1>10. ProgressInv
    <2>1. /\ Visited("retry", {"cancel", "reserve", "plan", "cancel2", "submit"}) = {}
          /\ Visited("cancel", {"reserve", "plan", "cancel2", "submit"}) = {}
          /\ Visited("plan", {"cancel2", "submit"}) = {}
      BY <1>1 DEF Visited
    <2>2. LoopStarts /\ WorkLeft /\ ReservedReady
      BY <1>1 DEF LoopStarts, WorkLeft, ReservedReady
    <2>. QED BY <2>1, <2>2, Zenon DEF ProgressInv, RetriesTaken, CancelsTaken, NobodyPlanned
  <1>. QED BY <1>4, <1>5, <1>6, <1>7, <1>8, <1>9, <1>10 DEF IInv, LoopInv

LEMMA StepInvariant == ASSUME IInv, [Next]_vars PROVE IInv'
  BY TypeStep, ClosedStep, RecordsStep, InvalidStep, SnapshotStep, PlanFailStep, CapacityStep,
     DrainStep, ProgressStep, Zenon DEF IInv, LoopInv

(* The inductive invariant of a run. *)
THEOREM Invariant == Spec => []IInv
  <1>1. IInv /\ [Next]_vars => IInv' BY StepInvariant
  <1>. QED BY InitInvariant, <1>1, PTL DEF Spec

-----------------------------------------------------------------------------
(* The properties of the runs. *)

(* Every variable keeps its type: TypeOK, in every reachable state.  *)
THEOREM TypeCorrect == Spec => []TypeOK
  <1>1. IInv => TypeOK BY DEF IInv
  <1>. QED BY <1>1, Invariant, PTL

(* The attempts in execution never exceed max_parallel, a group or a       *)
(* resource (WithinBudgets), although they are admitted from a snapshot    *)
(* and in iterations that do not see each other's reservations.            *)
THEOREM BudgetsHold == Spec => []WithinBudgets
  <1>1. IInv => WithinBudgets
    BY Zenon DEF IInv, LoopInv, CapacityInv, Within, WithinBudgets
  <1>. QED BY <1>1, Invariant, PTL

(* The loop decides on the current record of every node it may write,      *)
(* while executors and children move the others (SnapshotCurrent).         *)
THEOREM SnapshotHolds == Spec => []SnapshotCurrent
  <1>1. IInv => SnapshotCurrent BY DEF IInv, LoopInv, SnapshotInv
  <1>. QED BY <1>1, Invariant, PTL

(* No call of the loop is refused: by the store, by the session or by      *)
(* finish_run (NeverRefused).                                              *)
THEOREM LoopNeverRefused == Spec => []NeverRefused
  <1>1. ASSUME IInv PROVE NeverRefused
    <2>1. TypeOK /\ ClosedInv /\ SnapshotInv /\ PlanFailInv /\ CapacityInv /\ DrainInv
      BY <1>1 DEF IInv, LoopInv
    <2>2. ASSUME pc \in Iteration, NEW n \in Nodes \ active
          PROVE  recs[n] = node[n] /\ ~node[n].uncertain /\ exec[n] = "idle"
      BY <2>1, <2>2, LoopReads
    <2>3. ASSUME NEW n \in Nodes \ active
          PROVE  /\ pc = "retry" /\ Retryable(n, recs[n]) => Preparable(node[n])
                 /\ /\ pc \in {"cancel", "cancel2", "cancel3"}
                    /\ recs[n].status \in {"PENDING", "READY"}
                    => Skippable(node[n], "CANCELLED")
                 /\ pc = "plan" /\ recs[n].status = "PENDING" =>
                        Preparable(node[n]) /\ Skippable(node[n], "SKIPPED_CONDITION")
      BY <2>2 DEF Retryable, Preparable, Skippable, Iteration
    <2>4. pc = "planfail" => Finishable(node[Plan[at]], recs[Plan[at]].attempt, TRUE)
      <3>. SUFFICES ASSUME pc = "planfail"
                    PROVE  Finishable(node[Plan[at]], recs[Plan[at]].attempt, TRUE)
        OBVIOUS
      <3>1. Plan[at] \in Nodes \ active /\ node[Plan[at]].status = "READY"
        BY <2>1, PlanPositions DEF PlanFailInv, TypeOK
      <3>2. recs[Plan[at]] = node[Plan[at]] BY <2>2, <3>1 DEF Iteration
      <3>. QED BY <3>1, <3>2, Zenon DEF Finishable
    <2>5. pc = "submit" => /\ Cardinality(Pending) + Cardinality(Batch) <= MaxParallel
                           /\ Pending \cap Batch = {}
      <3>. SUFFICES ASSUME pc = "submit"
                    PROVE  /\ Cardinality(Pending) + Cardinality(Batch) <= MaxParallel
                           /\ Pending \cap Batch = {}
        OBVIOUS
      <3>1. /\ active = Pending /\ active \subseteq reserved /\ Within(reserved)
            /\ reserved \subseteq Nodes
        BY <2>1 DEF SnapshotInv, CapacityInv, Iteration, TypeOK
      <3>2. Pending \cap Batch = {} /\ Pending \cup Batch \subseteq reserved
        BY <3>1 DEF Batch
      <3>3. IsFiniteSet(reserved) BY <3>1, NodesFinite, FS_Subset
      <3>4. /\ IsFiniteSet(Pending) /\ IsFiniteSet(Batch)
            /\ Cardinality(Pending \cup Batch) <= Cardinality(reserved)
        BY <3>2, <3>3, FS_Subset
      <3>5. Cardinality(Pending \cup Batch)
            = Cardinality(Pending) + Cardinality(Batch) - Cardinality(Pending \cap Batch)
        BY <3>4, FS_Union
      <3>6. Cardinality(Pending \cap Batch) = 0 BY <3>2, FS_EmptySet
      <3>7. /\ Cardinality(Pending) \in Nat /\ Cardinality(Batch) \in Nat
            /\ Cardinality(reserved) \in Nat
        BY <3>3, <3>4, FS_CardinalityType
      <3>8. Cardinality(reserved) <= MaxParallel BY <3>1 DEF Within
      <3>. QED BY <3>2, <3>4, <3>5, <3>6, <3>7, <3>8, FitsAloneAssumption
    <2>6. pc = "finish" /\ decided # "RECOVERY_REQUIRED" =>
             \A n \in Nodes : node[n].status \in Terminal
      <3>1. pc = "finish" /\ decided # "RECOVERY_REQUIRED" =>
               ~(\E n \in Nodes : node[n].uncertain)
        BY <2>1, Zenon DEF ClosedInv, Summary
      <3>. QED BY <2>1, <3>1 DEF DrainInv
    <2>. QED BY <2>3, <2>4, <2>5, <2>6, Zenon DEF NeverRefused
  <1>. QED BY <1>1, Invariant, PTL

(* The loop never finds itself with work left, no running and no READY     *)
(* node: SCHEDULER_STALLED cannot be raised (NeverStalls).                 *)
THEOREM LoopNeverStalls == Spec => []NeverStalls
  <1>1. IInv => NeverStalls BY DEF IInv, LoopInv, ProgressInv, LoopStarts, NeverStalls
  <1>. QED BY <1>1, Invariant, PTL

(* Two attempts of a node are never at work together, even when the first  *)
(* was lost sight of (OneWorkerPerNode).                                   *)
THEOREM OneWorker == Spec => []OneWorkerPerNode
  <1>1. ASSUME IInv PROVE OneWorkerPerNode
    <2>. SUFFICES ASSUME NEW n \in Nodes, NEW a1 \in Working(n), NEW a2 \in Working(n)
                  PROVE  a1 = a2
      BY Zenon DEF OneWorkerPerNode
    <2>1. ChildOK(n) BY <1>1, Zenon DEF IInv, RecordsInv, RecordOK
    <2>. QED BY <2>1 DEF ChildOK, Working
  <1>. QED BY <1>1, Invariant, PTL

(* In a closed run every outcome is the one its trigger asks for on the    *)
(* final outcomes of its dependencies (OutcomesJustified).                 *)
THEOREM OutcomesAreJustified == Spec => []OutcomesJustified
  <1>1. ASSUME IInv PROVE OutcomesJustified
    <2>1. \A n \in Nodes : Justifies(n, node[n].status, node)
      BY <1>1, Zenon DEF IInv, RecordsInv
    <2>. QED BY <2>1 DEF OutcomesJustified, Justifies, Outcomes
  <1>. QED BY <1>1, Invariant, PTL

(* A node reuses its prior success only when nothing above it was          *)
(* attempted again in this run (ReuseOnlyBelowReuse).                      *)
THEOREM ReuseIsSound == Spec => []ReuseOnlyBelowReuse
  <1>1. ASSUME IInv PROVE ReuseOnlyBelowReuse
    <2>. SUFFICES ASSUME NEW n \in Nodes, node[n].status = "SKIPPED_ALREADY_SATISFIED",
                         NEW m \in Ancestors[n]
                  PROVE  node[m].attempt = 0
      BY DEF ReuseOnlyBelowReuse
    <2>1. m \in Nodes BY AncestorsUp
    <2>2. ReuseOK(n) /\ AttemptOK(m)
      BY <1>1, <2>1, Zenon DEF IInv, RecordsInv, RecordOK
    <2>. QED BY <2>2 DEF ReuseOK, AttemptOK
  <1>. QED BY <1>1, Invariant, PTL

(* A run closed as SUCCEEDED or FAILED leaves no child at work behind it   *)
(* (QuietWhenClosed).                                                      *)
THEOREM ClosedIsQuiet == Spec => []QuietWhenClosed
  <1>1. ASSUME IInv PROVE QuietWhenClosed
    <2>. SUFFICES ASSUME runStatus \in {"SUCCEEDED", "FAILED"}, NEW n \in Nodes,
                         NEW a \in Working(n)
                  PROVE  FALSE
      BY DEF QuietWhenClosed
    <2>1. decided = Summary /\ decided # "RECOVERY_REQUIRED"
          /\ \A m \in Nodes : exec[m] = "idle"
      BY <1>1 DEF IInv, ClosedInv
    <2>2. ~node[n].uncertain BY <2>1, Zenon DEF Summary
    <2>3. ChildOK(n) BY <1>1, Zenon DEF IInv, RecordsInv, RecordOK
    <2>. QED BY <2>1, <2>2, <2>3 DEF ChildOK, Working
  <1>. QED BY <1>1, Invariant, PTL

-----------------------------------------------------------------------------
(* What is settled stays so. *)

LEMMA SettledStays ==
  ASSUME IInv, [Next]_vars, NEW d \in Nodes, Settled(d)
  PROVE  Settled(d)' /\ node'[d].status = node[d].status
  <1>1. TypeOK BY DEF IInv
  <1>2. ASSUME NEW n \in Nodes, NEW record, SoundMove(n, record)
        PROVE  Settled(d)' /\ node'[d].status = node[d].status
    BY <1>1, <1>2 DEF SoundMove, Move, Settled, Retryable, TypeOK
  <1>3. CASE Rest
    BY <1>3 DEF Rest, Settled, Retryable
  <1>4. CASE Submit
    <2>1. d \notin Batch
      BY <1>4, LoopReads
         DEF IInv, LoopInv, Submit, Batch, Iteration, Settled, Terminal, Success, Bad
    <2>. QED BY <1>4, <2>1 DEF Submit, storeVars, Settled, Retryable
  <1>5. CASE \E n \in Nodes, a \in Attempts : ChildEnds(n, a)
    BY <1>5 DEF ChildEnds, storeVars, Settled, Retryable
  <1>6. CASE \E n \in Nodes : Executor(n)
    <2>1. PICK n \in Nodes : Executor(n) BY <1>6
    <2>2. /\ exec[n] = "running" /\ exec' = [exec EXCEPT ![n] = "done"]
          /\ node' = node \/ \E record : SoundMove(n, record)
      BY <2>1, ExecutorMoves
    <2>3. CASE node' = node
      BY <1>1, <2>2, <2>3 DEF Settled, Retryable, TypeOK
    <2>. QED BY <1>2, <2>2, <2>3
  <1>7. CASE \E n \in Nodes : \E record : SoundMove(n, record) BY <1>2, <1>7
  <1>. QED BY <1>3, <1>4, <1>5, <1>6, <1>7, StepMoves

(* Once a node has been planned on the outcome of its dependencies, no     *)
(* step replaces a status its trigger was evaluated on.                    *)
THEOREM SettledForGood == Spec => DependenciesSettled
  <1>1. ASSUME IInv, [Next]_vars
        PROVE  [\A n \in Nodes : node[n].status \notin {"PENDING", "CANCELLED"} =>
                   \A d \in Deps[n] : node'[d].status = node[d].status]_vars
    <2>. SUFFICES ASSUME NEW n \in Nodes, node[n].status \notin {"PENDING", "CANCELLED"},
                         NEW d \in Deps[n]
                  PROVE  node'[d].status = node[d].status
      OBVIOUS
    <2>1. d \in Nodes BY PlanPositions
    <2>2. SettledOK(n) BY <1>1, Zenon DEF IInv, RecordsInv
    <2>3. Settled(d) BY <2>2 DEF SettledOK, Planned
    <2>. QED BY <1>1, <2>1, <2>3, SettledStays
  <1>. QED BY <1>1, Invariant, PTL DEF Spec, DependenciesSettled

-----------------------------------------------------------------------------
(* Below an uncertain node.  Its direct dependents wait for it to settle;  *)
(* a node further down could only be reached past a cancelled one, and     *)
(* without fail_fast a node below a cancelled one is cancelled as well.    *)

LEMMA NewlyCancelled ==
  ASSUME IInv, [Next]_vars, NEW m \in Nodes,
         node'[m].status = "CANCELLED", node[m].status # "CANCELLED"
  PROVE  Cancel /\ m = Plan[at] /\ (expired \/ FailFast)
  <1>1. ~Rest /\ node' # node BY DEF Rest
  <1>2. ASSUME NEW n \in Nodes, NEW record, SoundMove(n, record)
        PROVE  m = n /\ record.status = "CANCELLED"
    BY <1>2 DEF SoundMove, Move, IInv, TypeOK
  <1>3. CASE Orchestrator
    <2>1. ~LoopRest BY <1>1, LoopRests DEF IInv
    <2>2. ~Submit BY <1>1 DEF Submit, storeVars
    <2>3. ~Retry
      <3>. SUFFICES ASSUME Retry PROVE FALSE OBVIOUS
      <3>. DEFINE n == Plan[at]
      <3>1. n \notin active /\ ~expired /\ Retryable(n, recs[n])
        BY <1>1, Zenon DEF Retry, storeVars
      <3>2. n \in Nodes /\ SoundMove(n, Prepared(node[n])) BY <3>1, RetryMoves
      <3>3. Prepared(node[n]).status = "READY" BY <3>2, PreparedType DEF IInv, TypeOK
      <3>. QED BY <1>2, <3>2, <3>3
    <2>4. \A n \in Nodes : ~PlanSkip(n) /\ ~PlanReuse(n) /\ ~PlanError(n) /\ ~PlanFails(n)
                           /\ ~PlanDispatch(n)
      BY <1>2, PlanSkipMoves, PlanReuseMoves, PlanPrepareMoves, PlanFailsMoves
    <2>5. Cancel BY <1>3, <2>1, <2>2, <2>3, <2>4, Zenon DEF Orchestrator, LoopRest
    <2>6. /\ Plan[at] \notin active /\ recs[Plan[at]].status \in {"PENDING", "READY"}
          /\ expired \/ FailFast
      BY <1>1, <2>5, Zenon DEF Cancel, FailingFast, storeVars
    <2>7. Plan[at] \in Nodes /\ SoundMove(Plan[at], Skipped(node[Plan[at]], "CANCELLED"))
      BY <1>1, <2>5, <2>6, CancelMoves
    <2>. QED BY <1>2, <2>5, <2>6, <2>7
  <1>4. \A n \in Nodes : ~Executor(n)
    <2>. SUFFICES ASSUME NEW n \in Nodes, Executor(n) PROVE FALSE OBVIOUS
    <2>1. PICK record : SoundMove(n, record) /\ record.status \in Outcomes
      BY <1>1, ExecutorMoves
    <2>. QED BY <1>2, <2>1 DEF Outcomes
  <1>5. ASSUME NEW n \in Nodes, NEW a \in Attempts, Child(n, a) PROVE FALSE
    <2>1. ~ChildEnds(n, a) BY <1>1 DEF ChildEnds, storeVars
    <2>2. ~ChildReports(n, a) BY <1>2, ChildReportsMoves DEF Outcomes
    <2>3. ~ChildClaims(n, a)
      <3>. SUFFICES ASSUME ChildClaims(n, a) PROVE FALSE OBVIOUS
      <3>1. Claimed(node[n]).status = "RUNNING"
        BY ClaimedType DEF IInv, TypeOK
      <3>. QED BY <1>2, <3>1, ChildClaimsMoves
    <2>. QED BY <1>5, <2>1, <2>2, <2>3 DEF Child
  <1>6. ~((\E n \in Nodes : BackoffElapses(n)) \/ RunDeadline \/ Ended \/ UNCHANGED vars)
    BY <1>1, Zenon DEF BackoffElapses, RunDeadline, Ended, vars, storeVars
  <1>. QED BY <1>3, <1>4, <1>5, <1>6, Zenon DEF Next

(* No node becomes PENDING again. *)
LEMMA StaysPlanned ==
  ASSUME IInv, [Next]_vars, NEW n \in Nodes
  PROVE  node'[n].status = "PENDING" => node[n].status = "PENDING"
  <1>1. ASSUME NEW m \in Nodes, NEW record, SoundMove(m, record), node'[n].status = "PENDING"
        PROVE  node[n].status = "PENDING"
    BY <1>1 DEF SoundMove, Move, IInv, TypeOK
  <1>2. ASSUME NEW m \in Nodes, Executor(m), node'[n].status = "PENDING"
        PROVE  node[n].status = "PENDING"
    BY <1>1, <1>2, ExecutorMoves
  <1>. QED BY <1>1, <1>2, StepMoves DEF Rest, Submit, ChildEnds, storeVars

LEMMA PlanOrder ==
  ASSUME NEW i \in 1..Len(Plan), NEW k \in 1..Len(Plan), Plan[k] \in Deps[Plan[i]]
  PROVE  k < i
  <1>1. Plan[k] \in Nodes /\ Plan[k] \in Deps[Plan[i]] BY PlanPositions
  <1>2. PICK j \in 1..(i - 1) : Plan[j] = Plan[k] BY <1>1, PlanPositions
  <1>3. j \in 1..Len(Plan) /\ j < i BY <1>2, PlanPositions
  <1>4. \A l, m \in 1..Len(Plan) : Plan[l] = Plan[m] => l = m BY PlanAssumption, Zenon
  <1>5. j = k BY <1>2, <1>3, <1>4
  <1>. QED BY <1>3, <1>5

LEMMA CancelledStep ==
  ASSUME ~FailFast, IInv, CancelledInv, [Next]_vars
  PROVE  CancelledInv'
  <1>. SUFFICES ASSUME NEW n \in Nodes, NEW d \in Deps[n],
                       node'[d].status = "CANCELLED", node'[d].attempt = 0,
                       node'[n].status = "PENDING"
                PROVE  /\ expired' /\ pc' \in {"cancel", "cancel2", "cancel3"}
                       /\ n \notin Before(at')
    BY Zenon DEF CancelledInv, Before
  <1>1. d \in Nodes /\ TypeOK /\ node[n].status = "PENDING"
    BY PlanPositions, StaysPlanned DEF IInv
  <1>2. expired => expired'
    <2>1. CASE ~Orchestrator BY <2>1, WorldSteps DEF World
    <2>2. CASE Orchestrator
      BY <2>2, Zenon
         DEF Orchestrator, Reap, Snapshot, Retry, RetryDone, Cancel, CancelDone, CancelLast,
             Reserve, ReserveDone, PlanPass, PlanDone, PlanSkip, PlanReuse, PlanError,
             PlanFails, PlanDispatch, SubmitOverdue, Submit, BatchReturns, NothingToSubmit,
             Wake, Summarise, FinishRun, timeVars
    <2>. QED BY <2>1, <2>2
  <1>3. CASE node[d].status = "CANCELLED" /\ node[d].attempt = 0
    <2>1. expired /\ pc \in {"cancel", "cancel2", "cancel3"} /\ n \notin Before(at)
      BY <1>1, <1>3, Zenon DEF CancelledInv
    <2>2. CASE ~Orchestrator
      BY <1>2, <2>1, <2>2, WorldSteps DEF World, loopVars
    <2>3. at <= Len(Plan)
      <3>1. PICK i \in 1..Len(Plan) : Plan[i] = n BY PlanPositions, Zenon
      <3>2. i \notin 1..(at - 1) BY <2>1, <3>1 DEF Before
      <3>3. at \in Int /\ Len(Plan) \in Nat BY <1>1, PlanPositions DEF TypeOK
      <3>. QED BY <3>1, <3>2, <3>3
    <2>4. CASE Orchestrator
      <3>1. Cancel
        <4>1. ~(at > Len(Plan)) BY <1>1, <2>3, PlanPositions DEF TypeOK
        <4>2. ~CancelDone /\ ~CancelLast
          BY <4>1, Zenon DEF CancelDone, CancelLast, LeaveLoop
        <4>3. pc \notin {"retry", "plan", "planfail", "reap", "snapshot", "reserve", "submit",
                         "barrier", "wait", "drain", "finish"}
          BY <2>1
        <4>4. ~(Reap \/ Snapshot \/ Retry \/ RetryDone \/ Reserve \/ ReserveDone)
          BY <4>3 DEF Reap, Snapshot, Retry, RetryDone, Reserve, ReserveDone, LeaveLoop, InLoop
        <4>5. ~(PlanPass \/ PlanDone \/ SubmitOverdue \/ Submit \/ BatchReturns
                \/ NothingToSubmit \/ Wake \/ Summarise \/ FinishRun)
          BY <4>3 DEF PlanPass, PlanDone, SubmitOverdue, Submit, BatchReturns,
                      NothingToSubmit, Wake, Summarise, FinishRun, LeaveLoop, InLoop
        <4>6. \A k \in Nodes : ~(PlanSkip(k) \/ PlanReuse(k) \/ PlanError(k) \/ PlanFails(k)
                                 \/ PlanDispatch(k))
          BY <4>3 DEF PlanSkip, PlanReuse, PlanError, PlanFails, PlanDispatch, Considered,
                      Planning, InLoop
        <4>. QED BY <2>4, <4>2, <4>4, <4>5, <4>6, Zenon DEF Orchestrator
      <3>2. pc' = pc /\ at' = at + 1 BY <3>1 DEF Cancel, Advance
      <3>3. n # Plan[at]
        <4>1. FutureOK(n) /\ AttemptOK(n)
          BY <1>1, Zenon DEF IInv, RecordsInv, RecordOK
        <4>2. exec[n] = "idle" BY <1>1, <4>1 DEF FutureOK, Outcomes, TypeOK
        <4>3. n \notin active /\ recs[n] = node[n]
          BY <2>1, <4>2 DEF IInv, LoopInv, SnapshotInv, SnapshotCurrent, Iteration, Pending
        <4>4. n = Plan[at] => node'[n] = Skipped(node[n], "CANCELLED")
          BY <1>1, <2>1, <3>1, <4>3 DEF Cancel, Store, TypeOK
        <4>5. Skipped(node[n], "CANCELLED").status = "CANCELLED"
          BY <1>1, SkippedType DEF TypeOK, Terminal, Bad
        <4>. QED BY <4>4, <4>5
      <3>4. Before(at + 1) = Before(at) \cup {Plan[at]}
        BY <1>1, <2>3, BeforeGrows, PlanPositions DEF TypeOK
      <3>. QED BY <1>2, <2>1, <3>2, <3>3, <3>4
    <2>. QED BY <2>2, <2>4
  <1>4. CASE node[d].status = "CANCELLED" /\ node[d].attempt # 0
    <2>1. Settled(d) \/ node'[d] = node[d]
      <3>1. ASSUME NEW m \in Nodes, NEW record, SoundMove(m, record)
            PROVE  Settled(d) \/ node'[d] = node[d]
        <4>1. RecordOK(d) BY <1>1, Zenon DEF IInv, RecordsInv
        <4>2. Settled(d)
          BY <1>1, <1>4, <4>1
             DEF Settled, Retryable, RecordOK, AttemptOK, FutureOK, Terminal, Bad, Outcomes, TypeOK
        <4>. QED BY <4>2
      <3>. QED BY <3>1, ExecutorMoves, StepMoves DEF Rest, Submit, ChildEnds, storeVars
    <2>2. Settled(d) => node'[d] = node[d]
      <3>1. ASSUME NEW m \in Nodes, NEW record, SoundMove(m, record), Settled(d)
            PROVE  node'[d] = node[d]
        BY <1>1, <3>1 DEF SoundMove, Move, TypeOK
      <3>. QED BY <3>1, ExecutorMoves, StepMoves DEF Rest, Submit, ChildEnds, storeVars
    <2>. QED BY <1>4, <2>1, <2>2
  <1>5. CASE node[d].status # "CANCELLED"
    <2>1. Cancel /\ d = Plan[at] /\ expired BY <1>1, <1>5, NewlyCancelled
    <2>2. at \in 1..Len(Plan) /\ pc' = pc /\ at' = at + 1
          /\ pc \in {"cancel", "cancel2", "cancel3"}
      BY <1>1, <2>1, PlanPositions DEF Cancel, InLoop, Advance, TypeOK
    <2>3. PICK i \in 1..Len(Plan) : n = Plan[i] BY PlanPositions
    <2>4. at < i BY <2>1, <2>2, <2>3, PlanOrder
    <2>5. ASSUME n \in Before(at') PROVE FALSE
      <3>1. PICK j \in 1..(at' - 1) : n = Plan[j] BY <2>5 DEF Before
      <3>2. j \in 1..Len(Plan) /\ j <= at BY <2>2, <3>1, PlanPositions
      <3>3. \A l, m \in 1..Len(Plan) : Plan[l] = Plan[m] => l = m BY PlanAssumption, Zenon
      <3>4. i = j BY <2>3, <3>1, <3>2, <3>3
      <3>. QED BY <2>4, <3>2, <3>4, <2>2
    <2>. QED BY <1>2, <2>1, <2>2, <2>5
  <1>. QED BY <1>3, <1>4, <1>5

LEMMA AncestorsStep ==
  ASSUME IInv, CancelledInv, AncestorsInv, [Next]_vars
  PROVE  AncestorsInv'
  <1>. SUFFICES ASSUME NEW n \in Nodes, Planned(n)', NEW m \in Ancestors[n]
                PROVE  Settled(m)'
    BY Zenon DEF AncestorsInv
  <1>1. m \in Nodes BY AncestorsUp
  <1>2. CASE Planned(n)
    BY <1>1, <1>2, SettledStays, Zenon DEF AncestorsInv
  <1>3. CASE ~Planned(n)
    <2>1. TypeOK /\ RecordOK(n) /\ node[n].status \in {"PENDING", "CANCELLED"}
          /\ node[n].attempt = 0
      BY <1>3 DEF IInv, RecordsInv, RecordOK, AttemptOK, Planned
    <2>2. exec[n] = "idle" /\ ~node[n].uncertain
      BY <2>1 DEF RecordOK, AttemptOK, FutureOK, Outcomes, TypeOK
    <2>3. node'[n] # node[n] BY <1>3 DEF Planned
    <2>4. PICK record : SoundMove(n, record)
      <3>1. ASSUME NEW k \in Nodes, NEW r, SoundMove(k, r) PROVE k = n
        BY <2>1, <2>3, <3>1 DEF SoundMove, Move, TypeOK
      <3>2. (\E k \in Nodes : Executor(k)) => \E k \in Nodes : \E r : SoundMove(k, r)
        BY <2>3, ExecutorMoves
      <3>. QED BY <2>3, <3>1, <3>2, StepMoves DEF Rest, Submit, ChildEnds, storeVars
    <2>5. node[n].status = "PENDING"
      BY <2>1, <2>2, <2>4 DEF SoundMove, Settled, Retryable, Terminal, Bad
    <2>6. \A d \in Deps[n] : Settled(d) BY <2>4 DEF SoundMove
    <2>7. pc \notin {"cancel", "cancel2", "cancel3"}
      <3>. SUFFICES ASSUME pc \in {"cancel", "cancel2", "cancel3"} PROVE FALSE
        OBVIOUS
      <3>1. Orchestrator BY <2>2, <2>3, WorldSteps DEF World
      <3>2. ~LoopRest BY <2>1, <2>3, LoopRests DEF Rest
      <3>3. Cancel
        BY <3>1, <3>2
           DEF Orchestrator, LoopRest, Retry, PlanSkip, PlanReuse, PlanError, PlanFails,
               PlanDispatch, Submit, InLoop, Considered, Planning
      <3>4. node'[n] = Skipped(node[n], "CANCELLED")
        BY <2>1, <2>3, <3>3 DEF Cancel, Store, storeVars, TypeOK
      <3>5. /\ Skipped(node[n], "CANCELLED").status = "CANCELLED"
            /\ Skipped(node[n], "CANCELLED").attempt = node[n].attempt
        BY <2>1, SkippedType DEF TypeOK, Terminal, Bad
      <3>. QED BY <1>3, <2>1, <3>4, <3>5 DEF Planned
    <2>8. PICK d \in Deps[n] : m = d \/ m \in Ancestors[d] BY AncestorsUp
    <2>9. d \in Nodes /\ Settled(d) /\ node[d] \in NodeRecord
      BY <2>1, <2>6, <2>8, PlanPositions DEF TypeOK
    <2>10. Planned(d)
      <3>1. ~(node[d].status = "CANCELLED" /\ node[d].attempt = 0)
        BY <2>5, <2>7, <2>8, Zenon DEF CancelledInv
      <3>. QED BY <2>9, <3>1 DEF Planned, Settled, NodeRecord, Terminal, Success, Bad
    <2>11. Settled(m) BY <2>8, <2>9, <2>10, Zenon DEF AncestorsInv
    <2>. QED BY <1>1, <2>11, SettledStays
  <1>. QED BY <1>2, <1>3

(* Without fail_fast nothing below an uncertain node is ever attempted     *)
(* (UncertainContained): its side effects may still be going on.           *)
THEOREM UncertainIsContained == ASSUME ~FailFast PROVE Spec => []UncertainContained
  <1>1. Init => CancelledInv /\ AncestorsInv
    <2>. SUFFICES ASSUME Init PROVE CancelledInv /\ AncestorsInv
      OBVIOUS
    <2>1. \A n \in Nodes : node[n].status = "PENDING" /\ node[n].attempt = 0
      BY DEF Init, Blank, PendingNode
    <2>. QED BY <2>1, PlanPositions DEF CancelledInv, AncestorsInv, Planned
  <1>2. IInv /\ CancelledInv /\ AncestorsInv /\ [Next]_vars => CancelledInv' /\ AncestorsInv'
    BY CancelledStep, AncestorsStep
  <1>3. IInv /\ AncestorsInv => UncertainContained
    <2>. SUFFICES ASSUME IInv, AncestorsInv, NEW d \in Nodes, NEW n \in Nodes,
                         node[d].uncertain, d \in Ancestors[n]
                  PROVE  node[n].attempt = 0
      BY DEF UncertainContained
    <2>1. ~Settled(d) BY DEF Settled
    <2>2. ~Planned(n) BY <2>1, Zenon DEF AncestorsInv
    <2>3. AttemptOK(n) BY Zenon DEF IInv, RecordsInv, RecordOK
    <2>. QED BY <2>2, <2>3 DEF Planned, AttemptOK
  <1>. QED BY <1>1, <1>2, <1>3, Invariant, PTL DEF Spec
-----------------------------------------------------------------------------
(* The run seen from the control store. *)

(* Every attempt the scheduler issues is within the store's bound. *)
LEMMA AttemptsBound ==
  /\ Cardinality(Attempts) \in Nat
  /\ \A n \in Nodes : 1 + MaxRetries[n] <= Cardinality(Attempts)
  <1>. DEFINE S == {1..(1 + MaxRetries[n]) : n \in Nodes}
              f == [n \in Nodes |-> 1..(1 + MaxRetries[n])]
  <1>1. f \in Surjection(Nodes, S) BY Zenon DEF Surjection
  <1>2. IsFiniteSet(S) BY <1>1, NodesFinite, FS_Surjection
  <1>3. ASSUME NEW n \in Nodes
        PROVE  /\ IsFiniteSet(1..(1 + MaxRetries[n]))
               /\ Cardinality(1..(1 + MaxRetries[n])) = 1 + MaxRetries[n]
    <2>1. PICK k \in Nat : k = 1 + MaxRetries[n] /\ k > 0 BY ConfigurationAssumption
    <2>2. /\ IsFiniteSet(1..k)
          /\ Cardinality(1..k) = IF 1 > k THEN 0 ELSE k - 1 + 1
      <3>1. 1 \in Int /\ k \in Int BY <2>1
      <3>. QED BY <3>1, FS_Interval, Zenon
    <2>. QED BY <2>1, <2>2
  <1>4. \A T \in S : IsFiniteSet(T) BY <1>3
  <1>5. IsFiniteSet(Attempts)
    <2>1. UNION S = Attempts BY DEF Attempts
    <2>2. IsFiniteSet(UNION S)
      <3>. HIDE DEF S
      <3>. QED BY <1>2, <1>4, FS_UNION
    <2>. HIDE DEF S
    <2>. QED BY <2>1, <2>2
  <1>6. ASSUME NEW n \in Nodes PROVE 1 + MaxRetries[n] <= Cardinality(Attempts)
    <2>1. 1..(1 + MaxRetries[n]) \in SUBSET Attempts BY DEF Attempts
    <2>2. Cardinality(1..(1 + MaxRetries[n])) <= Cardinality(Attempts) BY <1>5, <2>1, FS_Subset
    <2>. QED BY <1>3, <2>2
  <1>. QED BY <1>5, <1>6, FS_CardinalityType

(* The attempt a of node n, as the store names it. *)
Context(n, a) == [run |-> 1, node |-> n, attempt |-> a]

(* A step that replaces one record, seen from the store. *)
LEMMA SharedWrite ==
  ASSUME TypeOK, NEW n \in Nodes, NEW record,
         node' = [node EXCEPT ![n] = record], UNCHANGED <<runStatus, decided>>
  PROVE  Shared!WriteNode(1, n, record)
  BY DEF Shared!WriteNode, TypeOK

(* The guards and records of Scheduler are those of the store. *)
LEMMA SharedPrepare ==
  ASSUME TypeOK, NEW n \in Nodes, runStatus = "RUNNING", decided = "none",
         Preparable(node[n]), node[n].attempt <= MaxRetries[n],
         node' = [node EXCEPT ![n] = Prepared(node[n])], UNCHANGED <<runStatus, decided>>
  PROVE  Shared!Prepare(1, n)
  <1>1. node[n].attempt < Cardinality(Attempts)
    <2>1. node[n].attempt \in Nat BY DEF TypeOK, NodeRecord
    <2>. QED BY <2>1, AttemptsBound, ConfigurationAssumption
  <1>2. Shared!Prepared(node[n]) = Prepared(node[n]) 
    BY DEF Shared!Prepared, Prepared, NoOutput, Shared!NoOutput
  <1>3. Shared!Preparable(node[n]) BY DEF Shared!Preparable, Preparable
  <1>4. Shared!WriteNode(1, n, Prepared(node[n])) BY SharedWrite
  <1>. QED BY <1>1, <1>2, <1>3, <1>4 DEF Shared!Prepare, Shared!Scheduling, Shared!Undecided

LEMMA SharedSkip ==
  ASSUME TypeOK, NEW n \in Nodes, NEW status \in {"SKIPPED_CONDITION", "BLOCKED", "CANCELLED"},
         runStatus = "RUNNING", decided = "none", Skippable(node[n], status),
         node' = [node EXCEPT ![n] = Skipped(node[n], status)], UNCHANGED <<runStatus, decided>>
  PROVE  Shared!Skip(1, n, status)
  <1>1. Shared!Skippable(node[n], status) BY DEF Shared!Skippable, Skippable
  <1>2. Shared!WriteNode(1, n, Skipped(node[n], status)) BY SharedWrite
  <1>3. Shared!Skipped(node[n], status) = Skipped(node[n], status)
    BY DEF Shared!Skipped, Skipped
  <1>. QED BY <1>1, <1>2, <1>3 DEF Shared!Skip, Shared!Scheduling, Shared!Undecided

(* The record a finished attempt leaves names its own output.              *)
LEMMA SharedFinished ==
  ASSUME NEW record, NEW status, NEW retryable, NEW uncertain, NEW late, NEW c,
         NEW output, status = "SUCCEEDED" /\ ~late => output = <<c.run, c.attempt>>
  PROVE  Shared!Finished(record, status, retryable, uncertain, <<c.run, c.attempt>>, late)
           = Finished(record, status, retryable, uncertain, output, late)
  BY Zenon DEF Shared!Finished, Finished, Shared!NoOutput, NoOutput

(* The context of an attempt that may be finished is one the store knows.  *)
LEMMA SharedFinish ==
  ASSUME TypeOK, NEW n \in Nodes, NEW a \in Nat \ {0}, node[n].attempt = a,
         a <= 1 + MaxRetries[n],
         NEW status, NEW retryable, NEW uncertain, NEW late, NEW allowReady, NEW output,
         status = "SUCCEEDED" /\ ~late => output = <<1, a>>,
         runStatus = "RUNNING", Finishable(node[n], a, allowReady),
         node' = [node EXCEPT ![n] =
                    Finished(node[n], status, retryable, uncertain, output, late)],
         UNCHANGED <<runStatus, decided>>
  PROVE  /\ Context(n, a) \in Shared!Contexts
         /\ Shared!FinishAttempt(Context(n, a), status, retryable, uncertain, late, allowReady)
  <1>. DEFINE c == Context(n, a)
  <1>1. c.run = 1 /\ c.node = n /\ c.attempt = a BY DEF Context
  <1>2. c \in Shared!Contexts
    <2>1. a \in 1..Cardinality(Attempts) BY AttemptsBound, ConfigurationAssumption
    <2>. QED BY <2>1 DEF Context, Shared!Contexts, Shared!Runs
  <1>. HIDE DEF c
  <1>3. Shared!Finished(node[n], status, retryable, uncertain, <<c.run, c.attempt>>, late)
          = Finished(node[n], status, retryable, uncertain, output, late)
    BY <1>1, SharedFinished
  <1>4. Shared!WriteNode(1, n, Finished(node[n], status, retryable, uncertain, output, late))
    BY SharedWrite
  <1>5. Shared!Finishable(node[n], a, allowReady) BY DEF Shared!Finishable, Finishable
  <1>6. Shared!FinishAttempt(c, status, retryable, uncertain, late, allowReady)
    BY <1>1, <1>3, <1>4, <1>5
       DEF Shared!FinishAttempt, Shared!Issued, Shared!RecordOf
  <1>. QED BY <1>2, <1>6 DEF c

(* What OnlyStoreOperations asks of a step that changes the records. *)
StoreCall ==
    \/ Shared!OrchestratorStep(1)
    \/ \E c \in Shared!Contexts : Shared!ClaimRecord(c) \/ Shared!AttemptStep(c)

(* There is no summary while the loop runs, and the history is the one the *)
(* run began with.                                                         *)
DecidedInv ==
    /\ pc \notin {"finish", "ended"} => decided = "none"
    /\ prior \in Priors

LEMMA DecidedStep == ASSUME IInv, DecidedInv, [Next]_vars PROVE DecidedInv'
  <1>1. CASE Orchestrator
    <2>1. CASE Summarise \/ FinishRun
      BY <2>1 DEF Summarise, FinishRun, EndIteration, DecidedInv
    <2>2. CASE ~(Summarise \/ FinishRun)
      <3>1. /\ decided' = decided /\ prior' = prior
            /\ pc \notin {"finish", "ended"}
        BY <1>1, <2>2
           DEF Orchestrator, Reap, Snapshot, Retry, RetryDone, Cancel, CancelDone, CancelLast,
               Reserve, ReserveDone, PlanPass, PlanDone, PlanSkip, PlanReuse, PlanError,
               PlanFails, PlanDispatch, SubmitOverdue, Submit, BatchReturns, NothingToSubmit,
               Wake, LeaveLoop, InLoop, Considered, Planning
      <3>. QED BY <3>1 DEF DecidedInv
    <2>. QED BY <2>1, <2>2
  <1>2. CASE ~Orchestrator
    <2>1. UNCHANGED <<prior, loopVars>>
      BY <1>2, Zenon
         DEF Next, Executor, ExecutorSettles, ExecutorGivesUp, Child, ChildClaims,
             ChildReports, ChildEnds, BackoffElapses, RunDeadline, Ended, vars, loopVars
    <2>. QED BY <2>1 DEF loopVars, DecidedInv
  <1>. QED BY <1>1, <1>2

(* While a node has a thread, and while the loop runs, the run is open and *)
(* undecided.                                                              *)
LEMMA StillScheduling ==
  ASSUME IInv, DecidedInv, pc \notin {"finish", "ended"} \/ \E n \in Nodes : exec[n] = "running"
  PROVE  runStatus = "RUNNING" /\ decided = "none"
  BY DEF IInv, ClosedInv, DecidedInv

(* A settled record may be finished only by whoever holds its attempt: the *)
(* orchestrator or the executor.                                           *)
LEMMA ExecutorCall ==
  ASSUME IInv, DecidedInv, NEW n \in Nodes,
         pc \notin {"finish", "ended"} \/ exec[n] = "running",
         node[n].status \in {"READY", "RUNNING"},
         NEW status \in {"FAILED", "TIMED_OUT"}, NEW retryable \in BOOLEAN,
         NEW uncertain \in BOOLEAN,
         node' = [node EXCEPT ![n] =
                    Finished(node[n], status, retryable, uncertain, NoOutput, FALSE)],
         UNCHANGED <<runStatus, decided>>
  PROVE  StoreCall
  <1>. DEFINE a == node[n].attempt
              c == Context(n, a)
  <1>1. runStatus = "RUNNING" /\ decided = "none" BY StillScheduling
  <1>2. a \in Nat \ {0} /\ a <= 1 + MaxRetries[n]
    <2>1. AttemptOK(n) /\ node[n] \in NodeRecord
      BY Zenon DEF IInv, RecordsInv, RecordOK, TypeOK
    <2>. QED BY <2>1, ConfigurationAssumption DEF AttemptOK
  <1>3. Finishable(node[n], a, TRUE) BY DEF Finishable
  <1>4. /\ c \in Shared!Contexts
        /\ Shared!FinishAttempt(c, status, retryable, uncertain, FALSE, TRUE)
    BY <1>1, <1>2, <1>3, SharedFinish DEF IInv
  <1>5. Shared!Scheduling(c.run) BY <1>1 DEF Context, Shared!Scheduling, Shared!Undecided
  <1>6. Shared!ExecutorFails(c) BY <1>4, <1>5, Zenon DEF Shared!ExecutorFails
  <1>. HIDE DEF c
  <1>. QED BY <1>4, <1>6 DEF StoreCall, Shared!AttemptStep

(* A child reports or claims its own attempt. *)
LEMMA ReportCall ==
  ASSUME IInv, NEW n \in Nodes, NEW a \in Attempts, ChildReports(n, a)
  PROVE  StoreCall
  <1>. DEFINE c == Context(n, a)
  <1>1. /\ runStatus = "RUNNING" /\ Finishable(node[n], a, FALSE) /\ node[n].attempt = a
        /\ UNCHANGED <<runStatus, decided>>
    BY DEF ChildReports, Finishable, loopVars
  <1>2. a \in Nat \ {0} /\ a <= 1 + MaxRetries[n]
    <2>1. AttemptOK(n) /\ node[n] \in NodeRecord
      BY Zenon DEF IInv, RecordsInv, RecordOK, TypeOK
    <2>2. node[n].status = "RUNNING" BY <1>1 DEF Finishable
    <2>. QED BY <1>1, <2>1, <2>2, ConfigurationAssumption DEF AttemptOK
  <1>3. ASSUME NEW late \in BOOLEAN,
               node' = [node EXCEPT ![n] =
                          Finished(node[n], "SUCCEEDED", FALSE, FALSE, <<1, a>>, late)]
        PROVE  StoreCall
    <2>1. /\ c \in Shared!Contexts
          /\ Shared!FinishAttempt(c, "SUCCEEDED", FALSE, FALSE, late, FALSE)
      BY <1>1, <1>2, <1>3, SharedFinish DEF IInv
    <2>2. Shared!ChildSucceeds(c) BY <2>1, Zenon DEF Shared!ChildSucceeds
    <2>. HIDE DEF c
    <2>. QED BY <2>1, <2>2 DEF StoreCall, Shared!AttemptStep
  <1>4. ASSUME NEW status \in {"FAILED", "TIMED_OUT"}, NEW retryable \in BOOLEAN,
               node' = [node EXCEPT ![n] =
                          Finished(node[n], status, retryable, FALSE, NoOutput, FALSE)]
        PROVE  StoreCall
    <2>1. /\ c \in Shared!Contexts
          /\ Shared!FinishAttempt(c, status, retryable, FALSE, FALSE, FALSE)
      BY <1>1, <1>2, <1>4, SharedFinish DEF IInv
    <2>2. Shared!ChildFails(c) BY <2>1, Zenon DEF Shared!ChildFails
    <2>. HIDE DEF c
    <2>. QED BY <2>1, <2>2 DEF StoreCall, Shared!AttemptStep
  <1>5. (IF expired THEN {TRUE} ELSE BOOLEAN) \subseteq BOOLEAN OBVIOUS
  <1>. QED BY <1>3, <1>4, <1>5, Zenon DEF ChildReports

LEMMA ClaimCall ==
  ASSUME IInv, NEW n \in Nodes, NEW a \in Attempts, ChildClaims(n, a)
  PROVE  StoreCall
  <1>. DEFINE c == Context(n, a)
  <1>1. /\ runStatus = "RUNNING" /\ node[n].attempt = a /\ node[n].status = "READY"
        /\ node' = [node EXCEPT ![n] = Claimed(node[n])] /\ UNCHANGED <<runStatus, decided>>
    BY DEF ChildClaims, Claimable, loopVars
  <1>2. c \in Shared!Contexts
    <2>1. AttemptOK(n) /\ node[n] \in NodeRecord
      BY Zenon DEF IInv, RecordsInv, RecordOK, TypeOK
    <2>2. a \in 1..Cardinality(Attempts)
      BY <1>1, <2>1, AttemptsBound, ConfigurationAssumption DEF AttemptOK
    <2>. QED BY <2>2 DEF Context, Shared!Contexts, Shared!Runs
  <1>3. Shared!WriteNode(1, n, Claimed(node[n])) BY <1>1, SharedWrite DEF IInv
  <1>4. Shared!Claimed(node[n]) = Claimed(node[n]) BY DEF Shared!Claimed, Claimed
  <1>5. c.run = 1 /\ c.node = n /\ c.attempt = a BY DEF Context
  <1>. HIDE DEF c
  <1>6. Shared!ClaimRecord(c)
    BY <1>1, <1>3, <1>4, <1>5 DEF Shared!ClaimRecord, Shared!Claimable, Shared!RecordOf
  <1>. QED BY <1>2, <1>6 DEF StoreCall

(* A prepare or a skip that the loop makes while it runs. *)
LEMMA PrepareCall ==
  ASSUME IInv, DecidedInv, pc \notin {"finish", "ended"}, NEW n \in Nodes,
         Preparable(node[n]), node[n].attempt <= MaxRetries[n],
         Store(n, Prepared(node[n])), decided' = decided
  PROVE  StoreCall
  <1>1. runStatus = "RUNNING" /\ decided = "none" BY StillScheduling
  <1>2. Shared!Prepare(1, n) BY <1>1, SharedPrepare DEF IInv, Store
  <1>. QED BY <1>2 DEF StoreCall, Shared!OrchestratorStep

LEMMA SkipCall ==
  ASSUME IInv, DecidedInv, pc \notin {"finish", "ended"}, NEW n \in Nodes,
         NEW status \in {"SKIPPED_CONDITION", "BLOCKED", "CANCELLED"},
         Skippable(node[n], status), Store(n, Skipped(node[n], status)), decided' = decided
  PROVE  StoreCall
  <1>1. runStatus = "RUNNING" /\ decided = "none" BY StillScheduling
  <1>2. Shared!Skip(1, n, status) BY <1>1, SharedSkip DEF IInv, Store
  <1>. QED BY <1>2 DEF StoreCall, Shared!OrchestratorStep

(* The iteration calls prepare, skip and finish_attempt, *)
LEMMA IterationCall ==
  ASSUME IInv, DecidedInv,
         \A history \in Priors, n \in Nodes : ~history[n].reusable,
         node' # node,
         \/ Retry \/ Cancel
         \/ \E n \in Nodes : PlanSkip(n) \/ PlanReuse(n) \/ PlanError(n) \/ PlanFails(n)
                             \/ PlanDispatch(n)
  PROVE  StoreCall
  <1>1. CASE Retry
    <2>. DEFINE n == Plan[at]
    <2>1. /\ n \notin active /\ ~expired /\ Retryable(n, recs[n]) /\ Preparable(node[n])
          /\ Store(n, Prepared(node[n])) /\ decided' = decided /\ pc = "retry"
      BY <1>1, Zenon DEF Retry, storeVars, InLoop
    <2>2. n \in Nodes BY <1>1, PlanPositions DEF Retry, InLoop, IInv, TypeOK
    <2>. HIDE DEF n
    <2>3. recs[n] = node[n] BY <2>1, <2>2, LoopReads DEF IInv, LoopInv, Iteration
    <2>. QED BY <2>1, <2>2, <2>3, PrepareCall DEF Retryable
  <1>2. CASE Cancel
    <2>. DEFINE n == Plan[at]
    <2>1. /\ Skippable(node[n], "CANCELLED") /\ Store(n, Skipped(node[n], "CANCELLED"))
          /\ decided' = decided /\ pc \in {"cancel", "cancel2", "cancel3"}
      BY <1>2, Zenon DEF Cancel, storeVars, InLoop
    <2>2. n \in Nodes BY <1>2, PlanPositions DEF Cancel, InLoop, IInv, TypeOK
    <2>. HIDE DEF n
    <2>. QED BY <2>1, <2>2, SkipCall
  <1>3. ASSUME NEW n \in Nodes, PlanSkip(n) PROVE StoreCall
    <2>1. TriggerStatus(n, recs) \in {"SKIPPED_CONDITION", "BLOCKED"} BY DEF TriggerStatus
    <2>2. PICK status \in {"SKIPPED_CONDITION", "BLOCKED"} :
             Skippable(node[n], status) /\ Store(n, Skipped(node[n], status))
      BY <1>3, <2>1, Zenon DEF PlanSkip
    <2>3. decided' = decided /\ pc = "plan" BY <1>3 DEF PlanSkip, Planning, InLoop
    <2>. QED BY <2>2, <2>3, SkipCall
  <1>4. ASSUME NEW n \in Nodes, PlanError(n) \/ PlanDispatch(n) PROVE StoreCall
    <2>1. /\ Planning(n) /\ Preparable(node[n]) /\ Store(n, Prepared(node[n]))
          /\ decided' = decided /\ pc = "plan"
      BY <1>4, Zenon DEF PlanError, PlanDispatch, Considered, Planning, InLoop
    <2>2. node[n].attempt <= MaxRetries[n]
      BY <2>1, PlanningFacts, ConfigurationAssumption
    <2>. QED BY <2>1, <2>2, PrepareCall
  <1>5. ASSUME NEW n \in Nodes, PlanReuse(n) PROVE StoreCall
    <2>1. prior[n].reusable BY <1>5 DEF PlanReuse, CanReuse
    <2>. QED BY <2>1 DEF DecidedInv
  <1>6. ASSUME NEW n \in Nodes, PlanFails(n) PROVE StoreCall
    <2>1. pc = "planfail" /\ decided' = decided /\ node[n].status = "READY"
      BY <1>6, Zenon DEF PlanFails, IInv, LoopInv, PlanFailInv
    <2>2. PICK retryable \in BOOLEAN :
             Store(n, Finished(node[n], "FAILED", retryable, FALSE, NoOutput, FALSE))
      <3>1. PICK retryable \in (IF n \in Unreadable THEN BOOLEAN ELSE {FALSE}) :
               Store(n, Finished(node[n], "FAILED", retryable, FALSE, NoOutput, FALSE))
        BY <1>6, Zenon DEF PlanFails
      <3>2. retryable \in BOOLEAN OBVIOUS
      <3>. QED BY <3>1, <3>2, Zenon
    <2>. QED BY <2>1, <2>2, ExecutorCall DEF Store
  <1>. QED BY <1>1, <1>2, <1>3, <1>4, <1>5, <1>6

(* and what follows it the summary and finish_run. *)
LEMMA SummariseCall == ASSUME IInv, DecidedInv, Summarise PROVE StoreCall
  <1>1. pc = "drain" /\ decided' = Summary /\ UNCHANGED <<node, runStatus>>
    BY DEF Summarise, storeVars
  <1>2. runStatus = "RUNNING" /\ decided = "none" BY <1>1, StillScheduling
  <1>3. (\E n \in Nodes : node[n].uncertain) \/ (\A n \in Nodes : node[n].status \in Terminal)
    BY <1>1 DEF IInv, LoopInv, DrainInv
  <1>4. Shared!Summary(1) = Summary
    BY Zenon DEF Shared!Summary, Summary, Shared!Bad, Bad
  <1>5. Shared!Terminal = Terminal
    BY DEF Shared!Terminal, Terminal, Shared!Success, Success, Shared!Bad, Bad
  <1>6. Shared!Summarise(1)
    BY <1>1, <1>2, <1>3, <1>4, <1>5
       DEF Shared!Summarise, Shared!Scheduling, Shared!Undecided
  <1>. QED BY <1>6 DEF StoreCall, Shared!OrchestratorStep

LEMMA FinishCall == ASSUME IInv, FinishRun PROVE StoreCall
  <1>1. /\ pc = "finish" /\ runStatus' = decided /\ UNCHANGED <<node, decided>>
        /\ decided # "RECOVERY_REQUIRED" => \A n \in Nodes : node[n].status \in Terminal
    BY DEF FinishRun
  <1>2. runStatus = "RUNNING" /\ decided # "none"
    BY <1>1 DEF IInv, ClosedInv, Summary
  <1>3. Shared!Terminal = Terminal
    BY DEF Shared!Terminal, Terminal, Shared!Success, Success, Shared!Bad, Bad
  <1>4. Shared!FinishRun(1)
    BY <1>1, <1>2, <1>3 DEF Shared!FinishRun, Shared!Undecided
  <1>. QED BY <1>4 DEF StoreCall, Shared!OrchestratorStep

(* An executor that changes a record fails its attempt. *)
LEMMA WorkerCall ==
  ASSUME IInv, DecidedInv, NEW n \in Nodes, Executor(n), node' # node
  PROVE  StoreCall
  <1>1. /\ exec[n] = "running" /\ UNCHANGED <<runStatus, decided>>
        /\ node[n].status \notin Terminal
    BY Zenon DEF Executor, ExecutorSettles, ExecutorGivesUp, loopVars
  <1>2. node[n].status \in {"READY", "RUNNING"}
    <2>1. FutureOK(n) BY Zenon DEF IInv, RecordsInv, RecordOK
    <2>. QED BY <1>1, <2>1 DEF FutureOK, Outcomes, Terminal, Success, Bad
  <1>3. PICK status \in {"FAILED", "TIMED_OUT"}, retryable \in BOOLEAN, uncertain \in BOOLEAN :
           node' = [node EXCEPT ![n] =
                      Finished(node[n], status, retryable, uncertain, NoOutput, FALSE)]
    <2>1. CASE ExecutorSettles(n)
      <3>1. PICK status \in {"FAILED", "TIMED_OUT"}, retryable \in BOOLEAN :
               node' = [node EXCEPT ![n] =
                          Finished(node[n], status, retryable, FALSE, NoOutput, FALSE)]
        BY <1>1, <2>1, Zenon DEF ExecutorSettles
      <3>2. FALSE \in BOOLEAN OBVIOUS
      <3>. QED BY <3>1, <3>2, Zenon
    <2>2. CASE ExecutorGivesUp(n)
      <3>1. PICK status \in {"FAILED", "TIMED_OUT"} :
               node' = [node EXCEPT ![n] =
                          Finished(node[n], status, FALSE, TRUE, NoOutput, FALSE)]
        BY <1>1, <2>2, Zenon DEF ExecutorGivesUp
      <3>2. FALSE \in BOOLEAN /\ TRUE \in BOOLEAN OBVIOUS
      <3>. QED BY <3>1, <3>2, Zenon
    <2>. QED BY <2>1, <2>2 DEF Executor
  <1>. QED BY <1>1, <1>2, <1>3, ExecutorCall

(* Every step that changes the records is such a call. *)
LEMMA CallStep ==
  ASSUME IInv, DecidedInv, [Next]_vars,
         \A history \in Priors, n \in Nodes : ~history[n].reusable,
         <<node, runStatus, decided>>' # <<node, runStatus, decided>>
  PROVE  StoreCall
  <1>1. CASE Orchestrator
    <2>1. CASE Summarise BY <2>1, SummariseCall
    <2>2. CASE FinishRun BY <2>2, FinishCall
    <2>3. CASE LoopRest /\ ~Summarise /\ ~FinishRun
      BY <2>3, Zenon
         DEF LoopRest, Reap, Snapshot, RetryDone, CancelDone, CancelLast, Reserve, ReserveDone,
             PlanPass, PlanDone, SubmitOverdue, BatchReturns, NothingToSubmit, Wake, storeVars
    <2>4. CASE Submit BY <2>4, Zenon DEF Submit, storeVars
    <2>5. CASE \/ Retry \/ Cancel
               \/ \E n \in Nodes : PlanSkip(n) \/ PlanReuse(n) \/ PlanError(n) \/ PlanFails(n)
                                   \/ PlanDispatch(n)
      <3>1. UNCHANGED <<runStatus, decided>>
        BY <2>5, Zenon DEF Retry, Cancel, PlanSkip, PlanReuse, PlanError, PlanFails,
                           PlanDispatch, Store, storeVars
      <3>. QED BY <2>5, <3>1, IterationCall
    <2>. QED BY <1>1, <2>1, <2>2, <2>3, <2>4, <2>5, Zenon DEF Orchestrator, LoopRest
  <1>2. ASSUME NEW n \in Nodes, Executor(n) PROVE StoreCall
    <2>1. UNCHANGED <<runStatus, decided>>
      BY <1>2, Zenon DEF Executor, ExecutorSettles, ExecutorGivesUp, loopVars
    <2>. QED BY <1>2, <2>1, WorkerCall
  <1>3. ASSUME NEW n \in Nodes, NEW a \in Attempts, Child(n, a) PROVE StoreCall
    <2>1. ~ChildEnds(n, a) BY Zenon DEF ChildEnds, storeVars, loopVars
    <2>. QED BY <1>3, <2>1, ClaimCall, ReportCall DEF Child
  <1>4. CASE (\E n \in Nodes : BackoffElapses(n)) \/ RunDeadline \/ Ended \/ UNCHANGED vars
    BY <1>4, Zenon DEF BackoffElapses, RunDeadline, Ended, vars, storeVars, loopVars
  <1>. QED BY <1>1, <1>2, <1>3, <1>4 DEF Next

(* A run without a reusable history changes the records only by operations *)
(* of the control store, each where the store accepts it                   *)
(* (OnlyStoreOperations), for every DAG and platform.                      *)
THEOREM RunsOnTheStore ==
  ASSUME \A history \in Priors, n \in Nodes : ~history[n].reusable
  PROVE  Spec => OnlyStoreOperations
  <1>1. Init => DecidedInv BY DEF Init, DecidedInv
  <1>2. IInv /\ DecidedInv /\ [Next]_vars => DecidedInv' BY DecidedStep
  <1>3. ASSUME IInv, DecidedInv, [Next]_vars
        PROVE  [<<node, runStatus, decided>>' # <<node, runStatus, decided>> =>
                  \/ Shared!OrchestratorStep(1)
                  \/ \E c \in Shared!Contexts :
                         Shared!ClaimRecord(c) \/ Shared!AttemptStep(c)]_vars
    BY <1>3, CallStep, Zenon DEF StoreCall
  <1>. QED BY <1>1, <1>2, <1>3, Invariant, PTL DEF Spec, OnlyStoreOperations
=============================================================================
