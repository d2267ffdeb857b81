--------------------------- MODULE RunLeaseProofs ---------------------------
(***************************************************************************)
(* Theorems about RunLease, for every set of orchestrators, threads and    *)
(* drivers.                                                                *)
(*                                                                         *)
(* The argument.  Each step of an orchestrator, of a child or of the       *)
(* operator is a step of the Delta log or leaves it alone, so what         *)
(* DeltaLogProofs shows of the log holds here.  A thread of an             *)
(* orchestrator is in a transaction only while the orchestrator is where   *)
(* it waits for that thread (QuietInv); a transaction that ends without an *)
(* answer orphans the control lease.                                       *)
(*                                                                         *)
(* Runs are serial because an append is decided on the very history it     *)
(* extends: what is on its way (DecidedInv) is what that history allows.   *)
(* A child's work is for the run its context names, which had begun when   *)
(* the child was launched (ServesInv).  That any other writer is the       *)
(* orchestrator that began the run needs what each orchestrator knows of   *)
(* its run, by where it is (KnowledgeInv): until begin_run has returned it *)
(* may not know that its run has begun, and only once finish_run has       *)
(* returned does it know that nobody can write, its children included.     *)
(***************************************************************************)
EXTENDS RunLease, DeltaLogProofs, FiniteSetTheorems

LEMMA MainThread ==
    ASSUME NEW d \in Orchestrators
    PROVE  Main[d] \in Threads /\ DriverOf[Main[d]] = d /\ d \in Drivers
  BY OrchestratorAssumption, DriverAssumption

LeaseInv == lease \in Threads => phase[lease] # "idle"

BusyInv ==
    \A d \in Orchestrators : \A t \in Threads :
        t \in busy /\ DriverOf[t] = d => t # Main[d] /\ orch[d] \in {"running", "aborting"}

Waiting == {"beginning", "running", "closing", "finishing", "holding"}

WorkInv ==
    \A d \in Orchestrators : \A t \in Threads :
        phase[t] # "idle" /\ DriverOf[t] = d =>
            \/ t = Main[d] /\ orch[d] \in Waiting
            \/ t # Main[d] /\ t \in busy

QuietInv ==
    /\ orch \in [Orchestrators -> OrchPhases]
    /\ LeaseInv /\ BusyInv /\ WorkInv

-----------------------------------------------------------------------------
(* What RunLease makes of the log: a transaction that puts nothing raises. *)
LogUse ==
    \/ \E t \in Threads :
           \/ Acquire(t) \/ AcquireUnanswered(t) \/ AcquireRefused(t) \/ Look(t)
           \/ PutNothing(t, "raised")
           \/ \E batch \in Batches : Put(t, batch)
           \/ LogStep(t) \/ Storage(t)
    \/ \E d \in Drivers : ClearCache(d) \/ DriverDies(d)
    \/ BreakLease
    \/ UNCHANGED logVars

(* An orchestrator leaves with all its threads at rest, so that it can     *)
(* take its DeltaEvents with it.                                           *)
LEMMA LeavesClean ==
    ASSUME QuietInv, NEW d \in Orchestrators, Retain(d) \/ Leave(d)
    PROVE  ClearCache(d)
  <1>1. \E left : Leaves(d, left) BY DEF Retain, Leave
  <1>2. ASSUME NEW t \in Threads, DriverOf[t] = d PROVE phase[t] = "idle"
    <2>1. CASE t = Main[d]
      <3>1. orch[d] \in {"refused", "closed"} \/ MainIdle(d) BY DEF Retain, Leave
      <3>. QED BY <1>2, <2>1, <3>1 DEF QuietInv, WorkInv, Waiting, MainIdle
    <2>2. CASE t # Main[d]
      <3>1. orch[d] \notin {"running", "aborting"} \/ t \notin busy
        BY <1>2, <2>2 DEF Retain, Leave, Pool
      <3>. QED BY <1>2, <2>2, <3>1 DEF QuietInv, WorkInv, BusyInv
    <2>. QED BY <2>1, <2>2
  <1>. QED BY <1>1, <1>2 DEF Leaves, ClearCache

LEMMA RunStepUsesLog == ASSUME QuietInv, [Next]_vars PROVE LogUse
  <1>1. CASE UNCHANGED vars BY <1>1 DEF vars, LogUse
  <1>2. ASSUME NEW d \in Orchestrators,
               \/ Enter(d) \/ EnterUnanswered(d) \/ StartFails(d) \/ Began(d)
               \/ \E t \in Threads : Dispatch(d, t)
               \/ LoopRaises(d) \/ Close(d) \/ Finished(d) \/ FinishRaises(d)
               \/ \E c \in Children : Launch(d, c)
        PROVE  LogUse
    <2>1. UNCHANGED logVars
      BY <1>2 DEF Enter, EnterUnanswered, StartFails, Began, Dispatch, LoopRaises, Close, Finished,
                  FinishRaises, Launch
    <2>. QED BY <2>1 DEF LogUse
  <1>3. ASSUME NEW d \in Orchestrators,
               Start(d) \/ Retain(d) \/ Leave(d) \/ OrchestratorDies(d)
        PROVE  LogUse
    <2>1. ClearCache(d) \/ DriverDies(d) BY <1>3, LeavesClean DEF Start, OrchestratorDies
    <2>. QED BY <2>1, MainThread DEF LogUse
  <1>4. ASSUME NEW d \in Orchestrators, BeginRun(d) PROVE LogUse
    <2>1. PutNothing(Main[d], "raised") \/ Put(Main[d], <<"begin", "plan">>)
      BY <1>4 DEF BeginRun
    <2>. QED BY <2>1, MainThread, RunBatchAssumption DEF LogUse
  <1>5. ASSUME NEW d \in Orchestrators, NEW t \in Threads, Work(d, t) PROVE LogUse
    <2>1. PutNothing(t, "raised") \/ Put(t, <<"work">>) BY <1>5 DEF Work
    <2>. QED BY <2>1, RunBatchAssumption DEF LogUse
  <1>6. ASSUME NEW d \in Orchestrators, FinishRun(d) PROVE LogUse
    <2>1. \/ PutNothing(Main[d], "raised")
          \/ Put(Main[d], <<"finish">>) \/ Put(Main[d], <<"hold">>)
      BY <1>6 DEF FinishRun
    <2>. QED BY <2>1, MainThread, RunBatchAssumption DEF LogUse
  <1>7. ASSUME NEW t \in Threads, AttemptEnds(t) PROVE LogUse
    BY <1>7 DEF AttemptEnds, LogUse
  <1>8. ASSUME NEW t \in Threads, Opens(t) \/ Looks(t) \/ Transacts(t) PROVE LogUse
    BY <1>8 DEF Opens, Looks, Transacts, LogUse
  <1>9. CASE BreakControlLease BY <1>9 DEF BreakControlLease, LogUse
  <1>10. CASE BreakRunLease BY <1>10 DEF BreakRunLease, LogUse
  <1>11. CASE Reconcile
    <2>1. PutNothing(Desk, "raised") \/ Put(Desk, <<"settle">>) BY <1>11 DEF Reconcile
    <2>. QED BY <2>1, DeskAssumption, RunBatchAssumption DEF LogUse
  <1>12. CASE DeskDies
    <2>1. DriverOf[Desk] \in Drivers BY DeskAssumption, DriverAssumption
    <2>. QED BY <1>12, <2>1 DEF DeskDies, LogUse
  <1>13. ASSUME NEW c \in Children, ChildWork(c) PROVE LogUse
    <2>1. PutNothing(c, "raised") \/ Put(c, <<"work">>) BY <1>13 DEF ChildWork
    <2>. QED BY <2>1, ChildAssumption, RunBatchAssumption DEF LogUse
  <1>14. ASSUME NEW c \in Children, ChildEnds(c) PROVE LogUse
    <2>1. DriverOf[c] \in Drivers BY ChildAssumption, DriverAssumption
    <2>. QED BY <1>14, <2>1 DEF ChildEnds, LogUse
  <1>. QED BY <1>1, <1>2, <1>3, <1>4, <1>5, <1>6, <1>7, <1>8, <1>9, <1>10, <1>11, <1>12, <1>13,
              <1>14 DEF Next

LEMMA RunStepIsLogStep == QuietInv /\ [Next]_vars => [LogNext]_logVars
  BY RunStepUsesLog DEF LogUse, LogNext

LEMMA LeaseKept == IInv /\ LeaseInv /\ [LogNext]_logVars => LeaseInv'
  <1>. SUFFICES ASSUME IInv, LeaseInv, [LogNext]_logVars PROVE LeaseInv' OBVIOUS
  <1>. USE LeaseAssumption DEF IInv, LogTypeOK, HolderInv, LeaseInv
  <1>1. CASE UNCHANGED logVars BY <1>1 DEF logVars
  <1>2. ASSUME NEW t \in Threads, Acquire(t) \/ AcquireUnanswered(t) \/ AcquireRefused(t)
        PROVE  LeaseInv'
    BY <1>2 DEF Acquire, AcquireUnanswered, AcquireRefused, Goto
  <1>3. ASSUME NEW t \in Threads,
               \/ Look(t) \/ Lands(t) \/ IsLost(t)
        PROVE  LeaseInv'
    BY <1>3 DEF Look, Lands, IsLost
  <1>4. ASSUME NEW t \in Threads,
               \/ PutNothing(t, "returned") \/ PutNothing(t, "raised")
               \/ \E batch \in Batches : Put(t, batch)
               \/ SendAppend(t) \/ CheckFails(t) \/ Acknowledged(t)
        PROVE  LeaseInv'
    <2>1. UNCHANGED lease
      BY <1>4 DEF PutNothing, Put, SendAppend, CheckFails, Acknowledged
    <2>2. \E to \in LogPhases \ {"idle"} : phase' = [phase EXCEPT ![t] = to]
      BY <1>4 DEF PutNothing, Put, SendAppend, CheckFails, Acknowledged, Goto, LogPhases
    <2>. QED BY <2>1, <2>2
  <1>5. ASSUME NEW t \in Threads, Read(t) PROVE LeaseInv'
    <2>1. UNCHANGED lease BY <1>5 DEF Read
    <2>2. \E to \in LogPhases \ {"idle"} : phase' = [phase EXCEPT ![t] = to]
      BY <1>5 DEF Read, Goto, LogPhases
    <2>. QED BY <2>1, <2>2
  <1>6. ASSUME NEW t \in Threads, Remember(t) PROVE LeaseInv'
    <2>1. \/ UNCHANGED lease /\ phase' = [phase EXCEPT ![t] = "leaving"]
          \/ lease' = Retained(t) /\ phase' = [phase EXCEPT ![t] = "idle"]
      BY <1>6 DEF Remember, Goto
    <2>. QED BY <2>1 DEF Retained
  <1>7. ASSUME NEW t \in Threads, Unacknowledged(t) \/ Release(t) \/ ReleaseFails(t)
        PROVE  LeaseInv'
    BY <1>7 DEF Unacknowledged, Release, ReleaseFails, Goto, Retained
  <1>8. ASSUME NEW d \in Drivers, ClearCache(d) PROVE LeaseInv'
    BY <1>8 DEF ClearCache
  <1>9. ASSUME NEW d \in Drivers, DriverDies(d) PROVE LeaseInv'
    BY <1>9 DEF DriverDies
  <1>10. CASE BreakLease BY <1>10 DEF BreakLease
  <1>. QED BY <1>1, <1>2, <1>3, <1>4, <1>5, <1>6, <1>7, <1>8, <1>9, <1>10
           DEF LogNext, LogStep, Storage

(* Only the lease service's answer makes an idle thread busy with a        *)
(* transaction.                                                            *)
LEMMA StaysIdle ==
    ASSUME IInv, NEW t \in Threads,
           \/ Look(t) \/ LogStep(t) \/ Storage(t)
           \/ PutNothing(t, "returned") \/ PutNothing(t, "raised")
           \/ \E batch \in Batches : Put(t, batch),
           NEW u \in Threads, phase[u] = "idle"
    PROVE  phase'[u] = "idle"
  <1>. USE DEF IInv, LogTypeOK, Goto
  <1>1. CASE Look(t) \/ Storage(t) BY <1>1 DEF Look, Storage, Lands, IsLost
  <1>2. CASE Read(t) BY <1>2 DEF Read
  <1>3. CASE Remember(t) BY <1>3 DEF Remember
  <1>4. CASE \/ SendAppend(t) \/ CheckFails(t) \/ Acknowledged(t)
             \/ PutNothing(t, "returned") \/ PutNothing(t, "raised")
             \/ \E batch \in Batches : Put(t, batch)
    <2>1. phase[t] # "idle" /\ \E to \in LogPhases : phase' = [phase EXCEPT ![t] = to]
      BY <1>4 DEF SendAppend, CheckFails, Acknowledged, PutNothing, Put, LogPhases
    <2>. QED BY <2>1
  <1>5. CASE Unacknowledged(t) \/ Release(t) \/ ReleaseFails(t)
    BY <1>5 DEF Unacknowledged, Release, ReleaseFails
  <1>. QED BY <1>1, <1>2, <1>3, <1>4, <1>5 DEF LogStep

LEMMA QuietInvInductive ==
    /\ Init => QuietInv
    /\ IInv /\ QuietInv /\ [Next]_vars => QuietInv'
  <1>1. Init => QuietInv
    BY LeaseAssumption DEF Init, LogInit, QuietInv, LeaseInv, BusyInv, WorkInv, OrchPhases
  <1>. SUFFICES ASSUME IInv, QuietInv, [Next]_vars PROVE QuietInv' BY <1>1
  <1>2. LeaseInv' BY LeaseKept, RunStepIsLogStep DEF QuietInv
  <1>3. CASE UNCHANGED vars
    BY <1>2, <1>3 DEF vars, logVars, runVars, QuietInv, BusyInv, WorkInv
  <1>4. ASSUME NEW d \in Orchestrators,
               \/ Enter(d) \/ EnterUnanswered(d) \/ StartFails(d) \/ Began(d)
               \/ LoopRaises(d) \/ Close(d) \/ Finished(d) \/ FinishRaises(d)
               \/ Retain(d) \/ Leave(d)
        PROVE  QuietInv'
    <2>1. UNCHANGED <<phase, busy>>
      <3>1. CASE Retain(d) \/ Leave(d)
        <4>1. \E left : Leaves(d, left) BY <3>1 DEF Retain, Leave
        <4>. QED BY <4>1 DEF Leaves
      <3>. QED BY <1>4, <3>1 DEF Enter, EnterUnanswered, StartFails, Began, LoopRaises, Close,
                                 Finished, FinishRaises, logVars
    <2>2. \E to \in OrchPhases : orch' = [orch EXCEPT ![d] = to]
      <3>1. CASE Enter(d) \/ EnterUnanswered(d) \/ StartFails(d) \/ LoopRaises(d) \/ Close(d)
        BY <3>1 DEF Enter, EnterUnanswered, StartFails, LoopRaises, Close, To, OrchPhases,
                    QuietInv
      <3>2. CASE Began(d) \/ Finished(d) \/ FinishRaises(d)
        BY <3>2 DEF Began, Finished, FinishRaises, To, OrchPhases
      <3>3. CASE Retain(d) \/ Leave(d)
        BY <3>3 DEF Retain, Leave, Leaves, To, OrchPhases
      <3>. QED BY <1>4, <3>1, <3>2, <3>3
    <2>3. /\ orch' \in [Orchestrators -> OrchPhases]
          /\ \A e \in Orchestrators \ {d} : orch'[e] = orch[e]
      BY <2>2 DEF QuietInv
    <2>4. orch'[d] \in Waiting \/ orch[d] \notin Waiting \/ MainIdle(d)
      <3>1. CASE Enter(d) \/ EnterUnanswered(d) \/ StartFails(d)
        BY <3>1 DEF Enter, EnterUnanswered, StartFails, Waiting
      <3>2. CASE Began(d) \/ LoopRaises(d) \/ Close(d) \/ Finished(d) \/ FinishRaises(d)
        BY <3>2 DEF Began, LoopRaises, Close, Finished, FinishRaises
      <3>3. CASE Retain(d) \/ Leave(d) BY <3>3 DEF Retain, Leave, Waiting
      <3>. QED BY <1>4, <3>1, <3>2, <3>3
    <2>5. \/ orch'[d] \in {"running", "aborting"}
          \/ orch[d] \notin {"running", "aborting"}
          \/ \A t \in Pool(d) : t \notin busy
      <3>1. CASE Enter(d) \/ EnterUnanswered(d) \/ StartFails(d) \/ Close(d)
        BY <3>1 DEF Enter, EnterUnanswered, StartFails, Close
      <3>2. CASE Began(d) \/ Finished(d) \/ FinishRaises(d)
        BY <3>2 DEF Began, Finished, FinishRaises
      <3>3. CASE LoopRaises(d) BY <3>3 DEF LoopRaises, To, QuietInv
      <3>4. CASE Retain(d) \/ Leave(d) BY <3>4 DEF Retain, Leave
      <3>. QED BY <1>4, <3>1, <3>2, <3>3, <3>4
    <2>6. BusyInv' BY <2>1, <2>3, <2>5 DEF QuietInv, BusyInv, Pool
    <2>7. WorkInv' BY <2>1, <2>3, <2>4 DEF QuietInv, WorkInv, MainIdle
    <2>. QED BY <1>2, <2>3, <2>6, <2>7 DEF QuietInv
  <1>5. ASSUME NEW d \in Orchestrators, Start(d) PROVE QuietInv'
    <2>1. /\ UNCHANGED <<phase, busy>> /\ orch[d] = "entered"
          /\ orch' = [orch EXCEPT ![d] = "beginning"]
      BY <1>5 DEF Start, ClearCache, To
    <2>. QED BY <1>2, <2>1 DEF QuietInv, BusyInv, WorkInv, Waiting, OrchPhases
  <1>6. ASSUME NEW d \in Orchestrators, NEW t \in Threads, Dispatch(d, t) PROVE QuietInv'
    BY <1>2, <1>6 DEF Dispatch, Pool, logVars, QuietInv, BusyInv, WorkInv
  <1>7. ASSUME NEW t \in Threads, AttemptEnds(t) PROVE QuietInv'
    BY <1>2, <1>7 DEF AttemptEnds, logVars, QuietInv, BusyInv, WorkInv
  <1>8. ASSUME UNCHANGED <<orch, busy>>,
               \A u \in Threads : phase[u] = "idle" => phase'[u] = "idle"
        PROVE  QuietInv'
    BY <1>2, <1>8 DEF QuietInv, BusyInv, WorkInv
  <1>9. ASSUME NEW d \in Orchestrators, BeginRun(d) PROVE QuietInv'
    <2>1. PutNothing(Main[d], "raised") \/ Put(Main[d], <<"begin", "plan">>)
      BY <1>9 DEF BeginRun
    <2>2. UNCHANGED <<orch, busy>> BY <1>9 DEF BeginRun
    <2>. QED BY <1>8, <2>1, <2>2, StaysIdle, MainThread, RunBatchAssumption
  <1>10. ASSUME NEW d \in Orchestrators, NEW t \in Threads, Work(d, t) PROVE QuietInv'
    <2>1. PutNothing(t, "raised") \/ Put(t, <<"work">>) BY <1>10 DEF Work
    <2>2. UNCHANGED <<orch, busy>> BY <1>10 DEF Work, runVars
    <2>. QED BY <1>8, <2>1, <2>2, StaysIdle, RunBatchAssumption
  <1>11. ASSUME NEW d \in Orchestrators, FinishRun(d) PROVE QuietInv'
    <2>1. \/ PutNothing(Main[d], "raised")
          \/ Put(Main[d], <<"finish">>) \/ Put(Main[d], <<"hold">>)
      BY <1>11 DEF FinishRun
    <2>2. \A u \in Threads : phase[u] = "idle" => phase'[u] = "idle"
      BY <2>1, StaysIdle, MainThread, RunBatchAssumption
    <2>3. /\ orch[d] = "closing" /\ UNCHANGED busy
          /\ \E to \in {"finishing", "holding"} : orch' = [orch EXCEPT ![d] = to]
      BY <1>11 DEF FinishRun, To
    <2>. QED BY <1>2, <2>2, <2>3 DEF QuietInv, BusyInv, WorkInv, Waiting, OrchPhases
  <1>12. ASSUME NEW d \in Orchestrators, OrchestratorDies(d) PROVE QuietInv'
    <2>1. /\ phase' = [t \in Threads |-> IF DriverOf[t] = d THEN "idle" ELSE phase[t]]
          /\ orch' = [orch EXCEPT ![d] = "out"] /\ busy' = busy \ Pool(d)
      BY <1>12 DEF OrchestratorDies, DriverDies, To
    <2>. QED BY <1>2, <2>1 DEF QuietInv, BusyInv, WorkInv, Pool, OrchPhases
  <1>13. ASSUME NEW t \in Threads, Opens(t) PROVE QuietInv'
    <2>1. /\ UNCHANGED <<orch, busy>> /\ MayOpen(t)
          /\ \A u \in Threads \ {t} : phase'[u] = phase[u]
      BY <1>13 DEF Opens, Acquire, AcquireUnanswered, AcquireRefused, Goto, runVars, IInv,
                   LogTypeOK
    <2>2. ASSUME NEW d \in Orchestrators, DriverOf[t] = d
          PROVE  \/ t = Main[d] /\ orch[d] \in Waiting
                 \/ t # Main[d] /\ t \in busy
      BY <2>1, <2>2, OrchestratorAssumption, DeskAssumption, ChildAssumption
         DEF MayOpen, Pool, Waiting
    <2>. QED BY <1>2, <2>1, <2>2 DEF QuietInv, BusyInv, WorkInv
  <1>14. ASSUME NEW t \in Threads, Looks(t) \/ Transacts(t) PROVE QuietInv'
    <2>1. Look(t) \/ LogStep(t) \/ Storage(t) BY <1>14 DEF Looks, Transacts
    <2>2. UNCHANGED <<orch, busy>> BY <1>14 DEF Looks, Transacts, runVars
    <2>. QED BY <1>8, <2>1, <2>2, StaysIdle
  <1>15. CASE BreakControlLease \/ BreakRunLease
    BY <1>8, <1>15 DEF BreakControlLease, BreakRunLease, BreakLease, runVars, logVars
  <1>16. CASE Reconcile
    <2>1. PutNothing(Desk, "raised") \/ Put(Desk, <<"settle">>) BY <1>16 DEF Reconcile
    <2>2. UNCHANGED <<orch, busy>> BY <1>16 DEF Reconcile, runVars
    <2>. QED BY <1>8, <2>1, <2>2, StaysIdle, DeskAssumption, RunBatchAssumption
  <1>17. CASE DeskDies
    BY <1>8, <1>17 DEF DeskDies, DriverDies, runVars
  <1>18. ASSUME NEW d \in Orchestrators, NEW c \in Children, Launch(d, c) PROVE QuietInv'
    BY <1>2, <1>18, ChildAssumption DEF Launch, logVars, QuietInv, BusyInv, WorkInv
  <1>19. ASSUME NEW c \in Children, ChildWork(c) PROVE QuietInv'
    <2>1. PutNothing(c, "raised") \/ Put(c, <<"work">>) BY <1>19 DEF ChildWork
    <2>2. UNCHANGED <<orch, busy>> BY <1>19 DEF ChildWork, runVars
    <2>. QED BY <1>8, <2>1, <2>2, StaysIdle, ChildAssumption, RunBatchAssumption
  <1>20. ASSUME NEW c \in Children, ChildEnds(c) PROVE QuietInv'
    <2>1. /\ \A t \in Threads : phase'[t] = phase[t] \/ phase'[t] = "idle"
          /\ busy' = busy \ {c} /\ UNCHANGED orch
      BY <1>20 DEF ChildEnds, DriverDies
    <2>. QED BY <1>2, <2>1, ChildAssumption DEF QuietInv, BusyInv, WorkInv
  <1>. QED BY <1>3, <1>4, <1>5, <1>6, <1>7, <1>9, <1>10, <1>11, <1>12, <1>13, <1>14, <1>15, <1>16,
              <1>17, <1>18, <1>19, <1>20 DEF Next

LEMMA QuietHolds == Spec => [](IInv /\ QuietInv)
  <1>1. Init => IInv /\ QuietInv BY InitInvariant, QuietInvInductive DEF Init
  <1>2. IInv /\ QuietInv /\ [Next]_vars => IInv' /\ QuietInv'
    BY RunStepIsLogStep, StepInvariant, QuietInvInductive
  <1>. QED BY <1>1, <1>2, PTL DEF Spec

(* Orchestrators, their threads, their children and the operator use the   *)
(* Delta log only as its specification allows.                             *)
THEOREM RunsUseTheLog == Spec => LogSpec
  <1>1. Init => LogInit BY DEF Init
  <1>. QED BY <1>1, QuietHolds, RunStepIsLogStep, PTL DEF Spec, LogSpec

(* With any number of orchestrators contending, dying and being recovered, *)
(* the log has neither gap nor duplicate (DeltaEvents.transaction).        *)
THEOREM SharedLogIsGapless == Spec => []Gapless
  BY RunsUseTheLog, LogIsGapless, PTL

(* Every driver remembers a prefix of the shared history                   *)
(* (DeltaEvents.events, DeltaEvents._remember).                            *)
THEOREM SharedCachesFollow == Spec => []CachesArePrefixes
  BY RunsUseTheLog, CachesFollowTheLog, PTL

(* Every commit of a run or of the operator extends exactly the history it *)
(* was decided on (DeltaEvents.transaction).                               *)
THEOREM RunsRefineTheLog == Spec => ImplementsEventLog
  BY RunsUseTheLog, LogRefines, PTL

(* No thread of an orchestrator that has left is still at work (its remote *)
(* children may be), and an append it left behind cannot meet another      *)
(* writer (DispatchSession.__exit__, DeltaEvents.transaction).             *)
THEOREM OrchestratorsLeaveQuiet == Spec => []LeftQuiet
  <1>1. IInv /\ QuietInv => LeftQuiet
    <2>. SUFFICES ASSUME IInv, QuietInv, NEW d \in Orchestrators, orch[d] = "out",
                         NEW t \in Threads, DriverOf[t] = d
                  PROVE  /\ t \notin busy /\ phase[t] = "idle"
                         /\ write[t] = "sent" => lease = Orphan
      BY DEF LeftQuiet
    <2>1. t \notin busy /\ phase[t] = "idle"
      BY DEF QuietInv, BusyInv, WorkInv, Waiting
    <2>2. write[t] = "sent" => lease = Orphan
      BY <2>1, LeaseAssumption DEF IInv, WriterInv, QuietInv, LeaseInv
    <2>. QED BY <2>1, <2>2
  <1>. QED BY <1>1, QuietHolds, PTL
-----------------------------------------------------------------------------
(* Histories: what an append changes of the runs they tell of. *)

StatusKinds == {"begin", "finish", "hold", "settle"}

LEMMA Extension ==
    ASSUME NEW rows \in Seq(Row), NEW more \in Seq(Row)
    PROVE  /\ rows \o more \in Seq(Row)
           /\ Len(rows \o more) = Len(rows) + Len(more)
           /\ \A i \in 1..Len(rows) : (rows \o more)[i] = rows[i]
           /\ \A i \in 1..Len(more) : (rows \o more)[Len(rows) + i] = more[i]
  OBVIOUS

LEMMA PrefixSame ==
    ASSUME NEW rows \in Seq(Row), NEW more \in Seq(Row), NEW n \in 0..Len(rows)
    PROVE  SubSeq(rows \o more, 1, n) = SubSeq(rows, 1, n)
  <1>1. /\ SubSeq(rows, 1, n) \in Seq(Row) /\ SubSeq(rows \o more, 1, n) \in Seq(Row)
        /\ Len(SubSeq(rows, 1, n)) = n /\ Len(SubSeq(rows \o more, 1, n)) = n
        /\ \A i \in 1..n : SubSeq(rows, 1, n)[i] = SubSeq(rows \o more, 1, n)[i]
    BY Extension
  <1>. QED BY <1>1, SeqEqual

LEMMA WholePrefix ==
    ASSUME NEW rows \in Seq(Row)
    PROVE  SubSeq(rows, 1, Len(rows)) = rows
  <1>1. /\ SubSeq(rows, 1, Len(rows)) \in Seq(Row)
        /\ Len(SubSeq(rows, 1, Len(rows))) = Len(rows)
        /\ \A i \in 1..Len(rows) : SubSeq(rows, 1, Len(rows))[i] = rows[i]
    OBVIOUS
  <1>. QED BY <1>1, SeqEqual

LEMMA StatusAfter ==
    ASSUME NEW rows \in Seq(Row), NEW row \in Row, row.kind \in StatusKinds
    PROVE  RunStatus(rows \o <<row>>) = row.kind
  <1> DEFINE ext == rows \o <<row>>
  <1>1. /\ DOMAIN ext = 1..(Len(rows) + 1) /\ ext[Len(rows) + 1] = row
        /\ Len(rows) \in Nat
    OBVIOUS
  <1> HIDE DEF ext
  <1>2. Len(rows) + 1 \in StatusRows(ext) /\ \A i \in StatusRows(ext) : i <= Len(rows) + 1
    BY <1>1 DEF StatusRows, StatusKinds
  <1>3. Max(StatusRows(ext)) = Len(rows) + 1
    <2>1. StatusRows(ext) \subseteq Int BY <1>1 DEF StatusRows
    <2>. QED BY <1>2, <2>1 DEF Max
  <1>4. RunStatus(ext) = row.kind BY <1>1, <1>2, <1>3 DEF RunStatus
  <1>. QED BY <1>4 DEF ext

LEMMA CountIsNat ==
    ASSUME NEW rows \in Seq(Row)
    PROVE  RunCount(rows) \in Nat
  <1>1. Beginnings(rows) \subseteq 1..Len(rows) BY DEF Beginnings
  <1>2. IsFiniteSet(1..Len(rows)) BY FS_Interval
  <1>3. IsFiniteSet(Beginnings(rows)) BY <1>1, <1>2, FS_Subset
  <1>. QED BY <1>3, FS_CardinalityType DEF RunCount

(* The driver d began the latest run of the rows. *)
Owned(rows, d) ==
    /\ Max(Beginnings(rows)) \in Beginnings(rows)
    /\ DriverOf[rows[Max(Beginnings(rows))].by] = d

LEMMA OwnedAfter ==
    ASSUME NEW rows \in Seq(Row), NEW row \in Row, row.kind = "begin"
    PROVE  Owned(rows \o <<row>>, DriverOf[row.by])
  <1> DEFINE ext == rows \o <<row>>
  <1>1. /\ DOMAIN ext = 1..(Len(rows) + 1) /\ ext[Len(rows) + 1] = row
        /\ Len(rows) \in Nat
    OBVIOUS
  <1> HIDE DEF ext
  <1>2. Len(rows) + 1 \in Beginnings(ext) /\ \A i \in Beginnings(ext) : i <= Len(rows) + 1
    BY <1>1 DEF Beginnings
  <1>3. Max(Beginnings(ext)) = Len(rows) + 1
    <2>1. Beginnings(ext) \subseteq Int BY <1>1 DEF Beginnings
    <2>. QED BY <1>2, <2>1 DEF Max
  <1>4. Owned(ext, DriverOf[row.by]) BY <1>1, <1>2, <1>3 DEF Owned
  <1>. QED BY <1>4 DEF ext

(* The run number mine[d] of the log is one that d began. *)
Owns(d) ==
    \E i \in Beginnings(table) :
        /\ DriverOf[table[i].by] = d
        /\ Cardinality({j \in Beginnings(table) : j <= i}) = mine[d]

LEMMA OwnedIs ==
    ASSUME table \in Seq(Row), NEW d, Owns(d), RunCount(table) = mine[d]
    PROVE  Owned(table, d)
  <1>1. PICK i \in Beginnings(table) :
            /\ DriverOf[table[i].by] = d
            /\ Cardinality({j \in Beginnings(table) : j <= i}) = mine[d]
    BY DEF Owns
  <1>2. Beginnings(table) \subseteq 1..Len(table) /\ IsFiniteSet(1..Len(table))
        /\ Len(table) \in Nat
    BY FS_Interval DEF Beginnings
  <1>3. IsFiniteSet(Beginnings(table)) BY <1>2, FS_Subset
  <1>4. {j \in Beginnings(table) : j <= i} = Beginnings(table)
    BY <1>1, <1>3, FS_Subset DEF RunCount
  <1>5. \A j \in Beginnings(table) : j \in Int /\ j <= i BY <1>2, <1>4
  <1>6. Max(Beginnings(table)) = i BY <1>5 DEF Max
  <1>. QED BY <1>1, <1>6 DEF Owned

LEMMA OwnsSome ==
    ASSUME table \in Seq(Row), NEW d, Owns(d)
    PROVE  mine[d] # 0
  <1>1. PICK i \in Beginnings(table) :
            Cardinality({j \in Beginnings(table) : j <= i}) = mine[d]
    BY DEF Owns
  <1> DEFINE upto == {j \in Beginnings(table) : j <= i}
  <1>2. Beginnings(table) \subseteq 1..Len(table) /\ IsFiniteSet(1..Len(table))
        /\ Len(table) \in Nat
    BY FS_Interval DEF Beginnings
  <1>3. IsFiniteSet(upto) /\ i \in upto
    <2>1. i \in Int /\ upto \subseteq 1..Len(table) BY <1>1, <1>2
    <2>. QED BY <1>1, <1>2, <2>1, FS_Subset
  <1>. QED BY <1>1, <1>3, FS_EmptySet

LEMMA OwnsKept ==
    ASSUME table \in Seq(Row), NEW more \in Seq(Row), table' = table \o more,
           NEW d, mine'[d] = mine[d], Owns(d)
    PROVE  Owns(d)'
  <1>1. PICK i \in Beginnings(table) :
            /\ DriverOf[table[i].by] = d
            /\ Cardinality({j \in Beginnings(table) : j <= i}) = mine[d]
    BY DEF Owns
  <1>2. /\ DOMAIN table = 1..Len(table) /\ DOMAIN table' = 1..(Len(table) + Len(more))
        /\ \A j \in 1..Len(table) : table'[j] = table[j]
        /\ Len(table) \in Nat /\ Len(more) \in Nat
    OBVIOUS
  <1>3. i \in Beginnings(table)' /\ i \in 1..Len(table) BY <1>2 DEF Beginnings
  <1>4. {j \in Beginnings(table)' : j <= i} = {j \in Beginnings(table) : j <= i}
    BY <1>2, <1>3 DEF Beginnings
  <1>. QED BY <1>1, <1>2, <1>3, <1>4 DEF Owns

LEMMA OwnsBegun ==
    ASSUME table \in Seq(Row), NEW more \in Seq(Row), table' = table \o more, more # << >>,
           more[1].kind = "begin", \A i \in 2..Len(more) : more[i].kind # "begin",
           NEW d, DriverOf[more[1].by] = d, mine'[d] = RunCount(table) + 1
    PROVE  Owns(d)'
  <1>1. /\ DOMAIN table = 1..Len(table) /\ DOMAIN table' = 1..(Len(table) + Len(more))
        /\ \A j \in 1..Len(table) : table'[j] = table[j]
        /\ Len(table) \in Nat /\ Len(more) \in Nat /\ Len(more) > 0
        /\ table'[Len(table) + 1] = more[1]
    OBVIOUS
  <1> DEFINE i == Len(table) + 1
  <1>2. i \in Beginnings(table)' BY <1>1 DEF Beginnings
  <1>3. {j \in Beginnings(table)' : j <= i} = Beginnings(table) \cup {i}
    BY <1>1 DEF Beginnings
  <1>4. i \notin Beginnings(table) /\ Beginnings(table) \subseteq 1..Len(table)
    BY <1>1 DEF Beginnings
  <1>5. IsFiniteSet(Beginnings(table))
    <2>1. IsFiniteSet(1..Len(table)) BY <1>1, FS_Interval
    <2>. QED BY <1>4, <2>1, FS_Subset
  <1>6. Cardinality(Beginnings(table) \cup {i}) = RunCount(table) + 1
    BY <1>4, <1>5, FS_AddElement DEF RunCount
  <1>. QED BY <1>1, <1>2, <1>3, <1>6 DEF Owns
-----------------------------------------------------------------------------
(* Appends: what is on its way is what the history it was decided on       *)
(* allows, so that runs are serial again once it has landed.               *)

Decided(t) ==
    \/ /\ pending[t] = Numbered(t, <<"begin", "plan">>, Len(history[t]))
       /\ ~Open(history[t]) /\ t \notin Children
    \/ /\ \E kind \in {"work", "finish", "hold"} :
              pending[t] = Numbered(t, <<kind>>, Len(history[t]))
       /\ RunStatus(history[t]) = "begin" /\ Owned(history[t], DriverOf[t])
       /\ t \notin Children
    \/ /\ pending[t] = Numbered(t, <<"work">>, Len(history[t]))
       /\ RunStatus(history[t]) = "begin"
       /\ t \in Children /\ serves[t] # 0 /\ serves[t] = RunCount(history[t])
    \/ /\ pending[t] = Numbered(t, <<"settle">>, Len(history[t]))
       /\ Open(history[t])

InFlight(t) == phase[t] \in {"checking", "writing"} \/ write[t] = "sent"

DecidedInv == \A t \in Threads : InFlight(t) => Decided(t)

(* The run numbers "given" are those the contexts of the children name.    *)
SerialRow(before, row, given) ==
    /\ row.kind = "begin" => ~Open(before)
    /\ row.kind = "settle" => Open(before)
    /\ row.kind \notin {"begin", "settle"} =>
           /\ RunStatus(before) = "begin"
           /\ row.by \notin Children => Owned(before, DriverOf[row.by])
           /\ row.by \in Children => /\ row.kind = "work" /\ given[row.by] # 0
                                     /\ given[row.by] = RunCount(before)

SerialInv == \A i \in DOMAIN table : SerialRow(SubSeq(table, 1, i - 1), table[i], serves)

(* A context is given once. *)
ServesKept == \A c \in Children : serves[c] # 0 => serves'[c] = serves[c]

LEMMA SerialRows ==
    ASSUME table \in Seq(Row), SerialInv
    PROVE  RunsAreSerial
  <1>. SUFFICES ASSUME NEW i \in DOMAIN table
                PROVE  LET before == SubSeq(table, 1, i - 1)
                           owner  == DriverOf[table[Max(Beginnings(before))].by]
                           by     == table[i].by
                       IN  CASE table[i].kind = "begin"  -> ~Open(before)
                             [] table[i].kind = "settle" -> Open(before)
                             [] OTHER -> /\ RunStatus(before) = "begin"
                                         /\ IF by \in Children
                                              THEN /\ table[i].kind = "work"
                                                   /\ serves[by] = RunCount(before)
                                              ELSE DriverOf[by] = owner
    BY Zenon DEF RunsAreSerial
  <1> DEFINE before == SubSeq(table, 1, i - 1)
             first == Max(Beginnings(before))
  <1>1. SerialRow(before, table[i], serves) BY DEF SerialInv
  <1>2. \A b \in DOMAIN before : before[b] = table[b] OBVIOUS
  <1>3. CASE table[i].kind = "begin" BY <1>1, <1>3 DEF SerialRow
  <1>4. CASE table[i].kind = "settle" BY <1>1, <1>4 DEF SerialRow
  <1>5. CASE table[i].kind \notin {"begin", "settle"} /\ table[i].by \notin Children
    <2>1. RunStatus(before) = "begin" /\ Owned(before, DriverOf[table[i].by])
      BY <1>1, <1>5 DEF SerialRow
    <2>2. first \in DOMAIN before BY <2>1 DEF Owned, Beginnings
    <2>3. DriverOf[table[first].by] = DriverOf[table[i].by] BY <1>2, <2>1, <2>2 DEF Owned
    <2>. QED BY <1>5, <2>1, <2>3
  <1>6. CASE table[i].kind \notin {"begin", "settle"} /\ table[i].by \in Children
    BY <1>1, <1>6 DEF SerialRow
  <1>. QED BY <1>3, <1>4, <1>5, <1>6

LEMMA NumberedRows ==
    ASSUME NEW t \in Threads, NEW after \in Nat, NEW batch \in Batches
    PROVE  /\ Numbered(t, batch, after) \in Seq(Row)
           /\ Len(Numbered(t, batch, after)) = Len(batch)
           /\ \A i \in 1..Len(batch) : /\ Numbered(t, batch, after)[i].kind = batch[i]
                                       /\ Numbered(t, batch, after)[i].by = t
  <1>1. batch \in Seq(STRING) BY BatchAssumption
  <1>2. \A i \in 1..Len(batch) : [sequence |-> after + i, kind |-> batch[i], by |-> t] \in Row
    BY <1>1 DEF Row
  <1>. QED BY <1>1, <1>2 DEF Numbered

LEMMA SerialKept ==
    ASSUME IInv, SerialInv, NEW t \in Threads, Decided(t), history[t] = table,
           table' = table \o pending[t], ServesKept
    PROVE  SerialInv'
  <1> DEFINE more == pending[t]
  <1>1. /\ table \in Seq(Row) /\ more \in Seq(Row) /\ Len(table) \in Nat
        /\ \A i \in DOMAIN table : SerialRow(SubSeq(table, 1, i - 1), table[i], serves)
    BY DEF IInv, LogTypeOK, SerialInv
  <1>2. /\ DOMAIN table' = 1..(Len(table) + Len(more)) /\ DOMAIN table = 1..Len(table)
        /\ \A i \in 1..Len(table) : table'[i] = table[i]
        /\ \A i \in 1..Len(more) : table'[Len(table) + i] = more[i]
    BY <1>1, Extension
  <1>3. \A n \in 0..Len(table) : SubSeq(table', 1, n) = SubSeq(table, 1, n)
    BY <1>1, PrefixSame
  <1>4. SubSeq(table', 1, Len(table)) = table BY <1>1, <1>3, WholePrefix
  <1>5. \A i \in DOMAIN table : SerialRow(SubSeq(table', 1, i - 1), table'[i], serves')
    <2>. SUFFICES ASSUME NEW i \in DOMAIN table
                  PROVE  SerialRow(SubSeq(table', 1, i - 1), table'[i], serves')
      OBVIOUS
    <2>1. i - 1 \in 0..Len(table) /\ table'[i] = table[i] BY <1>1, <1>2
    <2>2. SubSeq(table', 1, i - 1) = SubSeq(table, 1, i - 1) BY <1>3, <2>1
    <2>3. SerialRow(SubSeq(table, 1, i - 1), table[i], serves) BY <1>1
    <2>. QED BY <2>1, <2>2, <2>3 DEF SerialRow, ServesKept
  <1>6. CASE Len(more) = 1 /\ SerialRow(table, more[1], serves')
    <2>1. \A i \in DOMAIN table' : i \in DOMAIN table \/ i = Len(table) + 1
      BY <1>1, <1>2, <1>6
    <2>2. SerialRow(SubSeq(table', 1, Len(table) + 1 - 1), table'[Len(table) + 1], serves')
      <3>1. Len(table) + 1 - 1 = Len(table) /\ table'[Len(table) + 1] = more[1]
        BY <1>1, <1>2, <1>6
      <3>. QED BY <1>4, <1>6, <3>1
    <2>3. \A i \in DOMAIN table' : SerialRow(SubSeq(table', 1, i - 1), table'[i], serves')
      BY <1>5, <2>1, <2>2
    <2>. QED BY <2>3 DEF SerialInv
  <1>7. CASE /\ more = Numbered(t, <<"begin", "plan">>, Len(table))
            /\ ~Open(table) /\ t \notin Children
    <2>1. /\ Len(more) = 2 /\ more[1].kind = "begin" /\ more[1].by = t
          /\ more[2].kind = "plan" /\ more[2].by = t /\ more[1] \in Row
      <3>1. <<"begin", "plan">> \in Batches BY RunBatchAssumption
      <3>2. /\ Len(more) = 2 /\ more[1].kind = "begin" /\ more[1].by = t
            /\ more[2].kind = "plan" /\ more[2].by = t
        BY <1>1, <1>7, <3>1, NumberedRows
      <3>. QED BY <1>1, <3>2
    <2>2. SubSeq(table', 1, Len(table) + 1) = table \o <<more[1]>>
      <3>1. /\ table \o <<more[1]>> \in Seq(Row) /\ SubSeq(table', 1, Len(table) + 1) \in Seq(Row)
        BY <1>1, <1>2, <2>1
      <3>2. /\ Len(table \o <<more[1]>>) = Len(table) + 1
            /\ Len(SubSeq(table', 1, Len(table) + 1)) = Len(table) + 1
        BY <1>1, <1>2, <2>1
      <3>3. \A i \in 1..(Len(table) + 1) :
               SubSeq(table', 1, Len(table) + 1)[i] = (table \o <<more[1]>>)[i]
        BY <1>1, <1>2, <2>1
      <3>. QED BY <3>1, <3>2, <3>3, SeqEqual
    <2>3. /\ RunStatus(table \o <<more[1]>>) = "begin"
          /\ Owned(table \o <<more[1]>>, DriverOf[t])
      BY <1>1, <2>1, StatusAfter, OwnedAfter DEF StatusKinds
    <2>4. table'[Len(table) + 1] = more[1] /\ table'[Len(table) + 2] = more[2]
      BY <1>1, <1>2, <2>1
    <2>5. SerialRow(SubSeq(table', 1, Len(table)), table'[Len(table) + 1], serves')
      BY <1>4, <1>7, <2>1, <2>4 DEF SerialRow
    <2>6. SerialRow(SubSeq(table', 1, Len(table) + 1), table'[Len(table) + 2], serves')
      BY <1>7, <2>1, <2>2, <2>3, <2>4 DEF SerialRow
    <2>7. \A i \in DOMAIN table' :
             i \in DOMAIN table \/ i - 1 = Len(table) \/ i - 1 = Len(table) + 1
      BY <1>1, <1>2, <2>1
    <2>8. \A i \in DOMAIN table' : SerialRow(SubSeq(table', 1, i - 1), table'[i], serves')
      <3>. SUFFICES ASSUME NEW i \in DOMAIN table'
                    PROVE  SerialRow(SubSeq(table', 1, i - 1), table'[i], serves')
        OBVIOUS
      <3>1. CASE i \in DOMAIN table BY <1>5, <3>1
      <3>2. CASE i - 1 = Len(table)
        <4>1. i = Len(table) + 1 BY <1>1, <1>2, <3>2
        <4>. QED BY <2>5, <3>2, <4>1
      <3>3. CASE i - 1 = Len(table) + 1
        <4>1. i = Len(table) + 2 BY <1>1, <1>2, <3>3
        <4>. QED BY <2>6, <3>3, <4>1
      <3>. QED BY <2>7, <3>1, <3>2, <3>3
    <2>. QED BY <2>8 DEF SerialInv
  <1>8. ASSUME NEW kind \in {"work", "finish", "hold", "settle"},
               more = Numbered(t, <<kind>>, Len(table))
        PROVE  Len(more) = 1 /\ more[1].kind = kind /\ more[1].by = t
    <2>1. <<kind>> \in Batches BY RunBatchAssumption
    <2>. QED BY <1>1, <1>8, <2>1, NumberedRows
  <1>9. CASE \E kind \in {"work", "finish", "hold"} :
                more = Numbered(t, <<kind>>, Len(table))
                /\ RunStatus(table) = "begin" /\ Owned(table, DriverOf[t])
                /\ t \notin Children
    BY <1>6, <1>8, <1>9 DEF SerialRow
  <1>10. CASE more = Numbered(t, <<"settle">>, Len(table)) /\ Open(table)
    BY <1>6, <1>8, <1>10 DEF SerialRow
  <1>11. CASE /\ more = Numbered(t, <<"work">>, Len(table)) /\ RunStatus(table) = "begin"
              /\ t \in Children /\ serves[t] # 0 /\ serves[t] = RunCount(table)
    BY <1>6, <1>8, <1>11 DEF SerialRow, ServesKept
  <1>. QED BY <1>7, <1>9, <1>10, <1>11 DEF Decided
-----------------------------------------------------------------------------
(* What a step of the log does to one thread. *)

(* The outcome of a transaction is not known before it has ended. *)
Fresh(t) == phase[t] \in {"locked", "acting", "checking", "writing"} => outcome[t] = "none"

Effect(t) ==
    /\ Fresh(t)'
    /\ InFlight(t)' =>
           /\ history'[t] = history[t]
           /\ \/ InFlight(t) /\ pending'[t] = pending[t]
              \/ phase[t] = "acting" /\ phase'[t] = "checking"
    /\ phase'[t] \in {"checking", "writing"} =>
           phase[t] \in {"checking", "writing"} \/ (phase[t] = "acting" /\ phase'[t] = "checking")
    /\ write'[t] = "landed" =>
           \/ write[t] = "landed"
           \/ write[t] = "sent" /\ phase[t] = "writing" /\ table' = table \o pending[t]
    /\ outcome'[t] = "returned" =>
           \/ outcome[t] = "returned"
           \/ phase[t] = "writing" /\ write[t] = "landed" /\ Acknowledged(t)

LEMMA ThreadEffect ==
    ASSUME IInv, LogUse, NEW u \in Threads, Fresh(u)
    PROVE  Effect(u)
  <1>. USE DEF IInv, LogTypeOK, Effect, InFlight, Goto, Ends, Fresh
  <1>1. ASSUME NEW t \in Threads, Acquire(t) \/ AcquireUnanswered(t) \/ AcquireRefused(t)
        PROVE  Effect(u)
    BY <1>1 DEF Acquire, AcquireUnanswered, AcquireRefused
  <1>2. ASSUME NEW t \in Threads, Look(t) PROVE Effect(u)
    BY <1>2 DEF Look
  <1>3. ASSUME NEW t \in Threads, PutNothing(t, "raised") \/ CheckFails(t) PROVE Effect(u)
    BY <1>3 DEF PutNothing, CheckFails
  <1>4. ASSUME NEW t \in Threads, NEW batch \in Batches, Put(t, batch) PROVE Effect(u)
    <2>1. CASE u = t BY <1>4, <2>1 DEF Put, WriterInv
    <2>2. CASE u # t BY <1>4, <2>2 DEF Put
    <2>. QED BY <2>1, <2>2
  <1>5. ASSUME NEW t \in Threads, Read(t) PROVE Effect(u)
    <2>1. CASE u = t BY <1>5, <2>1 DEF Read, WriterInv
    <2>2. CASE u # t BY <1>5, <2>2 DEF Read
    <2>. QED BY <2>1, <2>2
  <1>6. ASSUME NEW t \in Threads, SendAppend(t) PROVE Effect(u)
    BY <1>6 DEF SendAppend
  <1>7. ASSUME NEW t \in Threads, Acknowledged(t) PROVE Effect(u)
    BY <1>7 DEF Acknowledged
  <1>8. ASSUME NEW t \in Threads, Unacknowledged(t) PROVE Effect(u)
    BY <1>8 DEF Unacknowledged, Forgets, Unsettled
  <1>9. ASSUME NEW t \in Threads, Remember(t) PROVE Effect(u)
    BY <1>9 DEF Remember
  <1>10. ASSUME NEW t \in Threads, Release(t) \/ ReleaseFails(t) PROVE Effect(u)
    BY <1>10 DEF Release, ReleaseFails, Forgets, WriterInv
  <1>11. ASSUME NEW t \in Threads, Lands(t) PROVE Effect(u)
    BY <1>11 DEF Lands, Forgets, InProgress, WriterInv
  <1>12. ASSUME NEW t \in Threads, IsLost(t) PROVE Effect(u)
    BY <1>12 DEF IsLost, Forgets, InProgress, WriterInv
  <1>13. ASSUME NEW d \in Drivers, ClearCache(d) PROVE Effect(u)
    BY <1>13 DEF ClearCache
  <1>14. ASSUME NEW d \in Drivers, DriverDies(d) PROVE Effect(u)
    BY <1>14 DEF DriverDies, Forgets, Unsettled
  <1>15. CASE BreakLease BY <1>15 DEF BreakLease
  <1>16. CASE UNCHANGED logVars BY <1>16 DEF logVars
  <1>. QED BY <1>1, <1>2, <1>3, <1>4, <1>5, <1>6, <1>7, <1>8, <1>9, <1>10, <1>11, <1>12, <1>13,
              <1>14, <1>15, <1>16 DEF LogUse, LogStep, Storage

LEMMA TableGrows ==
    ASSUME IInv, LogUse
    PROVE  \/ UNCHANGED table
           \/ \E t \in Threads : write[t] = "sent" /\ table' = table \o pending[t]
  <1>1. ASSUME NEW t \in Threads, Lands(t)
        PROVE  write[t] = "sent" /\ table' = table \o pending[t]
    BY <1>1 DEF Lands
  <1>2. ASSUME NEW t \in Threads,
               \/ Acquire(t) \/ AcquireUnanswered(t) \/ AcquireRefused(t) \/ Look(t)
               \/ PutNothing(t, "raised")
               \/ \E batch \in Batches : Put(t, batch)
               \/ LogStep(t) \/ IsLost(t)
        PROVE  UNCHANGED table
    BY <1>2, Zenon
       DEF Acquire, AcquireUnanswered, AcquireRefused, Look, PutNothing, Put, LogStep, IsLost,
           Read, SendAppend, CheckFails, Acknowledged, Unacknowledged, Remember, Release,
           ReleaseFails
  <1>3. ASSUME \E d \in Drivers : ClearCache(d) \/ DriverDies(d) PROVE UNCHANGED table
    BY <1>3 DEF ClearCache, DriverDies
  <1>4. CASE BreakLease \/ UNCHANGED logVars BY <1>4 DEF BreakLease, logVars
  <1>. QED BY <1>1, <1>2, <1>3, <1>4, Zenon DEF LogUse, Storage
-----------------------------------------------------------------------------
(* The orchestrators. *)

FreshInv == \A t \in Threads : Fresh(t)

(* Whoever is in Orchestrator.run holds the run lease. *)
EntryInv ==
    /\ runLease \in Orchestrators \cup {Free, Orphan}
    /\ mine \in [Orchestrators -> Nat]
    /\ \A d \in Orchestrators : orch[d] # "out" => runLease = d

(* What d knows of its run, by where it is. *)
BeginOK(d) ==
    orch[d] = "beginning" =>
        /\ phase[Main[d]] \in {"checking", "writing"} =>
               /\ pending[Main[d]][1].kind = "begin"
               /\ mine[d] = RunCount(history[Main[d]]) + 1
        /\ write[Main[d]] = "landed" \/ outcome[Main[d]] = "returned" => Owns(d)

KnownOK(d) == orch[d] \in {"running", "closing", "finishing", "holding", "aborting"} => Owns(d)

(* The run is closed, and nobody is about to write: a child may still open *)
(* a transaction, and is refused.                                          *)
Rests(d, t) ==
    IF t \in Children
      THEN phase[t] \in {"idle", "locked", "acting", "leaving"}
      ELSE phase[t] # "idle" => t = Main[d] /\ phase[t] \in {"remembering", "leaving"}

Alone(d) == ~Open(table) /\ \A t \in Threads : write[t] = "none" /\ Rests(d, t)

ClosingOK(d) ==
    /\ orch[d] = "finishing" =>
           /\ phase[Main[d]] \in {"checking", "writing"} => pending[Main[d]][1].kind = "finish"
           /\ write[Main[d]] = "landed" => ~Open(table)
           /\ outcome[Main[d]] = "returned" => Alone(d)
    /\ orch[d] = "closed" => Alone(d)

KnowledgeInv == \A d \in Orchestrators : BeginOK(d) /\ KnownOK(d) /\ ClosingOK(d)

(* A child is at work for a run that has begun. *)
ServesInv ==
    /\ serves \in [Children -> Nat]
    /\ \A c \in Children : c \in busy => serves[c] # 0

RunInv == EntryInv /\ FreshInv /\ DecidedInv /\ SerialInv /\ KnowledgeInv /\ ServesInv

LEMMA NotChild ==
    ASSUME NEW t \in Threads, DriverOf[t] \in Orchestrators
    PROVE  t \notin Children
  BY ChildAssumption

(* Nothing but a transaction of d itself can disturb a run that d closed.  *)
LEMMA AloneKept ==
    ASSUME IInv, QuietInv, EntryInv, [Next]_vars, NEW d \in Orchestrators,
           orch[d] \in {"finishing", "closed"}, Alone(d)
    PROVE  Alone(d)'
  <1>1. /\ \A t \in Threads : write[t] = "none"
        /\ \A t \in Threads \ Children : phase[t] # "idle" =>
                 t = Main[d] /\ phase[t] \in {"remembering", "leaving"}
        /\ \A c \in Children : phase[c] \in {"idle", "locked", "acting", "leaving"}
        /\ ~Open(table)
    BY ChildAssumption DEF Alone, Rests
  <1>2. \A e \in Orchestrators : orch[e] # "out" => e = d
    BY RunLeaseAssumption DEF EntryInv
  <1>3. \A t \in Threads : MayOpen(t) => t \in Children
    BY <1>2 DEF MayOpen, Pool, AllStopped, QuietInv, BusyInv
  <1>4. ASSUME UNCHANGED <<table, write>>,
               \A t \in Threads : \/ phase'[t] = phase[t] \/ phase'[t] = "idle"
                                  \/ t = Main[d] /\ phase'[t] = "leaving"
                                  \/ t \in Children /\ phase'[t] \in {"locked", "acting", "leaving"}
        PROVE  Alone(d)'
    <2>1. Main[d] \notin Children BY NotChild, MainThread
    <2>. QED BY <1>1, <1>4, <2>1 DEF Alone, Rests
  <1>5. ASSUME NEW t \in Threads, Transacts(t) PROVE Alone(d)'
    <2>1. \/ Remember(t) \/ Release(t) \/ ReleaseFails(t)
          \/ t \in Children /\ Read(t)
      BY <1>1, <1>5 DEF Transacts, LogStep, Storage, Read, SendAppend, CheckFails, Acknowledged,
                        Unacknowledged, Lands, IsLost
    <2>2. UNCHANGED <<table, write>> BY <2>1 DEF Remember, Release, ReleaseFails, Read
    <2>3. t = Main[d] \/ t \in Children
      BY <1>1, <2>1 DEF Remember, Release, ReleaseFails
    <2>4. \A u \in Threads : \/ phase'[u] = phase[u] \/ phase'[u] = "idle"
                             \/ u = t /\ phase'[u] = "leaving"
                             \/ u = t /\ t \in Children /\ phase'[u] = "acting"
      BY <2>1 DEF Remember, Release, ReleaseFails, Read, Goto, IInv, LogTypeOK
    <2>. QED BY <1>4, <2>2, <2>3, <2>4
  <1>6. ASSUME UNCHANGED <<table, write, phase>> PROVE Alone(d)'
    BY <1>4, <1>6
  <1>7. ASSUME NEW e \in Drivers, ClearCache(e) \/ DriverDies(e) PROVE Alone(d)'
    <2>1. CASE ClearCache(e) BY <1>6, <2>1 DEF ClearCache
    <2>2. CASE DriverDies(e)
      <3>1. \A t \in Threads : write'[t] = write[t]
        BY <1>1, <2>2 DEF DriverDies
      <3>2. table' = table /\ \A t \in Threads : phase'[t] = phase[t] \/ phase'[t] = "idle"
        BY <2>2 DEF DriverDies
      <3>. QED BY <1>1, <3>1, <3>2 DEF Alone, Rests
    <2>. QED BY <1>7, <2>1, <2>2
  <1>8. \A t \in Threads : phase[t] = "acting" => t \in Children BY <1>1
  <1>9. ASSUME NEW e \in Orchestrators,
               \/ BeginRun(e) \/ FinishRun(e) \/ \E t \in Threads : Work(e, t)
        PROVE  FALSE
    <2>1. PICK t \in Threads : DriverOf[t] = e /\ phase[t] = "acting"
      BY <1>9, MainThread, Zenon DEF BeginRun, FinishRun, Work, Put, PutNothing, Pool
    <2>. QED BY <1>8, <2>1, NotChild
  <1>10. ~Reconcile
    BY <1>8, DeskAssumption, ChildAssumption, Zenon DEF Reconcile, Put, PutNothing
  <1>11. ASSUME NEW e \in Orchestrators,
               \/ Enter(e) \/ EnterUnanswered(e) \/ StartFails(e) \/ Began(e)
               \/ \E t \in Threads : Dispatch(e, t)
               \/ LoopRaises(e) \/ Close(e) \/ Finished(e) \/ FinishRaises(e)
               \/ Retain(e) \/ Leave(e)
               \/ \E c \in Children : Launch(e, c)
        PROVE  UNCHANGED <<table, write, phase>>
    BY <1>11 DEF Enter, EnterUnanswered, StartFails, Began, Dispatch, LoopRaises, Close, Finished,
                FinishRaises, Retain, Leave, Leaves, Launch, logVars
  <1>12. ASSUME NEW e \in Orchestrators, Start(e) \/ OrchestratorDies(e) PROVE Alone(d)'
    BY <1>7, <1>12, MainThread DEF Start, OrchestratorDies
  <1>13. ASSUME NEW t \in Threads, AttemptEnds(t) PROVE UNCHANGED <<table, write, phase>>
    BY <1>13 DEF AttemptEnds, logVars
  <1>14. ASSUME NEW t \in Threads, Opens(t) \/ Looks(t) PROVE Alone(d)'
    <2>1. t \in Children BY <1>3, <1>14 DEF Opens, Looks
    <2>2. /\ UNCHANGED <<table, write>>
          /\ \A u \in Threads : phase'[u] = phase[u] \/ (u = t /\ phase'[u] = "locked")
      BY <1>14 DEF Opens, Looks, Look, Acquire, AcquireUnanswered, AcquireRefused, Goto, IInv,
                   LogTypeOK
    <2>. QED BY <1>4, <2>1, <2>2
  <1>15. CASE BreakControlLease \/ BreakRunLease \/ UNCHANGED vars
    BY <1>6, <1>15 DEF BreakControlLease, BreakLease, BreakRunLease, vars, logVars
  <1>16. CASE DeskDies
    <2>1. DriverOf[Desk] \in Drivers BY DeskAssumption, DriverAssumption
    <2>. QED BY <1>7, <1>16, <2>1 DEF DeskDies
  <1>17. ASSUME NEW c \in Children, ChildWork(c) PROVE Alone(d)'
    <2>1. c \in Threads BY ChildAssumption
    <2>2. phase[c] = "acting" BY <1>17 DEF ChildWork, Put, PutNothing
    <2>3. history[c] = table BY <2>1, <2>2 DEF IInv, BasisInv
    <2>4. PutNothing(c, "raised")
      BY <1>1, <1>17, <2>3 DEF ChildWork, Running, Open
    <2>5. /\ UNCHANGED <<table, write>>
          /\ \A u \in Threads : phase'[u] = phase[u] \/ (u = c /\ phase'[u] = "leaving")
      BY <2>4 DEF PutNothing, Goto, IInv, LogTypeOK
    <2>. QED BY <1>4, <2>5
  <1>18. ASSUME NEW c \in Children, ChildEnds(c) PROVE Alone(d)'
    <2>1. DriverOf[c] \in Drivers BY ChildAssumption, DriverAssumption
    <2>. QED BY <1>7, <1>18, <2>1 DEF ChildEnds
  <1>. QED BY <1>5, <1>6, <1>9, <1>10, <1>11, <1>12, <1>13, <1>14, <1>15, <1>16, <1>17, <1>18, Zenon
           DEF Next

LEMMA OwnsStays ==
    ASSUME IInv, LogUse, NEW d, mine'[d] = mine[d], Owns(d)
    PROVE  Owns(d)'
  <1>1. table \in Seq(Row) /\ \A t \in Threads : pending[t] \in Seq(Row)
    BY DEF IInv, LogTypeOK
  <1>2. CASE UNCHANGED table BY <1>2 DEF Owns
  <1>3. CASE \E t \in Threads : write[t] = "sent" /\ table' = table \o pending[t]
    BY <1>1, <1>3, OwnsKept
  <1>. QED BY <1>2, <1>3, TableGrows

(* The only writers of events: their threads are where they decide on what *)
(* their transaction has read.                                             *)
LEMMA PutsAre ==
    ASSUME IInv, [Next]_vars, NEW t \in Threads, phase[t] = "acting", phase'[t] = "checking"
    PROVE  \/ \E d \in Orchestrators : t = Main[d] /\ (BeginRun(d) \/ FinishRun(d))
           \/ \E d \in Orchestrators : Work(d, t)
           \/ t = Desk /\ Reconcile
           \/ t \in Children /\ ChildWork(t)
  <1>. USE DEF IInv, LogTypeOK, Goto
  <1>1. ASSUME UNCHANGED phase PROVE FALSE BY <1>1
  <1>2. ASSUME NEW d \in Orchestrators,
               \/ Enter(d) \/ EnterUnanswered(d) \/ StartFails(d) \/ Began(d)
               \/ \E u \in Threads : Dispatch(d, u)
               \/ LoopRaises(d) \/ Close(d) \/ Finished(d) \/ FinishRaises(d)
               \/ Retain(d) \/ Leave(d) \/ Start(d)
               \/ \E c \in Children : Launch(d, c)
        PROVE  UNCHANGED phase
    BY <1>2 DEF Enter, EnterUnanswered, StartFails, Began, Dispatch, LoopRaises, Close, Finished,
                FinishRaises, Retain, Leave, Leaves, Start, ClearCache, Launch, logVars
  <1>3. ASSUME NEW u \in Threads, NEW batch \in Batches,
               PutNothing(u, "raised") \/ Put(u, batch)
        PROVE  u = t
    BY <1>3 DEF PutNothing, Put
  <1>4. ASSUME NEW d \in Orchestrators, BeginRun(d) \/ FinishRun(d) PROVE t = Main[d]
    <2>1. \E batch \in Batches : PutNothing(Main[d], "raised") \/ Put(Main[d], batch)
      BY <1>4, RunBatchAssumption DEF BeginRun, FinishRun
    <2>. QED BY <1>3, <2>1, MainThread
  <1>5. ASSUME NEW d \in Orchestrators, NEW u \in Threads, Work(d, u) PROVE t = u
    <2>1. \E batch \in Batches : PutNothing(u, "raised") \/ Put(u, batch)
      BY <1>5, RunBatchAssumption DEF Work
    <2>. QED BY <1>3, <2>1
  <1>6. ASSUME Reconcile PROVE t = Desk
    <2>1. \E batch \in Batches : PutNothing(Desk, "raised") \/ Put(Desk, batch)
      BY <1>6, RunBatchAssumption DEF Reconcile
    <2>. QED BY <1>3, <2>1, DeskAssumption
  <1>7. ASSUME NEW d \in Drivers, DriverDies(d) PROVE FALSE BY <1>7 DEF DriverDies
  <1>8. ASSUME NEW u \in Threads,
               \/ Acquire(u) \/ AcquireUnanswered(u) \/ AcquireRefused(u) \/ Look(u)
               \/ LogStep(u) \/ Storage(u)
        PROVE  FALSE
    <2>1. CASE Acquire(u) \/ AcquireUnanswered(u) \/ AcquireRefused(u) \/ Look(u) \/ Storage(u)
      BY <2>1 DEF Acquire, AcquireUnanswered, AcquireRefused, Look, Storage, Lands, IsLost
    <2>2. CASE Read(u) \/ Remember(u) BY <2>2 DEF Read, Remember
    <2>3. CASE SendAppend(u) \/ CheckFails(u) \/ Acknowledged(u)
      BY <2>3 DEF SendAppend, CheckFails, Acknowledged
    <2>4. CASE Unacknowledged(u) \/ Release(u) \/ ReleaseFails(u)
      BY <2>4 DEF Unacknowledged, Release, ReleaseFails
    <2>. QED BY <1>8, <2>1, <2>2, <2>3, <2>4 DEF LogStep
  <1>9. ASSUME NEW u \in Threads, Opens(u) \/ Looks(u) \/ Transacts(u) PROVE FALSE
    BY <1>8, <1>9 DEF Opens, Looks, Transacts
  <1>10. ASSUME NEW d \in Orchestrators, OrchestratorDies(d) PROVE FALSE
    BY <1>7, <1>10, MainThread DEF OrchestratorDies
  <1>11. ~DeskDies BY <1>7, DeskAssumption, DriverAssumption DEF DeskDies
  <1>12. ASSUME \/ \E u \in Threads : AttemptEnds(u)
                \/ BreakControlLease \/ BreakRunLease \/ UNCHANGED vars
         PROVE  UNCHANGED phase
    BY <1>12 DEF AttemptEnds, BreakControlLease, BreakLease, BreakRunLease, vars, logVars
  <1>13. ASSUME NEW c \in Children, ChildWork(c) PROVE t = c
    <2>1. \E batch \in Batches : PutNothing(c, "raised") \/ Put(c, batch)
      BY <1>13, RunBatchAssumption DEF ChildWork
    <2>. QED BY <1>3, <2>1, ChildAssumption
  <1>14. ASSUME NEW c \in Children, ChildEnds(c) PROVE FALSE
    BY <1>7, <1>14, ChildAssumption, DriverAssumption DEF ChildEnds
  <1>. QED BY <1>1, <1>2, <1>4, <1>5, <1>6, <1>9, <1>10, <1>11, <1>12, <1>13, <1>14, Zenon DEF Next

LEMMA ContextsKept == ASSUME [Next]_vars PROVE ServesKept
  <1>1. CASE UNCHANGED serves BY <1>1 DEF ServesKept
  <1>2. ASSUME NEW d \in Orchestrators, NEW c \in Children, Launch(d, c) PROVE ServesKept
    BY <1>2 DEF Launch, ServesKept
  <1>3. ASSUME NEW d \in Orchestrators,
               \/ Enter(d) \/ EnterUnanswered(d) \/ Start(d) \/ StartFails(d)
               \/ BeginRun(d) \/ Began(d)
               \/ \E t \in Threads : Dispatch(d, t) \/ Work(d, t)
               \/ LoopRaises(d) \/ Close(d)
               \/ FinishRun(d) \/ Finished(d) \/ FinishRaises(d)
               \/ Retain(d) \/ Leave(d) \/ OrchestratorDies(d)
        PROVE  UNCHANGED serves
    BY <1>3, Zenon
       DEF Enter, EnterUnanswered, Start, StartFails, BeginRun, Began, Dispatch, Work, LoopRaises,
           Close, FinishRun, Finished, FinishRaises, Retain, Leave, Leaves, OrchestratorDies,
           runVars
  <1>4. ASSUME \/ \E c \in Children : ChildWork(c) \/ ChildEnds(c)
               \/ \E t \in Threads : AttemptEnds(t) \/ Opens(t) \/ Looks(t) \/ Transacts(t)
               \/ BreakControlLease \/ BreakRunLease \/ Reconcile \/ DeskDies
               \/ UNCHANGED vars
        PROVE  UNCHANGED serves
    BY <1>4, Zenon DEF ChildWork, ChildEnds, AttemptEnds, Opens, Looks, Transacts,
                       BreakControlLease, BreakRunLease, Reconcile, DeskDies, runVars, vars
  <1>. QED BY <1>1, <1>2, <1>3, <1>4, Zenon DEF Next

LEMMA DecidedStep ==
    ASSUME IInv, QuietInv, RunInv, [Next]_vars
    PROVE  DecidedInv'
  <1>. SUFFICES ASSUME NEW t \in Threads, InFlight(t)' PROVE Decided(t)'
    BY DEF DecidedInv
  <1>1. Effect(t) BY RunStepUsesLog, ThreadEffect DEF RunInv, FreshInv
  <1>2. CASE InFlight(t) /\ history'[t] = history[t] /\ pending'[t] = pending[t]
    <2>1. Decided(t) BY <1>2 DEF RunInv, DecidedInv
    <2>. QED BY <1>2, <2>1, ContextsKept DEF Decided, ServesKept
  <1>3. CASE phase[t] = "acting" /\ phase'[t] = "checking"
    <2>1. history'[t] = history[t] /\ history[t] = table /\ table \in Seq(Row)
      BY <1>1, <1>3 DEF Effect, IInv, BasisInv, LogTypeOK
    <2>2. ASSUME NEW how, PutNothing(t, how) PROVE FALSE
      BY <1>3, <2>2 DEF PutNothing, Goto, IInv, LogTypeOK
    <2>3. ASSUME NEW batch \in Batches, Put(t, batch)
          PROVE  pending'[t] = Numbered(t, batch, Len(history'[t]))
      BY <2>1, <2>3 DEF Put, IInv, LogTypeOK
    <2>4. ASSUME NEW d \in Orchestrators, DriverOf[t] = d, Running(history[t], mine[d]), Owns(d)
          PROVE  RunStatus(history'[t]) = "begin" /\ Owned(history'[t], DriverOf[t])
      BY <2>1, <2>4, OwnedIs DEF Running
    <2>5. ASSUME NEW d \in Orchestrators, t = Main[d], BeginRun(d) PROVE Decided(t)'
      <3>1. Put(t, <<"begin", "plan">>) /\ ~Open(history[t])
        BY <2>2, <2>5 DEF BeginRun
      <3>2. t \notin Children BY <2>5, MainThread, NotChild
      <3>. QED BY <2>1, <2>3, <3>1, <3>2, RunBatchAssumption DEF Decided
    <2>6. ASSUME NEW d \in Orchestrators, t = Main[d], FinishRun(d) PROVE Decided(t)'
      <3>1. /\ \E how \in {"finish", "hold"} : Put(t, <<how>>)
            /\ Running(history[t], mine[d]) /\ orch[d] = "closing"
        BY <2>2, <2>6 DEF FinishRun
      <3>2. Owns(d) BY <3>1 DEF RunInv, KnowledgeInv, KnownOK
      <3>3. DriverOf[t] = d BY <2>6, MainThread
      <3>4. \E how \in {"finish", "hold"} :
               pending'[t] = Numbered(t, <<how>>, Len(history'[t]))
        BY <2>3, <3>1, RunBatchAssumption
      <3>5. t \notin Children BY <3>3, NotChild
      <3>. QED BY <2>4, <3>1, <3>2, <3>3, <3>4, <3>5 DEF Decided
    <2>7. ASSUME NEW d \in Orchestrators, Work(d, t) PROVE Decided(t)'
      <3>1. Put(t, <<"work">>) /\ Running(history[t], mine[d]) BY <2>2, <2>7 DEF Work
      <3>2. DriverOf[t] = d /\ orch[d] \in {"running", "aborting"}
        BY <2>7, MainThread DEF Work, Pool, QuietInv, BusyInv
      <3>3. Owns(d) BY <3>2 DEF RunInv, KnowledgeInv, KnownOK
      <3>4. pending'[t] = Numbered(t, <<"work">>, Len(history'[t]))
        BY <2>3, <3>1, RunBatchAssumption
      <3>5. t \notin Children BY <3>2, NotChild
      <3>. QED BY <2>4, <3>1, <3>2, <3>3, <3>4, <3>5 DEF Decided
    <2>8. ASSUME t = Desk, Reconcile PROVE Decided(t)'
      <3>1. Put(t, <<"settle">>) /\ Open(history[t]) BY <2>2, <2>8 DEF Reconcile
      <3>. QED BY <2>1, <2>3, <3>1, RunBatchAssumption DEF Decided
    <2>9. ASSUME t \in Children, ChildWork(t) PROVE Decided(t)'
      <3>1. /\ Put(t, <<"work">>) /\ Running(history[t], serves[t])
            /\ t \in busy /\ UNCHANGED serves
        BY <2>2, <2>9 DEF ChildWork, runVars
      <3>2. serves[t] # 0 BY <2>9, <3>1 DEF RunInv, ServesInv
      <3>3. pending'[t] = Numbered(t, <<"work">>, Len(history'[t]))
        BY <2>3, <3>1, RunBatchAssumption
      <3>. QED BY <2>1, <2>9, <3>1, <3>2, <3>3 DEF Decided, Running
    <2>. QED BY <1>3, <2>5, <2>6, <2>7, <2>8, <2>9, PutsAre
  <1>. QED BY <1>1, <1>2, <1>3 DEF Effect

LEMMA SerialStep ==
    ASSUME IInv, QuietInv, RunInv, [Next]_vars
    PROVE  SerialInv'
  <1>1. CASE UNCHANGED table
    <2>1. \A i \in DOMAIN table : SerialRow(SubSeq(table, 1, i - 1), table[i], serves')
      BY ContextsKept DEF RunInv, SerialInv, SerialRow, ServesKept
    <2>. QED BY <1>1, <2>1 DEF SerialInv
  <1>2. ASSUME NEW t \in Threads, write[t] = "sent", table' = table \o pending[t]
        PROVE  SerialInv'
    <2>1. Decided(t) /\ history[t] = table
      BY <1>2 DEF RunInv, DecidedInv, InFlight, IInv, BasisInv
    <2>. QED BY <1>2, <2>1, SerialKept, ContextsKept DEF RunInv
  <1>. QED BY <1>1, <1>2, TableGrows, RunStepUsesLog

LEMMA FreshStep ==
    ASSUME IInv, QuietInv, FreshInv, [Next]_vars
    PROVE  FreshInv'
  <1>. SUFFICES ASSUME NEW t \in Threads PROVE Fresh(t)' BY DEF FreshInv
  <1>1. Effect(t) BY RunStepUsesLog, ThreadEffect DEF FreshInv
  <1>. QED BY <1>1 DEF Effect

(* Only a thread of an orchestrator that knows of its run launches a child. *)
LEMMA ServesStep ==
    ASSUME IInv, QuietInv, RunInv, [Next]_vars
    PROVE  ServesInv'
  <1>. USE DEF ServesInv
  <1>1. ServesInv BY DEF RunInv
  <1>2. ASSUME UNCHANGED serves, busy' \cap Children \subseteq busy PROVE ServesInv'
    BY <1>1, <1>2
  <1>3. ASSUME NEW d \in Orchestrators, NEW c \in Children, Launch(d, c) PROVE ServesInv'
    <2>1. orch[d] \in {"running", "aborting"} BY <1>3 DEF Launch, Pool, QuietInv, BusyInv
    <2>2. Owns(d) BY <2>1 DEF RunInv, KnowledgeInv, KnownOK
    <2>3. mine[d] \in Nat /\ mine[d] # 0
      BY <2>2, OwnsSome DEF RunInv, EntryInv, IInv, LogTypeOK
    <2>. QED BY <1>1, <1>3, <2>3 DEF Launch
  <1>4. ASSUME NEW d \in Orchestrators, NEW t \in Threads, Dispatch(d, t) PROVE ServesInv'
    <2>1. t \notin Children BY <1>4, NotChild DEF Dispatch, Pool
    <2>2. UNCHANGED serves /\ busy' = busy \cup {t} BY <1>4 DEF Dispatch
    <2>. QED BY <1>2, <2>1, <2>2
  <1>5. ASSUME NEW d \in Orchestrators,
               \/ Enter(d) \/ EnterUnanswered(d) \/ Start(d) \/ StartFails(d)
               \/ BeginRun(d) \/ Began(d) \/ \E t \in Threads : Work(d, t)
               \/ LoopRaises(d) \/ Close(d)
               \/ FinishRun(d) \/ Finished(d) \/ FinishRaises(d)
               \/ Retain(d) \/ Leave(d)
        PROVE  UNCHANGED <<serves, busy>>
    BY <1>5, Zenon
       DEF Enter, EnterUnanswered, Start, StartFails, BeginRun, Began, Work, LoopRaises,
           Close, FinishRun, Finished, FinishRaises, Retain, Leave, Leaves, runVars
  <1>6. ASSUME NEW d \in Orchestrators, OrchestratorDies(d) PROVE ServesInv'
    BY <1>2, <1>6 DEF OrchestratorDies
  <1>7. ASSUME \/ \E c \in Children : ChildWork(c)
               \/ \E t \in Threads : Opens(t) \/ Looks(t) \/ Transacts(t)
               \/ BreakControlLease \/ BreakRunLease \/ Reconcile \/ DeskDies
               \/ UNCHANGED vars
        PROVE  UNCHANGED <<serves, busy>>
    BY <1>7, Zenon DEF ChildWork, Opens, Looks, Transacts, BreakControlLease, BreakRunLease,
                       Reconcile, DeskDies, runVars, vars
  <1>8. ASSUME NEW t \in Threads, AttemptEnds(t) PROVE ServesInv'
    BY <1>2, <1>8 DEF AttemptEnds
  <1>9. ASSUME NEW c \in Children, ChildEnds(c) PROVE ServesInv'
    BY <1>2, <1>9 DEF ChildEnds
  <1>10. CASE UNCHANGED <<serves, busy>> BY <1>2, <1>10
  <1>. QED BY <1>3, <1>4, <1>5, <1>6, <1>7, <1>8, <1>9, <1>10, Zenon DEF Next

(* An append of a single row, or of a beginning, has its kind from its     *)
(* first row.                                                              *)
LEMMA FirstKind ==
    ASSUME IInv, NEW t \in Threads, Decided(t)
    PROVE  /\ pending[t] \in Seq(Row) /\ pending[t] # << >> /\ pending[t][1].by = t
           /\ pending[t][1].kind = "begin" => /\ Len(pending[t]) = 2
                                              /\ pending[t][2].kind = "plan"
           /\ pending[t][1].kind # "begin" => Len(pending[t]) = 1
  <1>1. Len(history[t]) \in Nat BY DEF IInv, LogTypeOK
  <1>2. CASE pending[t] = Numbered(t, <<"begin", "plan">>, Len(history[t]))
    <2>1. <<"begin", "plan">> \in Batches BY RunBatchAssumption
    <2>. QED BY <1>1, <1>2, <2>1, NumberedRows
  <1>3. ASSUME NEW kind \in {"work", "finish", "hold", "settle"},
               pending[t] = Numbered(t, <<kind>>, Len(history[t]))
        PROVE  /\ pending[t] \in Seq(Row) /\ Len(pending[t]) = 1
               /\ pending[t][1].by = t /\ pending[t][1].kind = kind
    <2>1. <<kind>> \in Batches BY RunBatchAssumption
    <2>. QED BY <1>1, <1>3, <2>1, NumberedRows
  <1>4. CASE \E kind \in {"work", "finish", "hold", "settle"} :
                pending[t] = Numbered(t, <<kind>>, Len(history[t]))
    BY <1>3, <1>4
  <1>. QED BY <1>2, <1>4 DEF Decided

(* A step that leaves d where it is keeps what is known of it.             *)
LEMMA KeptInPlace ==
    ASSUME IInv, QuietInv, RunInv, [Next]_vars, NEW d \in Orchestrators,
           orch'[d] = orch[d], mine'[d] = mine[d], ~BeginRun(d)
    PROVE  BeginOK(d)' /\ KnownOK(d)' /\ ClosingOK(d)'
  <1> DEFINE t == Main[d]
  <1>1. t \in Threads /\ DriverOf[t] = d BY MainThread
  <1>2. Effect(t) BY <1>1, RunStepUsesLog, ThreadEffect DEF RunInv, FreshInv
  <1>3. Owns(d) => Owns(d)' BY OwnsStays, RunStepUsesLog
  <1>4. ASSUME orch[d] \in {"beginning", "finishing"}, phase[t] = "acting", phase'[t] = "checking"
        PROVE  FALSE
    <2>1. ASSUME NEW e \in Orchestrators, t = Main[e] PROVE e = d
      BY <1>1, <2>1, MainThread
    <2>2. ~FinishRun(d) BY <1>4 DEF FinishRun
    <2>3. ASSUME NEW e \in Orchestrators, Work(e, t) PROVE FALSE
      BY <1>1, <1>4, <2>1, <2>3 DEF Work, Pool
    <2>4. t # Desk BY <1>1, DeskAssumption
    <2>5. t \notin Children BY <1>1, NotChild
    <2>. QED BY <1>1, <1>4, <2>1, <2>2, <2>3, <2>4, <2>5, PutsAre
  <1>5. ASSUME orch[d] \in {"beginning", "finishing"}, phase'[t] \in {"checking", "writing"}
        PROVE  /\ phase[t] \in {"checking", "writing"}
               /\ history'[t] = history[t] /\ pending'[t] = pending[t]
    BY <1>2, <1>4, <1>5 DEF Effect, InFlight
  <1>6. ASSUME write[t] = "sent", table' = table \o pending[t]
        PROVE  /\ Decided(t) /\ history[t] = table /\ table \in Seq(Row)
    BY <1>1, <1>6 DEF RunInv, DecidedInv, InFlight, IInv, BasisInv, LogTypeOK
  <1>7. BeginOK(d) /\ KnownOK(d) /\ ClosingOK(d)
    BY DEF RunInv, KnowledgeInv
  <1> HIDE DEF t
  <1>8. ASSUME orch[d] = "beginning", write[t] = "sent", phase[t] = "writing",
               table' = table \o pending[t]
        PROVE  Owns(d)'
    <2>1. pending[t][1].kind = "begin" /\ mine[d] = RunCount(table) + 1
      BY <1>6, <1>7, <1>8 DEF BeginOK, t
    <2>2. /\ pending[t] \in Seq(Row) /\ pending[t] # << >> /\ pending[t][1].by = t
          /\ Len(pending[t]) = 2 /\ pending[t][2].kind = "plan"
      BY <1>1, <1>6, <1>8, <2>1, FirstKind
    <2>3. \A i \in 2..Len(pending[t]) : pending[t][i].kind # "begin"
      BY <2>2
    <2>. QED BY <1>1, <1>6, <1>8, <2>1, <2>2, <2>3, OwnsBegun
  <1>9. BeginOK(d)'
    <2>. SUFFICES ASSUME orch[d] = "beginning"
                  PROVE  /\ phase'[t] \in {"checking", "writing"} =>
                                /\ pending'[t][1].kind = "begin"
                                /\ mine'[d] = RunCount(history'[t]) + 1
                         /\ write'[t] = "landed" \/ outcome'[t] = "returned" => Owns(d)'
      BY DEF BeginOK, t
    <2>1. phase'[t] \in {"checking", "writing"} =>
              pending'[t][1].kind = "begin" /\ mine'[d] = RunCount(history'[t]) + 1
      BY <1>5, <1>7 DEF BeginOK, t
    <2>2. write[t] = "landed" \/ outcome[t] = "returned" => Owns(d)
      BY <1>7 DEF BeginOK, t
    <2>. QED BY <1>2, <1>3, <1>8, <2>1, <2>2 DEF Effect
  <1>10. KnownOK(d)' BY <1>3, <1>7 DEF KnownOK
  <1>11. ASSUME orch[d] = "finishing", write[t] = "sent", phase[t] = "writing",
                table' = table \o pending[t]
         PROVE  ~Open(table)'
    <2>1. pending[t][1].kind = "finish" BY <1>7, <1>11 DEF ClosingOK, t
    <2>2. pending[t] \in Seq(Row) /\ Len(pending[t]) = 1
      BY <1>1, <1>6, <1>11, <2>1, FirstKind
    <2>3. pending[t] = <<pending[t][1]>> /\ pending[t][1] \in Row BY <2>2
    <2>4. RunStatus(table \o <<pending[t][1]>>) = "finish"
      BY <1>6, <1>11, <2>1, <2>3, StatusAfter DEF StatusKinds
    <2>5. RunStatus(table') = "finish" BY <1>11, <2>3, <2>4
    <2>. QED BY <2>5 DEF Open
  <1>12. ASSUME write[t] = "landed"
         PROVE  /\ \A u \in Threads : write[u] # "sent" /\ (write[u] = "landed" => u = t)
                /\ \A u \in Threads : phase[u] # "idle" => u = t
                /\ UNCHANGED table
    <2>1. phase[t] = "writing" /\ lease = t
      BY <1>1, <1>12 DEF IInv, WriterInv, HolderInv
    <2>2. \A u \in Threads : phase[u] # "idle" => u = t
      BY <2>1 DEF IInv, HolderInv
    <2>3. \A u \in Threads : write[u] # "sent" /\ (write[u] = "landed" => u = t)
      BY <1>1, <1>12, <2>1, <2>2, LeaseAssumption DEF IInv, WriterInv
    <2>. QED BY <2>2, <2>3, TableGrows, RunStepUsesLog
  <1>13. ASSUME orch[d] = "finishing", write[t] = "landed", phase[t] = "writing", Acknowledged(t)
         PROVE  Alone(d)'
    <2>1. /\ write' = [write EXCEPT ![t] = "none"]
          /\ phase' = [phase EXCEPT ![t] = "remembering"] /\ UNCHANGED table
      BY <1>13 DEF Acknowledged, Goto
    <2>2. ~Open(table) BY <1>7, <1>13 DEF ClosingOK, t
    <2>3. \A u \in Threads : write[u] \in {"none", "sent", "landed"}
      BY DEF IInv, LogTypeOK
    <2>4. write \in [Threads -> {"none", "sent", "landed"}] /\ phase \in [Threads -> LogPhases]
      BY DEF IInv, LogTypeOK
    <2>5. \A u \in Threads : write'[u] = "none" BY <1>1, <1>12, <1>13, <2>1, <2>3, <2>4
    <2>6. t \notin Children BY <1>1, NotChild
    <2>7. ASSUME NEW u \in Threads PROVE Rests(d, u)'
      BY <1>1, <1>12, <1>13, <2>1, <2>4, <2>6 DEF Rests, t
    <2>. QED BY <2>1, <2>2, <2>5, <2>7 DEF Alone, Open
  <1>14. Alone(d) /\ orch[d] \in {"finishing", "closed"} => Alone(d)'
    BY AloneKept DEF RunInv
  <1>15. ClosingOK(d)'
    <2>1. CASE orch[d] = "closed"
      BY <1>7, <1>14, <2>1 DEF ClosingOK
    <2>2. CASE orch[d] = "finishing"
      <3>1. phase'[t] \in {"checking", "writing"} => pending'[t][1].kind = "finish"
        BY <1>5, <1>7, <2>2 DEF ClosingOK, t
      <3>2. write'[t] = "landed" => ~Open(table)'
        <4>1. CASE write[t] = "landed"
          BY <1>7, <1>12, <2>2, <4>1 DEF ClosingOK, t
        <4>. QED BY <1>2, <1>11, <2>2, <4>1 DEF Effect
      <3>3. outcome'[t] = "returned" => Alone(d)'
        <4>1. outcome[t] = "returned" => Alone(d) BY <1>7, <2>2 DEF ClosingOK, t
        <4>. QED BY <1>2, <1>13, <1>14, <2>2, <4>1 DEF Effect
      <3>. QED BY <2>2, <3>1, <3>2, <3>3 DEF ClosingOK, t
    <2>3. CASE orch[d] \notin {"finishing", "closed"} BY <2>3 DEF ClosingOK
    <2>. QED BY <2>1, <2>2, <2>3
  <1>. QED BY <1>9, <1>10, <1>15

(* Whoever holds the run lease is alone in Orchestrator.run. *)
LEMMA EntryStep ==
    ASSUME IInv, QuietInv, EntryInv, [Next]_vars
    PROVE  EntryInv'
  <1>. USE RunLeaseAssumption DEF EntryInv
  <1>1. orch \in [Orchestrators -> OrchPhases] BY DEF QuietInv
  <1>2. CASE UNCHANGED <<runLease, orch, mine>> BY <1>2
  <1>3. ASSUME NEW d \in Orchestrators, orch[d] # "out", UNCHANGED <<runLease, mine>>,
               NEW where, To(d, where)
        PROVE  EntryInv'
    BY <1>1, <1>3 DEF To
  <1>4. ASSUME NEW d \in Orchestrators, Enter(d) PROVE EntryInv'
    BY <1>1, <1>4 DEF Enter, To
  <1>5. ASSUME NEW d \in Orchestrators, EnterUnanswered(d) PROVE EntryInv'
    BY <1>5 DEF EnterUnanswered
  <1>6. ASSUME NEW d \in Orchestrators, NEW left \in {Free, Orphan}, Leaves(d, left),
               orch[d] # "out"
        PROVE  EntryInv'
    BY <1>1, <1>6 DEF Leaves, To
  <1>7. ASSUME NEW d \in Orchestrators, Retain(d) \/ Leave(d) PROVE EntryInv'
    <2>1. orch[d] # "out" /\ \E left \in {Free, Orphan} : Leaves(d, left)
      BY <1>7 DEF Retain, Leave
    <2>. QED BY <1>6, <2>1
  <1>8. ASSUME NEW d \in Orchestrators, OrchestratorDies(d) PROVE EntryInv'
    BY <1>1, <1>8 DEF OrchestratorDies, To
  <1>9. ASSUME NEW d \in Orchestrators, BeginRun(d) PROVE EntryInv'
    <2>1. RunCount(history[Main[d]]) \in Nat
      <3>1. history[Main[d]] \in Seq(Row) BY MainThread DEF IInv, LogTypeOK
      <3>. QED BY <3>1, CountIsNat
    <2>2. UNCHANGED <<runLease, orch>> BY <1>9 DEF BeginRun
    <2>3. mine' = mine \/ mine' = [mine EXCEPT ![d] = RunCount(history[Main[d]]) + 1]
      BY <1>9 DEF BeginRun
    <2>4. mine' \in [Orchestrators -> Nat] BY <2>1, <2>3
    <2>. QED BY <2>2, <2>4
  <1>10. CASE BreakRunLease BY <1>10 DEF BreakRunLease, AllStopped
  <1>11. ASSUME NEW d \in Orchestrators,
                \/ Start(d) \/ StartFails(d) \/ Began(d) \/ LoopRaises(d) \/ Close(d)
                \/ FinishRun(d) \/ Finished(d) \/ FinishRaises(d)
         PROVE  EntryInv'
    <2>1. orch[d] # "out" /\ UNCHANGED <<runLease, mine>> /\ \E where : To(d, where)
      BY <1>11 DEF Start, StartFails, Began, LoopRaises, Close, FinishRun, Finished, FinishRaises
    <2>. QED BY <1>3, <2>1
  <1>12. ASSUME NEW d \in Orchestrators,
                \/ \E t \in Threads : Dispatch(d, t) \/ Work(d, t)
                \/ \E c \in Children : Launch(d, c)
         PROVE  UNCHANGED <<runLease, orch, mine>>
    BY <1>12 DEF Dispatch, Work, Launch, runVars
  <1>13. ASSUME NEW t \in Threads, AttemptEnds(t) \/ Opens(t) \/ Looks(t) \/ Transacts(t)
         PROVE  UNCHANGED <<runLease, orch, mine>>
    BY <1>13 DEF AttemptEnds, Opens, Looks, Transacts, runVars
  <1>14. CASE BreakControlLease \/ Reconcile \/ DeskDies \/ UNCHANGED vars
    <2>1. UNCHANGED <<runLease, orch, mine>>
      BY <1>14 DEF BreakControlLease, Reconcile, DeskDies, vars, runVars
    <2>. QED BY <1>2, <2>1
  <1>15. ASSUME NEW c \in Children, ChildWork(c) \/ ChildEnds(c)
         PROVE  UNCHANGED <<runLease, orch, mine>>
    BY <1>15 DEF ChildWork, ChildEnds, runVars
  <1>. QED BY <1>2, <1>4, <1>5, <1>7, <1>8, <1>9, <1>10, <1>11, <1>12, <1>13, <1>14, <1>15, Zenon
           DEF Next

(* The steps of d that take it somewhere.  All others leave it in place.   *)
Moves(d) ==
    \/ BeginRun(d) \/ Start(d) \/ Began(d) \/ LoopRaises(d) \/ Close(d)
    \/ FinishRun(d) \/ Finished(d) \/ FinishRaises(d)

LEMMA Elsewhere ==
    ASSUME QuietInv, EntryInv, [Next]_vars, NEW d \in Orchestrators
    PROVE  \/ Moves(d)
           \/ orch'[d] = orch[d] /\ mine'[d] = mine[d]
           \/ orch'[d] \in {"out", "entered", "refused"}
  <1> DEFINE Kept == orch'[d] = orch[d] /\ mine'[d] = mine[d]
             Gone == orch'[d] \in {"out", "entered", "refused"}
  <1>1. orch \in [Orchestrators -> OrchPhases] /\ mine \in [Orchestrators -> Nat]
    BY DEF QuietInv, EntryInv
  <1>2. CASE UNCHANGED <<orch, mine>> BY <1>2
  <1>3. ASSUME NEW e \in Orchestrators \ {d}, Moves(e) PROVE Kept
    <2>1. /\ UNCHANGED orch \/ \E where : To(e, where)
          /\ UNCHANGED mine \/ \E n : mine' = [mine EXCEPT ![e] = n]
      BY <1>3 DEF Moves, BeginRun, Start, Began, LoopRaises, Close, FinishRun, Finished,
                  FinishRaises
    <2>. QED BY <1>1, <1>3, <2>1 DEF To
  <1>4. ASSUME NEW e \in Orchestrators, Enter(e) \/ EnterUnanswered(e) \/ StartFails(e)
        PROVE  Kept \/ Gone
    <2>1. UNCHANGED mine /\ (UNCHANGED orch \/ \E where \in {"entered", "refused"} : To(e, where))
      BY <1>4 DEF Enter, EnterUnanswered, StartFails
    <2>. QED BY <1>1, <2>1 DEF To
  <1>5. ASSUME NEW e \in Orchestrators, Retain(e) \/ Leave(e) \/ OrchestratorDies(e)
        PROVE  Kept \/ Gone
    <2>1. To(e, "out") /\ mine' = [mine EXCEPT ![e] = 0]
      BY <1>5 DEF Retain, Leave, Leaves, OrchestratorDies
    <2>. QED BY <1>1, <2>1 DEF To
  <1>6. ASSUME NEW e \in Orchestrators,
               \/ \E t \in Threads : Dispatch(e, t) \/ Work(e, t)
               \/ \E c \in Children : Launch(e, c)
        PROVE  UNCHANGED <<orch, mine>>
    BY <1>6 DEF Dispatch, Work, Launch, runVars
  <1>7. ASSUME NEW t \in Threads, AttemptEnds(t) \/ Opens(t) \/ Looks(t) \/ Transacts(t)
        PROVE  UNCHANGED <<orch, mine>>
    BY <1>7 DEF AttemptEnds, Opens, Looks, Transacts, runVars
  <1>8. ASSUME \/ BreakControlLease \/ BreakRunLease \/ Reconcile \/ DeskDies \/ UNCHANGED vars
               \/ \E c \in Children : ChildWork(c) \/ ChildEnds(c)
        PROVE  UNCHANGED <<orch, mine>>
    BY <1>8 DEF BreakControlLease, BreakRunLease, Reconcile, DeskDies, ChildWork, ChildEnds, vars,
                runVars
  <1>9. ASSUME NEW e \in Orchestrators, Moves(e) PROVE Kept \/ Moves(d)
    BY <1>3, <1>9
  <1> HIDE DEF Kept, Gone
  <1>10. Moves(d) \/ Kept \/ Gone \/ UNCHANGED <<orch, mine>>
    BY <1>4, <1>5, <1>6, <1>7, <1>8, <1>9, Zenon DEF Next, Moves
  <1>. QED BY <1>2, <1>10 DEF Kept, Gone

(* A step of d that takes it somewhere leaves it knowing what it should.   *)
LEMMA MovesKnow ==
    ASSUME IInv, QuietInv, RunInv, [Next]_vars, NEW d \in Orchestrators, Moves(d)
    PROVE  BeginOK(d)' /\ KnownOK(d)' /\ ClosingOK(d)'
  <1> DEFINE t == Main[d]
  <1>1. t \in Threads /\ DriverOf[t] = d BY MainThread
  <1>2. /\ orch \in [Orchestrators -> OrchPhases] /\ mine \in [Orchestrators -> Nat]
        /\ phase \in [Threads -> LogPhases] /\ DOMAIN outcome = Threads
        /\ DOMAIN pending = Threads
    BY DEF QuietInv, RunInv, EntryInv, IInv, LogTypeOK
  <1>3. BeginOK(d) /\ KnownOK(d) /\ ClosingOK(d) BY DEF RunInv, KnowledgeInv
  <1>4. mine'[d] = mine[d] /\ Owns(d) => Owns(d)' BY OwnsStays, RunStepUsesLog
  <1>5. phase[t] # "writing" => write[t] # "landed" BY <1>1 DEF IInv, WriterInv
  <1>6. phase[t] = "acting" => outcome[t] = "none" BY <1>1 DEF RunInv, FreshInv, Fresh
  <1> HIDE DEF t
  <1>7. CASE Start(d)
    <2>1. /\ orch[d] = "entered" /\ orch'[d] = "beginning" /\ UNCHANGED <<phase, write>>
          /\ ClearCache(d)
      BY <1>2, <1>7 DEF Start, ClearCache, To
    <2>2. phase[t] = "idle" /\ outcome'[t] = "none"
      BY <1>1, <2>1 DEF ClearCache
    <2>. QED BY <1>5, <2>1, <2>2 DEF BeginOK, KnownOK, ClosingOK, t
  <1>8. CASE BeginRun(d)
    <2>1. orch'[d] = "beginning" BY <1>8 DEF BeginRun
    <2>2. CASE PutNothing(t, "raised")
      <3>1. /\ phase[t] = "acting" /\ phase'[t] = "leaving" /\ UNCHANGED write
            /\ outcome'[t] = "raised"
        BY <1>1, <1>2, <2>2 DEF PutNothing, Goto, Ends
      <3>. QED BY <1>5, <2>1, <3>1 DEF BeginOK, KnownOK, ClosingOK, t
    <2>3. CASE /\ Put(t, <<"begin", "plan">>)
               /\ mine' = [mine EXCEPT ![d] = RunCount(history[t]) + 1]
      <3>1. /\ phase[t] = "acting" /\ UNCHANGED <<write, outcome, history>>
            /\ pending'[t] = Numbered(t, <<"begin", "plan">>, Len(history[t]))
        BY <1>1, <1>2, <2>3 DEF Put
      <3>2. pending'[t][1].kind = "begin"
        <4>1. <<"begin", "plan">> \in Batches BY RunBatchAssumption
        <4>2. Len(history[t]) \in Nat BY <1>1 DEF IInv, LogTypeOK
        <4>. QED BY <1>1, <3>1, <4>1, <4>2, NumberedRows
      <3>3. mine'[d] = RunCount(history'[t]) + 1 BY <1>2, <2>3, <3>1
      <3>. QED BY <1>5, <1>6, <2>1, <3>1, <3>2, <3>3 DEF BeginOK, KnownOK, ClosingOK, t
    <2>. QED BY <1>8, <2>2, <2>3 DEF BeginRun, t
  <1>9. CASE Began(d)
    <2>1. /\ orch[d] = "beginning" /\ mine' = mine
          /\ \/ outcome[t] = "returned" /\ orch'[d] = "running"
             \/ orch'[d] = "refused"
      BY <1>2, <1>9 DEF Began, To, t
    <2>2. orch'[d] = "running" => Owns(d) BY <1>3, <2>1 DEF BeginOK, t
    <2>. QED BY <1>4, <2>1, <2>2 DEF BeginOK, KnownOK, ClosingOK
  <1>10. CASE LoopRaises(d) \/ Close(d) \/ FinishRaises(d)
    <2>1. /\ orch[d] \in {"running", "closing", "finishing", "holding"} /\ mine' = mine
          /\ orch'[d] \in {"aborting", "closing"}
      BY <1>2, <1>10 DEF LoopRaises, Close, FinishRaises, To
    <2>. QED BY <1>3, <1>4, <2>1 DEF BeginOK, KnownOK, ClosingOK
  <1>11. CASE Finished(d)
    <2>1. /\ orch[d] = "finishing" /\ orch'[d] = "closed" /\ outcome[t] = "returned"
          /\ UNCHANGED logVars
      BY <1>2, <1>11 DEF Finished, To, t
    <2>2. Alone(d) BY <1>3, <2>1 DEF ClosingOK, t
    <2>3. Alone(d)' BY <2>1, <2>2 DEF Alone, Rests, logVars
    <2>. QED BY <2>1, <2>3 DEF BeginOK, KnownOK, ClosingOK
  <1>12. CASE FinishRun(d)
    <2>1. PICK how \in {"finish", "hold"} :
              /\ orch'[d] = (IF how = "finish" THEN "finishing" ELSE "holding")
              /\ Put(t, <<how>>) \/ PutNothing(t, "raised")
      BY <1>2, <1>12 DEF FinishRun, To, t
    <2>2. orch[d] = "closing" /\ mine' = mine BY <1>12 DEF FinishRun
    <2>3. BeginOK(d)' /\ KnownOK(d)' BY <1>3, <1>4, <2>1, <2>2 DEF BeginOK, KnownOK
    <2>4. phase[t] = "acting" /\ UNCHANGED write
      BY <2>1 DEF Put, PutNothing
    <2>5. CASE PutNothing(t, "raised")
      <3>1. phase'[t] = "leaving" /\ outcome'[t] = "raised"
        BY <1>1, <1>2, <2>5 DEF PutNothing, Goto, Ends
      <3>. QED BY <1>5, <2>1, <2>3, <2>4, <3>1 DEF ClosingOK, t
    <2>6. CASE Put(t, <<how>>)
      <3>1. /\ UNCHANGED outcome
            /\ pending'[t] = Numbered(t, <<how>>, Len(history[t]))
        BY <1>1, <1>2, <2>6 DEF Put
      <3>2. pending'[t][1].kind = how
        <4>1. <<how>> \in Batches BY RunBatchAssumption
        <4>2. Len(history[t]) \in Nat BY <1>1 DEF IInv, LogTypeOK
        <4>. QED BY <1>1, <3>1, <4>1, <4>2, NumberedRows
      <3>. QED BY <1>5, <1>6, <2>1, <2>3, <2>4, <3>1, <3>2 DEF ClosingOK, t
    <2>. QED BY <2>1, <2>5, <2>6
  <1>. QED BY <1>7, <1>8, <1>9, <1>10, <1>11, <1>12 DEF Moves

LEMMA RunInvInductive ==
    /\ Init => RunInv
    /\ IInv /\ QuietInv /\ RunInv /\ [Next]_vars => RunInv'
  <1>1. ASSUME Init PROVE RunInv
    <2>1. /\ table = << >> /\ phase = [t \in Threads |-> "idle"]
          /\ write = [t \in Threads |-> "none"] /\ runLease = Free
          /\ orch = [d \in Orchestrators |-> "out"] /\ mine = [d \in Orchestrators |-> 0]
          /\ serves = [c \in Children |-> 0] /\ busy = {}
      BY <1>1 DEF Init, LogInit
    <2>2. EntryInv BY <2>1 DEF EntryInv
    <2>3. FreshInv BY <2>1 DEF FreshInv, Fresh
    <2>4. DecidedInv BY <2>1 DEF DecidedInv, InFlight
    <2>5. SerialInv BY <2>1 DEF SerialInv
    <2>6. KnowledgeInv BY <2>1 DEF KnowledgeInv, BeginOK, KnownOK, ClosingOK
    <2>7. ServesInv BY <2>1 DEF ServesInv
    <2>. QED BY <2>2, <2>3, <2>4, <2>5, <2>6, <2>7 DEF RunInv
  <1>2. ASSUME IInv, QuietInv, RunInv, [Next]_vars PROVE RunInv'
    <2>1. EntryInv' BY <1>2, EntryStep DEF RunInv
    <2>2. FreshInv' BY <1>2, FreshStep DEF RunInv
    <2>3. DecidedInv' BY <1>2, DecidedStep
    <2>4. SerialInv' BY <1>2, SerialStep
    <2>5. ASSUME NEW d \in Orchestrators PROVE BeginOK(d)' /\ KnownOK(d)' /\ ClosingOK(d)'
      <3>1. CASE Moves(d) BY <1>2, <3>1, MovesKnow
      <3>2. CASE ~Moves(d) /\ orch'[d] = orch[d] /\ mine'[d] = mine[d]
        BY <1>2, <3>2, KeptInPlace DEF Moves
      <3>3. CASE orch'[d] \in {"out", "entered", "refused"}
        BY <3>3 DEF BeginOK, KnownOK, ClosingOK
      <3>. QED BY <1>2, <3>1, <3>2, <3>3, Elsewhere DEF RunInv
    <2>6. ServesInv' BY <1>2, ServesStep
    <2>. QED BY <2>1, <2>2, <2>3, <2>4, <2>5, <2>6 DEF RunInv, KnowledgeInv
  <1>. QED BY <1>1, <1>2

LEMMA RunInvHolds == Spec => [](IInv /\ QuietInv /\ RunInv)
  BY QuietHolds, RunInvInductive, PTL DEF Spec

(* However many orchestrators and threads contend, crash, leave an append  *)
(* behind and are recovered, and however late their children call, the log *)
(* tells of one run after another, each row written for the open run by    *)
(* the orchestrator that began it or by a child whose context names it     *)
(* (ControlStore.begin_run, _running, finish_run, reconcile).              *)
THEOREM RunsNeverOverlap == Spec => []RunsAreSerial
  <1>1. IInv /\ RunInv => RunsAreSerial BY SerialRows DEF IInv, LogTypeOK, RunInv
  <1>. QED BY <1>1, RunInvHolds, PTL

(* An orchestrator that knew of its run gives the run lease up for others  *)
(* only once that run is closed (Orchestrator.run, guard.retain).          *)
THEOREM QuarantineKept == Spec => QuarantineHolds
  <1>1. ASSUME IInv, QuietInv, RunInv, [Next]_vars, NEW d \in Orchestrators,
               runLease = d, runLease' = Free, orch[d] # "refused"
        PROVE  ~Open(table)
    <2>. USE RunLeaseAssumption, LeaseAssumption
    <2>1. ASSUME NEW e \in Orchestrators, Retain(e) \/ OrchestratorDies(e) PROVE FALSE
      BY <1>1, <2>1 DEF Retain, Leaves, OrchestratorDies
    <2>2. ~BreakRunLease BY <1>1 DEF BreakRunLease
    <2>3. ASSUME NEW e \in Orchestrators, Leave(e) PROVE ~Open(table)
      <3>1. orch[e] \in {"refused", "closed"} BY <2>3 DEF Leave
      <3>2. e = d BY <1>1, <3>1 DEF RunInv, EntryInv
      <3>. QED BY <1>1, <3>1, <3>2 DEF RunInv, KnowledgeInv, ClosingOK, Alone
    <2>4. ASSUME NEW e \in Orchestrators,
                 \/ EnterUnanswered(e) \/ Start(e) \/ StartFails(e) \/ BeginRun(e) \/ Began(e)
                 \/ \E t \in Threads : Dispatch(e, t) \/ Work(e, t)
                 \/ LoopRaises(e) \/ Close(e) \/ FinishRun(e) \/ Finished(e) \/ FinishRaises(e)
                 \/ \E c \in Children : Launch(e, c)
          PROVE  FALSE
      <3>1. runLease' = Orphan \/ UNCHANGED runLease
        BY <2>4 DEF EnterUnanswered, Start, StartFails, BeginRun, Began, Dispatch, Work, LoopRaises,
                    Close, FinishRun, Finished, FinishRaises, Launch, runVars
      <3>. QED BY <1>1, <3>1
    <2>5. ASSUME NEW e \in Orchestrators, Enter(e) PROVE FALSE BY <1>1, <2>5 DEF Enter
    <2>6. ASSUME \/ \E t \in Threads : AttemptEnds(t) \/ Opens(t) \/ Looks(t) \/ Transacts(t)
                 \/ \E c \in Children : ChildWork(c) \/ ChildEnds(c)
                 \/ BreakControlLease \/ Reconcile \/ DeskDies \/ UNCHANGED vars
          PROVE  FALSE
      <3>1. UNCHANGED runLease
        BY <2>6 DEF ChildWork, ChildEnds, AttemptEnds, Opens, Looks, Transacts, BreakControlLease,
                    Reconcile, DeskDies, vars, runVars
      <3>. QED BY <1>1, <3>1
    <2>. QED BY <1>1, <2>1, <2>2, <2>3, <2>4, <2>5, <2>6, Zenon DEF Next
  <1>2. IInv /\ QuietInv /\ RunInv /\ [Next]_vars =>
            [\A d \in Orchestrators :
                 runLease = d /\ runLease' = Free /\ orch[d] # "refused" => ~Open(table)]_vars
    BY <1>1
  <1>. QED BY <1>2, RunInvHolds, PTL DEF Spec, QuarantineHolds
=============================================================================
