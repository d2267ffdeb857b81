------------------------------ MODULE RunLease ------------------------------
(***************************************************************************)
(* Orchestrator processes on a shared Delta log: the run lease they take   *)
(* (Orchestrator.run in src/spark_dag/orchestrator.py), the executor       *)
(* threads each of them waits for (DispatchSession in                      *)
(* src/spark_dag/executors.py), the child notebooks on remote platforms,   *)
(* which nobody waits for once their executor thread has given up on them  *)
(* (run_child in src/spark_dag/worker.py), the rows all of them write, and *)
(* the operator who breaks abandoned leases and reconciles abandoned runs  *)
(* (runbook.md).                                                           *)
(*                                                                         *)
(* Of the control records this module keeps the status of the run: the     *)
(* last row of kind "begin", "finish", "hold" or "settle".                 *)
(*                                                                         *)
(* WorkForAnyRun, HeldReleases and AbortAtOnce are faults a change of the  *)
(* code could bring in; no action uses them.                               *)
(***************************************************************************)
EXTENDS DeltaLog, FiniteSets, FiniteSetsExt

CONSTANTS Orchestrators,  \* the drivers that run Orchestrator.run
          Main,           \* orchestrator -> its main thread
          Children,       \* the remote child notebooks, each with a driver of its own
          Desk            \* the thread from which the operator reconciles

ASSUME OrchestratorAssumption ==
    /\ Orchestrators \subseteq Drivers
    /\ Main \in [Orchestrators -> Threads]
    /\ \A d \in Orchestrators : DriverOf[Main[d]] = d
ASSUME DeskAssumption == Desk \in Threads /\ DriverOf[Desk] \notin Orchestrators
ASSUME ChildAssumption ==
    /\ Children \subseteq Threads \ {Desk}
    /\ \A c \in Children : /\ DriverOf[c] \notin Orchestrators
                          /\ \A t \in Threads : DriverOf[t] = DriverOf[c] => t = c
ASSUME RunLeaseAssumption == Free \notin Orchestrators /\ Orphan \notin Orchestrators
ASSUME RunBatchAssumption ==
    {<<"begin", "plan">>, <<"work">>, <<"finish">>, <<"hold">>, <<"settle">>} \subseteq Batches

VARIABLES runLease,  \* Free, Orphan, or the orchestrator that holds it
          orch,      \* orchestrator -> where Orchestrator.run is
          mine,      \* orchestrator -> the number of the run it began, or 0
          serves,    \* child -> the number of the run its context names, 0 until launched
          busy       \* the executor threads and the children with an attempt

runVars == <<runLease, orch, mine, serves, busy>>
vars == <<logVars, runVars>>

(* "refused" leaves before `run' is assigned, "closed" after finish_run. *)
OrchPhases == {"out", "entered", "beginning", "running", "closing", "finishing", "holding",
               "aborting", "refused", "closed"}

TypeOK ==
    /\ LogTypeOK
    /\ runLease \in Orchestrators \cup {Free, Orphan}
    /\ orch \in [Orchestrators -> OrchPhases]
    /\ mine \in [Orchestrators -> Nat]
    /\ serves \in [Children -> Nat]
    /\ busy \subseteq Threads

Init ==
    /\ LogInit
    /\ runLease = Free
    /\ orch = [d \in Orchestrators |-> "out"]
    /\ mine = [d \in Orchestrators |-> 0]
    /\ serves = [c \in Children |-> 0]
    /\ busy = {}

-----------------------------------------------------------------------------
Beginnings(rows) == {i \in DOMAIN rows : rows[i].kind = "begin"}
StatusRows(rows) ==
    {i \in DOMAIN rows : rows[i].kind \in {"begin", "finish", "hold", "settle"}}

RunCount(rows) == Cardinality(Beginnings(rows))
RunStatus(rows) ==
    IF StatusRows(rows) = {} THEN "none" ELSE rows[Max(StatusRows(rows))].kind

(* RUNNING or RECOVERY_REQUIRED: no run may begin, and the operator may    *)
(* reconcile this one.                                                     *)
Open(rows) == RunStatus(rows) \in {"begin", "hold"}

(* ControlStore._running: run r is the latest and RUNNING. *)
Running(rows, r) == RunStatus(rows) = "begin" /\ RunCount(rows) = r

Pool(d) == {t \in Threads : DriverOf[t] = d} \ {Main[d]}
MainIdle(d) == phase[Main[d]] = "idle"
To(d, where) == orch' = [orch EXCEPT ![d] = where]

-----------------------------------------------------------------------------
(* The run lease, taken without waiting. *)
Enter(d) ==
    /\ orch[d] = "out" /\ runLease = Free
    /\ runLease' = d
    /\ To(d, "entered")
    /\ UNCHANGED <<logVars, mine, serves, busy>>

EnterUnanswered(d) ==
    /\ orch[d] = "out" /\ runLease = Free
    /\ runLease' = Orphan
    /\ UNCHANGED <<logVars, orch, mine, serves, busy>>

(* guard.check(), then clear_cache. *)
Start(d) ==
    /\ orch[d] = "entered" /\ runLease = d
    /\ ClearCache(d)
    /\ To(d, "beginning")
    /\ UNCHANGED <<runLease, mine, serves, busy>>

StartFails(d) ==
    /\ orch[d] = "entered"
    /\ To(d, "refused")
    /\ UNCHANGED <<logVars, runLease, mine, serves, busy>>

(* begin_run's action, on the history its transaction read. *)
BeginRun(d) ==
    LET t == Main[d]
    IN  /\ orch[d] = "beginning"
        /\ IF Open(history[t])
             THEN PutNothing(t, "raised") /\ UNCHANGED mine
             ELSE /\ Put(t, <<"begin", "plan">>)
                  /\ mine' = [mine EXCEPT ![d] = RunCount(history[t]) + 1]
        /\ UNCHANGED <<runLease, orch, serves, busy>>

Began(d) ==
    /\ orch[d] = "beginning" /\ MainIdle(d)
    /\ \/ outcome[Main[d]] = "returned" /\ To(d, "running")
       \/ outcome[Main[d]] = "raised" /\ To(d, "refused")
    /\ UNCHANGED <<logVars, runLease, mine, serves, busy>>

-----------------------------------------------------------------------------
(* The scheduling loop: the main thread and the pool write for the run. *)
Dispatch(d, t) ==
    /\ orch[d] = "running" /\ runLease = d /\ MainIdle(d)
    /\ t \in Pool(d) \ busy /\ outcome[t] # "raised"
    /\ busy' = busy \cup {t}
    /\ UNCHANGED <<logVars, runLease, orch, mine, serves>>

AttemptEnds(t) ==
    /\ t \in busy \ Children /\ phase[t] = "idle"
    /\ busy' = busy \ {t}
    /\ UNCHANGED <<logVars, runLease, orch, mine, serves>>

(* Whatever they write is for the run, and only while it is RUNNING. *)
Work(d, t) ==
    /\ \/ t = Main[d] /\ orch[d] = "running"
       \/ t \in busy /\ t \in Pool(d)
    /\ IF Running(history[t], mine[d])
         THEN Put(t, <<"work">>)
         ELSE PutNothing(t, "raised")
    /\ UNCHANGED runVars

-----------------------------------------------------------------------------
(* A remote child.  An executor thread submits it with the attempt's       *)
(* context, which names the run; the platform may take it up as late as it *)
(* likes, and nothing ends it with its orchestrator.                       *)
Launch(d, c) ==
    /\ serves[c] = 0
    /\ \E t \in busy \cap Pool(d) : phase[t] = "idle"
    /\ serves' = [serves EXCEPT ![c] = mine[d]]
    /\ busy' = busy \cup {c}
    /\ UNCHANGED <<logVars, runLease, orch, mine>>

WorkForAnyRun(c) ==
    /\ c \in busy
    /\ IF RunStatus(history[c]) = "begin"
         THEN Put(c, <<"work">>)
         ELSE PutNothing(c, "raised")
    /\ UNCHANGED runVars

(* claim, put_outbox and finish_attempt ask for the run of the context,    *)
(* and not for its owner.                                                  *)
ChildWork(c) ==
    /\ c \in busy
    /\ IF Running(history[c], serves[c])
         THEN Put(c, <<"work">>)
         ELSE PutNothing(c, "raised")
    /\ UNCHANGED runVars

(* Its process ends, or dies wherever it is. *)
ChildEnds(c) ==
    /\ c \in busy
    /\ DriverDies(DriverOf[c])
    /\ busy' = busy \ {c}
    /\ UNCHANGED <<runLease, orch, mine, serves>>

-----------------------------------------------------------------------------
(* guard.check() fails, or what an executor thread or the main thread      *)
(* itself raised leaves the loop; a thread's exception waits for reap().   *)
LoopRaises(d) ==
    /\ orch[d] = "running" /\ MainIdle(d)
    /\ To(d, "aborting")
    /\ UNCHANGED <<logVars, runLease, mine, serves, busy>>

Close(d) ==
    /\ orch[d] = "running" /\ MainIdle(d)
    /\ \A t \in Pool(d) : t \notin busy /\ outcome[t] # "raised"
    /\ outcome[Main[d]] # "raised"
    /\ To(d, "closing")
    /\ UNCHANGED <<logVars, runLease, mine, serves, busy>>

(* finish_run's action: the summary decides between closing the run and    *)
(* RECOVERY_REQUIRED.                                                      *)
FinishRun(d) ==
    LET t == Main[d]
    IN  /\ orch[d] = "closing"
        /\ \E how \in {"finish", "hold"} :
               /\ To(d, IF how = "finish" THEN "finishing" ELSE "holding")
               /\ IF Running(history[t], mine[d])
                    THEN Put(t, <<how>>)
                    ELSE PutNothing(t, "raised")
        /\ UNCHANGED <<runLease, mine, serves, busy>>

Finished(d) ==
    /\ orch[d] = "finishing" /\ MainIdle(d)
    /\ outcome[Main[d]] = "returned"
    /\ To(d, "closed")
    /\ UNCHANGED <<logVars, runLease, mine, serves, busy>>

FinishRaises(d) ==
    /\ orch[d] \in {"closing", "finishing", "holding"} /\ MainIdle(d)
    /\ outcome[Main[d]] = "raised"
    /\ To(d, "aborting")
    /\ UNCHANGED <<logVars, runLease, mine, serves, busy>>

-----------------------------------------------------------------------------
(* The orchestrator leaves: guard.release(), which does nothing once the   *)
(* lease is retained, and which may itself fail.  Its services go with it, *)
(* and the cache of its DeltaEvents with them.                             *)
Leaves(d, left) ==
    /\ runLease' = IF runLease = d THEN left ELSE runLease
    /\ To(d, "out")
    /\ mine' = [mine EXCEPT ![d] = 0]
    /\ cache' = [cache EXCEPT ![d] = << >>]
    /\ outcome' = [t \in Threads |-> IF DriverOf[t] = d THEN "none" ELSE outcome[t]]
    /\ UNCHANGED <<table, lease, phase, history, pending, write, serves, busy>>

HeldReleases(d) ==
    /\ \/ orch[d] = "aborting" /\ MainIdle(d) /\ Pool(d) \cap busy = {} /\ Leaves(d, Orphan)
       \/ /\ orch[d] = "holding" /\ MainIdle(d) /\ outcome[Main[d]] = "returned"
          /\ Leaves(d, Free)

AbortAtOnce(d) ==
    \/ orch[d] = "aborting" /\ MainIdle(d) /\ Leaves(d, Orphan)
    \/ /\ orch[d] = "holding" /\ MainIdle(d) /\ outcome[Main[d]] = "returned"
       /\ Leaves(d, Orphan)

(* The pool is shut down, waiting for its threads, before the lease is     *)
(* retained; a run that needs recovery retains it too.                     *)
Retain(d) ==
    \/ orch[d] = "aborting" /\ MainIdle(d) /\ Pool(d) \cap busy = {} /\ Leaves(d, Orphan)
    \/ /\ orch[d] = "holding" /\ MainIdle(d) /\ outcome[Main[d]] = "returned"
       /\ Leaves(d, Orphan)

Leave(d) ==
    /\ orch[d] \in {"refused", "closed"}
    /\ \E left \in {Free, Orphan} : Leaves(d, left)

(* Its threads die with it, its children do not. *)
OrchestratorDies(d) ==
    /\ DriverDies(d)
    /\ runLease' = IF runLease = d THEN Orphan ELSE runLease
    /\ To(d, "out")
    /\ mine' = [mine EXCEPT ![d] = 0]
    /\ busy' = busy \ Pool(d)
    /\ UNCHANGED serves

-----------------------------------------------------------------------------
(* The operator, once every orchestrator and every child has stopped. *)
AllStopped == busy \cap Children = {} /\ \A d \in Orchestrators : orch[d] = "out"

BreakControlLease == AllStopped /\ BreakLease /\ UNCHANGED runVars

BreakRunLease ==
    /\ AllStopped /\ Quiet /\ runLease = Orphan
    /\ runLease' = Free
    /\ UNCHANGED <<logVars, orch, mine, serves, busy>>

(* reconcile's action. *)
Reconcile ==
    /\ IF Open(history[Desk])
         THEN Put(Desk, <<"settle">>)
         ELSE PutNothing(Desk, "raised")
    /\ UNCHANGED runVars

DeskDies == DriverDies(DriverOf[Desk]) /\ UNCHANGED runVars

-----------------------------------------------------------------------------
(* The thread's caller is about to open a transaction: the main thread for *)
(* begin_run, its loop or finish_run, a busy executor thread, a child (at  *)
(* any time, whatever has become of its orchestrator), the operator.       *)
MayOpen(t) ==
    \/ \E d \in Orchestrators :
           \/ /\ t = Main[d]
              /\ orch[d] \in {"beginning", "running", "closing"}
              /\ orch[d] = "beginning" => outcome[t] = "none"
              /\ outcome[t] # "raised"
           \/ t \in busy /\ t \in Pool(d)
    \/ t \in busy /\ t \in Children
    \/ t = Desk /\ AllStopped

Opens(t) ==
    /\ MayOpen(t)
    /\ Acquire(t) \/ AcquireUnanswered(t) \/ AcquireRefused(t)
    /\ UNCHANGED runVars

Looks(t) == MayOpen(t) /\ Look(t) /\ UNCHANGED runVars

Transacts(t) == (LogStep(t) \/ Storage(t)) /\ UNCHANGED runVars

Next ==
    \/ \E d \in Orchestrators :
           \/ Enter(d) \/ EnterUnanswered(d) \/ Start(d) \/ StartFails(d)
           \/ BeginRun(d) \/ Began(d)
           \/ \E t \in Threads : Dispatch(d, t) \/ Work(d, t)
           \/ LoopRaises(d) \/ Close(d)
           \/ FinishRun(d) \/ Finished(d) \/ FinishRaises(d)
           \/ Retain(d) \/ Leave(d) \/ OrchestratorDies(d)
           \/ \E c \in Children : Launch(d, c)
    \/ \E c \in Children : ChildWork(c) \/ ChildEnds(c)
    \/ \E t \in Threads : AttemptEnds(t) \/ Opens(t) \/ Looks(t) \/ Transacts(t)
    \/ BreakControlLease \/ BreakRunLease \/ Reconcile \/ DeskDies

Spec == Init /\ [][Next]_vars

-----------------------------------------------------------------------------
(* Runs do not overlap in the control log, and every row is written for    *)
(* the run that was open when it was committed: by the orchestrator that   *)
(* began that run or, for work, by a child whose context names it.  This   *)
(* although a check is made on a cached history, an append may land after  *)
(* its writer gave up, and a child of an earlier run may still call        *)
(* (ControlStore.begin_run, _running, finish_run, reconcile).              *)
RunsAreSerial ==
    \A i \in DOMAIN table :
        LET before == SubSeq(table, 1, i - 1)
            owner  == DriverOf[table[Max(Beginnings(before))].by]
            by     == table[i].by
        IN  CASE table[i].kind = "begin"  -> ~Open(before)
              [] table[i].kind = "settle" -> Open(before)
              [] OTHER -> /\ RunStatus(before) = "begin"
                          /\ IF by \in Children
                               THEN table[i].kind = "work" /\ serves[by] = RunCount(before)
                               ELSE DriverOf[by] = owner

(* An orchestrator that knew of its run gives the run lease up for others  *)
(* only when that run is closed: whatever is aborted, uncertain or killed  *)
(* keeps every other orchestrator out until an operator has looked         *)
(* (Orchestrator.run, guard.retain).                                       *)
QuarantineHolds ==
    [][\A d \in Orchestrators :
           runLease = d /\ runLease' = Free /\ orch[d] # "refused" => ~Open(table)]_vars

(* No thread of an orchestrator that has left is still at work (its remote *)
(* children may be), and an append it left behind cannot meet another      *)
(* writer (DispatchSession.__exit__, DeltaEvents.transaction).             *)
LeftQuiet ==
    \A d \in Orchestrators : orch[d] = "out" =>
        \A t \in Threads : DriverOf[t] = d =>
            /\ t \notin busy /\ phase[t] = "idle"
            /\ write[t] = "sent" => lease = Orphan

(* "A crashed/uncertain run retains its run lease" (design.md): an         *)
(* orchestrator whose begin_run was committed gives up the lease only when *)
(* that run is closed.                                                     *)
CrashedRunRetainsLease ==
    [][\A d \in Orchestrators :
           runLease = d /\ runLease' = Free => ~Running(table, mine[d])]_vars
=============================================================================
