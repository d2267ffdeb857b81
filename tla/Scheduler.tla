------------------------------ MODULE Scheduler ------------------------------
(***************************************************************************)
(* One physical run: the scheduling loop of Orchestrator._execute_graph    *)
(* (src/spark_dag/orchestrator.py) with its DispatchSession, the executor  *)
(* threads (src/spark_dag/executors.py) and the child workers              *)
(* (src/spark_dag/worker.py), composed through the node records of the     *)
(* control store.                                                          *)
(*                                                                         *)
(* The loop works on a snapshot of the records, `recs', taken at its top   *)
(* and patched by its own writes, while children and executors move the    *)
(* store on.  Each transaction of the store is one step, each pass of a    *)
(* loop over the plan is one step per node, and time is three flags: the   *)
(* run deadline has passed (`expired'), a retry's backoff is over (`due'), *)
(* and, drawn at the commit, an attempt's own deadline has passed.         *)
(*                                                                         *)
(* ReservedBeforeNone, ReapLate, SnapshotIgnoringUncertain,                *)
(* MustWaitForSuccess, MustWaitForTerminal, CanReuseInvalidated,           *)
(* WakeOnCompletion, SummaryOfFailure, SummaryIgnoringUncertain,           *)
(* ExecutorSettlesEarly and ExecutorOverrules are faults a change of the   *)
(* code could bring in; no action uses them.                               *)
(***************************************************************************)
EXTENDS ControlRecords, Sequences, FiniteSets

CONSTANTS
    Nodes,          \* the nodes of the DAG
    Plan,           \* their topological order (validate_dag)
    Deps,           \* node -> the set of nodes it depends on
    Trigger,        \* node -> its trigger type
    Critical,       \* the nodes whose failure fails the run
    ConditionFalse, \* the nodes whose trigger condition does not hold
    MaxRetries,     \* node -> automatic retries; 0 unless restartable and idempotent
    Unreadable,     \* the nodes whose source may be unreadable while they are planned
    Refused,        \* the nodes whose re-execution needs an approval the request lacks
    Priors,         \* the histories [status, reusable] the parent run may have left
    Origins,        \* the nodes the request invalidates (force_restart, force_rerun)
    MaxParallel,    \* concurrency.max_parallel
    Budgets,        \* the concurrency groups and named resources
    Demand,         \* node -> budget -> how much of it an attempt takes
    Limit,          \* budget -> how much of it there is
    FailFast,       \* runtime.failure_policy = "fail_fast"
    Eager,          \* runtime.scheduling = "eager" (otherwise "barrier")
    Remote          \* children are remote runs, whose end may stay unconfirmed

(* validate_dag's plan names every node once, its dependencies before it. *)
ASSUME PlanAssumption ==
    /\ Plan \in Seq(Nodes)
    /\ Nodes = {Plan[i] : i \in 1..Len(Plan)}
    /\ \A i, j \in 1..Len(Plan) : Plan[i] = Plan[j] => i = j
    /\ \A i \in 1..Len(Plan) : Deps[Plan[i]] \subseteq {Plan[j] : j \in 1..(i - 1)}
ASSUME ConfigurationAssumption ==
    /\ Deps \in [Nodes -> SUBSET Nodes]
    /\ Trigger \in [Nodes -> {"all_success", "any_success", "all_done", "any_failed",
                              "any_timed_out"}]
    /\ MaxRetries \in [Nodes -> Nat]
    /\ Critical \subseteq Nodes /\ Origins \subseteq Nodes
    /\ FailFast \in BOOLEAN /\ Eager \in BOOLEAN /\ Remote \in BOOLEAN
ASSUME FitsAloneAssumption ==
    /\ MaxParallel \in Nat \ {0}
    /\ Demand \in [Nodes -> [Budgets -> Nat]] /\ Limit \in [Budgets -> Nat]
    /\ \A n \in Nodes, b \in Budgets : Demand[n][b] <= Limit[b]
ASSUME RefusedAssumption == \A n \in Refused : MaxRetries[n] = 0

VARIABLES
    \* the store and the world
    node,       \* node -> its control record
    runStatus,  \* the run record's status
    expired,    \* the run deadline has passed
    due,        \* node -> its ready_at has passed
    prior,      \* node -> [status, reusable] in the parent run
    \* the dispatch session and the workers
    exec,       \* node -> "idle", "running", or "done" (a completed future, not yet reaped)
    child,      \* node -> attempt -> phase of its worker, "none" when it is not alive
    \* the orchestrator
    pc, at,     \* the phase of the loop, and the position in the plan
    recs,       \* the snapshot `records'
    active,     \* the snapshot of dispatch.active_nodes
    reserved,   \* nodes whose budgets are taken
    changed,    \* the iteration wrote to the store
    alarm,      \* the READY nodes whose due time the loop sleeps for
    invalid,    \* nodes whose prior success may not be reused
    decided     \* the summary status

storeVars == <<node, runStatus>>
timeVars  == <<expired, due>>
workVars  == <<exec, child>>
loopVars  == <<pc, at, recs, active, reserved, changed, alarm, invalid, decided>>
vars      == <<node, runStatus, expired, due, prior, exec, child, pc, at, recs,
               active, reserved, changed, alarm, invalid, decided>>

Attempts == UNION {1..(1 + MaxRetries[n]) : n \in Nodes}
Phases   == {"none", "launched", "claimed", "reported"}
Blank    == [n \in Nodes |-> PendingNode]

-----------------------------------------------------------------------------
(* The graph *)

(* What a node depends on, directly or not: the least set that holds its   *)
(* dependencies and, with a node, that node's dependencies.                *)
Ancestors ==
    [n \in Nodes |->
        {m \in Nodes : \A S \in SUBSET Nodes :
            Deps[n] \subseteq S /\ (\A k \in S : Deps[k] \subseteq S) => m \in S}]

Descendants(origins) == origins \cup {n \in Nodes : Ancestors[n] \cap origins # {}}

Matches(n, states) ==
    CASE Trigger[n] = "all_success"   -> \A d \in Deps[n] : states[d].status \in Success
      [] Trigger[n] = "any_success"   -> \E d \in Deps[n] : states[d].status \in Success
      [] Trigger[n] = "all_done"      -> TRUE
      [] Trigger[n] = "any_failed"    ->
             \E d \in Deps[n] : states[d].status \in {"FAILED", "TIMED_OUT", "BLOCKED"}
      [] Trigger[n] = "any_timed_out" ->
             \E d \in Deps[n] : states[d].status = "TIMED_OUT"

(* The status a node gets when its trigger does not match. *)
TriggerStatus(n, states) ==
    IF Trigger[n] \in {"all_success", "any_success"}
       /\ \E d \in Deps[n] : states[d].status \in Bad
    THEN "BLOCKED"
    ELSE "SKIPPED_CONDITION"

Retryable(n, record) ==
    /\ record.status \in {"FAILED", "TIMED_OUT"}
    /\ ~record.uncertain
    /\ record.retryable
    /\ record.attempt <= MaxRetries[n]

-----------------------------------------------------------------------------
(* Capacity *)

(* The units of budget b that the holders take, each unit counted once. *)
Used(b, holders) == Cardinality(UNION {{n} \X (1..Demand[n][b]) : n \in holders})

Fits(n, holders) ==
    /\ Cardinality(holders) < MaxParallel
    /\ \A b \in Budgets : Used(b, holders) + Demand[n][b] <= Limit[b]

ReservedBeforeNone == {}

(* What is reserved before the READY attempts: the attempts still running. *)
ReservedBefore == active

-----------------------------------------------------------------------------
Init ==
    /\ node = Blank
    /\ runStatus = "RUNNING"
    /\ expired = FALSE
    /\ due = [n \in Nodes |-> TRUE]
    /\ prior \in Priors
    /\ exec = [n \in Nodes |-> "idle"]
    /\ child = [n \in Nodes |-> [a \in Attempts |-> "none"]]
    /\ pc = "reap" /\ at = 1
    /\ recs = Blank
    /\ active = {} /\ reserved = {} /\ changed = FALSE /\ alarm = {}
    /\ invalid = Descendants(Origins \cup
                   {n \in Nodes : prior[n].status # "NONE" /\ prior[n].status \notin Success})
    /\ decided = "none"

(* The futures the session still holds. *)
Pending == {n \in Nodes : exec[n] # "idle"}

(* The loop variables are assigned afresh by the next iteration. *)
EndIteration(phase) ==
    /\ pc' = phase /\ at' = 1
    /\ recs' = Blank /\ active' = {} /\ reserved' = {} /\ changed' = FALSE /\ alarm' = {}

(* A step of a loop over the plan that the node at `at' ends. *)
InLoop(phases) == pc \in phases /\ at <= Len(Plan)
Advance == at' = at + 1 /\ UNCHANGED pc
LeaveLoop(from, to) == pc = from /\ at > Len(Plan) /\ pc' = to /\ at' = 1

(* A transaction of the orchestrator on node n, copied into its snapshot. *)
Store(n, record) ==
    /\ node' = [node EXCEPT ![n] = record]
    /\ recs' = [recs EXCEPT ![n] = record]
    /\ UNCHANGED runStatus

-----------------------------------------------------------------------------
ReapLate ==
    /\ pc = "reap"
    /\ exec' = [n \in Nodes |-> IF exec[n] = "done" THEN "idle" ELSE exec[n]]
    /\ active' = {}
    /\ pc' = "snapshot"
    /\ UNCHANGED <<storeVars, timeVars, prior, child, at, recs, reserved, changed,
                   alarm, invalid, decided>>

(* The top of the loop: completed futures are reaped, then the records are *)
(* read.  In barrier mode submit returns only when its whole batch has.    *)
Reap ==
    /\ pc = "reap"
    /\ exec' = [n \in Nodes |-> IF exec[n] = "done" THEN "idle" ELSE exec[n]]
    /\ active' = {n \in Nodes : exec[n] = "running"}
    /\ pc' = "snapshot"
    /\ UNCHANGED <<storeVars, timeVars, prior, child, at, recs, reserved, changed,
                   alarm, invalid, decided>>

SnapshotIgnoringUncertain ==
    /\ pc = "snapshot"
    /\ recs' = node
    /\ pc' = "retry"
    /\ UNCHANGED <<storeVars, timeVars, workVars, prior, at, active, reserved,
                   changed, alarm, invalid, decided>>

Snapshot ==
    /\ pc = "snapshot"
    /\ recs' = node
    /\ pc' = IF \E n \in Nodes : node[n].uncertain THEN "drain" ELSE "retry"
    /\ UNCHANGED <<storeVars, timeVars, workVars, prior, at, active, reserved,
                   changed, alarm, invalid, decided>>

(* Eligible failures get a new attempt, READY once its backoff is over. *)
Retry ==
    /\ InLoop({"retry"})
    /\ LET n == Plan[at]
       IN  IF n \notin active /\ ~expired /\ Retryable(n, recs[n])
           THEN /\ Preparable(node[n])
                /\ Store(n, Prepared(node[n]))
                /\ due' = [due EXCEPT ![n] = FALSE]
                /\ changed' = TRUE
           ELSE UNCHANGED <<storeVars, due, recs, changed>>
    /\ Advance
    /\ UNCHANGED <<expired, workVars, prior, active, reserved, alarm, invalid, decided>>

RetryDone ==
    /\ \/ /\ active = {} /\ \A n \in Nodes : recs[n].status \in Terminal
          /\ LeaveLoop("retry", "drain")
       \/ /\ ~(active = {} /\ \A n \in Nodes : recs[n].status \in Terminal)
          /\ LeaveLoop("retry", "cancel")
    /\ UNCHANGED <<storeVars, timeVars, workVars, prior, recs, active, reserved,
                   changed, alarm, invalid, decided>>

(* cancel_pending, run before and after planning and when the deadline     *)
(* passed just before a dispatch.                                          *)
FailingFast ==
    /\ FailFast
    /\ \E n \in Critical \ active :
           recs[n].status \in Bad /\ ~Retryable(n, recs[n])

Cancel ==
    /\ InLoop({"cancel", "cancel2", "cancel3"})
    /\ LET n == Plan[at]
       IN  IF /\ n \notin active
              /\ recs[n].status \in {"PENDING", "READY"}
              /\ expired \/ (FailingFast /\ Trigger[n] \in {"all_success", "any_success"})
           THEN /\ Skippable(node[n], "CANCELLED")
                /\ Store(n, Skipped(node[n], "CANCELLED"))
                /\ changed' = TRUE
           ELSE UNCHANGED <<storeVars, recs, changed>>
    /\ Advance
    /\ UNCHANGED <<timeVars, workVars, prior, active, reserved, alarm, invalid, decided>>

CancelDone ==
    /\ \/ LeaveLoop("cancel", "reserve") /\ reserved' = ReservedBefore
       \/ LeaveLoop("cancel2", "submit") /\ UNCHANGED reserved
    /\ UNCHANGED <<storeVars, timeVars, workVars, prior, recs, active, changed,
                   alarm, invalid, decided>>

CancelLast ==
    /\ pc = "cancel3" /\ at > Len(Plan)
    /\ EndIteration("reap")
    /\ UNCHANGED <<storeVars, timeVars, workVars, prior, invalid, decided>>

(* READY attempts whose time has come take what is left, in plan order. *)
Reserve ==
    /\ InLoop({"reserve"})
    /\ LET n == Plan[at]
       IN  reserved' = IF n \notin active /\ recs[n].status = "READY" /\ due[n]
                          /\ Fits(n, reserved)
                       THEN reserved \cup {n}
                       ELSE reserved
    /\ Advance
    /\ UNCHANGED <<storeVars, timeVars, workVars, prior, recs, active, changed,
                   alarm, invalid, decided>>

ReserveDone ==
    /\ LeaveLoop("reserve", "plan")
    /\ UNCHANGED <<storeVars, timeVars, workVars, prior, recs, active, reserved,
                   changed, alarm, invalid, decided>>

-----------------------------------------------------------------------------
(* Planning: one PENDING node whose dependencies are settled is skipped,   *)
(* reused, refused or prepared for dispatch.                               *)
MustWaitForSuccess(n) ==
    \/ n \in active
    \/ recs[n].status # "PENDING"
    \/ Deps[n] \cap active # {}
    \/ \E d \in Deps[n] : recs[d].status \notin Success \/ Retryable(d, recs[d])

MustWaitForTerminal(n) ==
    \/ n \in active
    \/ recs[n].status # "PENDING"
    \/ Deps[n] \cap active # {}
    \/ \E d \in Deps[n] : recs[d].status \notin Terminal

MustWait(n) ==
    \/ n \in active
    \/ recs[n].status # "PENDING"
    \/ Deps[n] \cap active # {}
    \/ \E d \in Deps[n] : recs[d].status \notin Terminal \/ Retryable(d, recs[d])

(* The inputs are those of the prior run: every dependency is a success    *)
(* again, or ended in the same other status.                               *)
Normalised(status) == IF status \in Success THEN "SUCCEEDED" ELSE status

SameInputs(n) ==
    \A d \in Deps[n] : Normalised(recs[d].status) = Normalised(prior[d].status)

CanReuseInvalidated(n) ==
    prior[n].status \in Success /\ prior[n].reusable /\ SameInputs(n)

CanReuse(n) ==
    /\ n \notin invalid
    /\ prior[n].status \in Success
    /\ prior[n].reusable
    /\ SameInputs(n)

Invalidate(n) ==
    invalid' = IF n \in invalid THEN invalid ELSE invalid \cup Descendants({n})

Planning(n) == InLoop({"plan"}) /\ n = Plan[at] /\ ~MustWait(n)

PlanPass ==
    /\ InLoop({"plan"})
    /\ LET n == Plan[at]
       IN  MustWait(n) \/ (Matches(n, recs) /\ ~Fits(n, reserved))
    /\ Advance
    /\ UNCHANGED <<storeVars, timeVars, workVars, prior, recs, active, reserved,
                   changed, alarm, invalid, decided>>

(* A trigger that does not match needs no capacity; a false condition is   *)
(* evaluated only once the node would fit.                                 *)
PlanSkip(n) ==
    /\ Planning(n)
    /\ \/ /\ ~Matches(n, recs)
          /\ Skippable(node[n], TriggerStatus(n, recs))
          /\ Store(n, Skipped(node[n], TriggerStatus(n, recs)))
       \/ /\ Matches(n, recs) /\ Fits(n, reserved) /\ n \in ConditionFalse
          /\ Skippable(node[n], "SKIPPED_CONDITION")
          /\ Store(n, Skipped(node[n], "SKIPPED_CONDITION"))
    /\ changed' = TRUE
    /\ Advance
    /\ UNCHANGED <<timeVars, workVars, prior, active, reserved, alarm, invalid, decided>>

Considered(n) ==
    Planning(n) /\ Matches(n, recs) /\ Fits(n, reserved) /\ n \notin ConditionFalse

PlanReuse(n) ==
    /\ Considered(n)
    /\ CanReuse(n)
    /\ Skippable(node[n], "SKIPPED_ALREADY_SATISFIED")
    /\ Store(n, Reused(node[n], [outputs |-> NoOutput, reusedFrom |-> 0], 0))
    /\ changed' = TRUE
    /\ Advance
    /\ UNCHANGED <<timeVars, workVars, prior, active, reserved, alarm, invalid, decided>>

(* A planning error takes an attempt of its own: it is prepared here and   *)
(* finished as FAILED by the next transaction.                             *)
PlanError(n) ==
    /\ Considered(n)
    /\ n \in Unreadable \/ (n \in Refused /\ ~CanReuse(n))
    /\ Preparable(node[n])
    /\ Store(n, Prepared(node[n]))
    /\ pc' = "planfail"
    /\ UNCHANGED <<timeVars, workVars, prior, at, active, reserved, changed, alarm,
                   invalid, decided>>

PlanFails(n) ==
    /\ pc = "planfail" /\ n = Plan[at]
    /\ Finishable(node[n], recs[n].attempt, TRUE)
    /\ \E retryable \in IF n \in Unreadable THEN BOOLEAN ELSE {FALSE} :
           Store(n, Finished(node[n], "FAILED", retryable, FALSE, NoOutput, FALSE))
    /\ Invalidate(n)
    /\ changed' = TRUE
    /\ pc' = "plan" /\ at' = at + 1
    /\ UNCHANGED <<timeVars, workVars, prior, active, reserved, alarm, decided>>

PlanDispatch(n) ==
    /\ Considered(n)
    /\ ~CanReuse(n) /\ n \notin Refused
    /\ Preparable(node[n])
    /\ Store(n, Prepared(node[n]))
    /\ Invalidate(n)
    /\ reserved' = reserved \cup {n}
    /\ changed' = TRUE
    /\ Advance
    /\ UNCHANGED <<timeVars, workVars, prior, active, alarm, decided>>

PlanDone ==
    /\ LeaveLoop("plan", "cancel2")
    /\ UNCHANGED <<storeVars, timeVars, workVars, prior, recs, active, reserved,
                   changed, alarm, invalid, decided>>

-----------------------------------------------------------------------------
(* Dispatch.  submit refuses more than max_parallel futures and a node     *)
(* that already has one: either would abort the run.                       *)
Batch == {n \in reserved \ active : recs[n].status = "READY"}

SubmitOverdue ==
    /\ pc = "submit" /\ Batch # {} /\ expired
    /\ pc' = "cancel3" /\ at' = 1
    /\ UNCHANGED <<storeVars, timeVars, workVars, prior, recs, active, reserved,
                   changed, alarm, invalid, decided>>

Submit ==
    /\ pc = "submit" /\ Batch # {} /\ ~expired
    /\ Cardinality(Pending) + Cardinality(Batch) <= MaxParallel
    /\ Pending \cap Batch = {}
    /\ exec' = [n \in Nodes |-> IF n \in Batch THEN "running" ELSE exec[n]]
    /\ child' = [n \in Nodes |-> IF n \in Batch
                                 THEN [child[n] EXCEPT ![recs[n].attempt] = "launched"]
                                 ELSE child[n]]
    /\ EndIteration(IF Eager THEN "reap" ELSE "barrier")
    /\ UNCHANGED <<storeVars, timeVars, prior, invalid, decided>>

BatchReturns ==
    /\ pc = "barrier"
    /\ \A n \in Nodes : exec[n] # "running"
    /\ exec' = [n \in Nodes |-> "idle"]
    /\ pc' = "reap"
    /\ UNCHANGED <<storeVars, timeVars, prior, child, at, recs, active, reserved,
                   changed, alarm, invalid, decided>>

(* Nothing to dispatch: another iteration if this one wrote, otherwise     *)
(* sleep until a future completes, a due time comes or the run deadline    *)
(* passes.  With no future and no READY node nothing could ever wake it.   *)
NothingToSubmit ==
    /\ pc = "submit" /\ Batch = {}
    /\ \/ changed /\ EndIteration("reap")
       \/ /\ ~changed
          /\ alarm' = {n \in Nodes \ active : recs[n].status = "READY"
                                              /\ (Pending # {} => ~due[n])}
          /\ pc' = IF Pending = {} /\ alarm' = {} THEN "stalled" ELSE "wait"
          /\ UNCHANGED <<at, recs, active, reserved, changed>>
    /\ UNCHANGED <<storeVars, timeVars, workVars, prior, invalid, decided>>

WakeOnCompletion ==
    /\ pc = "wait"
    /\ \E n \in Nodes : exec[n] = "done"
    /\ EndIteration("reap")
    /\ UNCHANGED <<storeVars, timeVars, workVars, prior, invalid, decided>>

Wake ==
    /\ pc = "wait"
    /\ \/ expired
       \/ \E n \in Nodes : exec[n] = "done"
       \/ \E n \in alarm : due[n]
    /\ EndIteration("reap")
    /\ UNCHANGED <<storeVars, timeVars, workVars, prior, invalid, decided>>

(* The session closes when every future has completed; then the summary is *)
(* computed and the run is finished.                                       *)
SummaryIgnoringUncertain ==
    IF \E n \in Critical : node[n].status \in Bad THEN "FAILED" ELSE "SUCCEEDED"

SummaryOfFailure ==
    LET failed == {n \in Critical : node[n].status \in Bad}
    IN  IF \E n \in Nodes : node[n].uncertain THEN "RECOVERY_REQUIRED"
        ELSE IF failed # {} THEN node[CHOOSE n \in failed : TRUE].status
        ELSE "SUCCEEDED"

Summary ==
    IF \E n \in Nodes : node[n].uncertain THEN "RECOVERY_REQUIRED"
    ELSE IF \E n \in Critical : node[n].status \in Bad THEN "FAILED"
    ELSE "SUCCEEDED"

Summarise ==
    /\ pc = "drain"
    /\ \A n \in Nodes : exec[n] # "running"
    /\ exec' = [n \in Nodes |-> "idle"]
    /\ decided' = Summary
    /\ EndIteration("finish")
    /\ UNCHANGED <<storeVars, timeVars, prior, child, invalid>>

FinishRun ==
    /\ pc = "finish"
    /\ decided # "RECOVERY_REQUIRED" => \A n \in Nodes : node[n].status \in Terminal
    /\ runStatus' = decided
    /\ pc' = "ended"
    /\ UNCHANGED <<node, timeVars, workVars, prior, at, recs, active, reserved,
                   changed, alarm, invalid, decided>>

-----------------------------------------------------------------------------
(* Time *)
RunDeadline ==
    /\ ~expired /\ pc # "ended"
    /\ expired' = TRUE
    /\ UNCHANGED <<storeVars, due, workVars, prior, loopVars>>

BackoffElapses(n) ==
    /\ ~due[n]
    /\ due' = [due EXCEPT ![n] = TRUE]
    /\ UNCHANGED <<storeVars, expired, workVars, prior, loopVars>>

(* The children.  Each runs under the context of one attempt.  *)
SetChild(n, a, phase) == child' = [child EXCEPT ![n][a] = phase]

ChildClaims(n, a) ==
    /\ child[n][a] = "launched"
    /\ runStatus = "RUNNING" /\ Claimable(node[n], a)
    /\ node' = [node EXCEPT ![n] = Claimed(node[n])]
    /\ SetChild(n, a, "claimed")
    /\ UNCHANGED <<runStatus, timeVars, exec, prior, loopVars>>

(* The child commits its own end; past the run deadline a success is late. *)
ChildReports(n, a) ==
    /\ child[n][a] = "claimed"
    /\ runStatus = "RUNNING" /\ Finishable(node[n], a, FALSE)
    /\ \/ \E late \in (IF expired THEN {TRUE} ELSE BOOLEAN) :
              node' = [node EXCEPT ![n] =
                         Finished(node[n], "SUCCEEDED", FALSE, FALSE, <<1, a>>, late)]
       \/ \E status \in {"FAILED", "TIMED_OUT"}, retryable \in BOOLEAN :
              node' = [node EXCEPT ![n] =
                         Finished(node[n], status, retryable, FALSE, NoOutput, FALSE)]
    /\ SetChild(n, a, "reported")
    /\ UNCHANGED <<runStatus, timeVars, exec, prior, loopVars>>

(* It ends: after its report, by a crash or a refused call, or killed (or  *)
(* cancelled) at its deadline.                                             *)
ChildEnds(n, a) ==
    /\ child[n][a] # "none"
    /\ SetChild(n, a, "none")
    /\ UNCHANGED <<storeVars, timeVars, exec, prior, loopVars>>

(* The executor thread of node n.  It learns that the child has stopped;   *)
(* an attempt the child did not report is failed on its behalf.  A record  *)
(* the child did report is left as it is.                                  *)
ExecutorSettlesEarly(n) ==
    /\ exec[n] = "running"
    /\ node' = IF node[n].status \in Terminal THEN node
               ELSE [node EXCEPT ![n] = Finished(@, "FAILED", TRUE, FALSE, NoOutput, FALSE)]
    /\ exec' = [exec EXCEPT ![n] = "done"]
    /\ UNCHANGED <<runStatus, timeVars, child, prior, loopVars>>

ExecutorOverrules(n) ==
    /\ exec[n] = "running"
    /\ child[n][node[n].attempt] = "none"
    /\ node' = [node EXCEPT ![n] = Finished(@, "FAILED", TRUE, FALSE, NoOutput, FALSE)]
    /\ exec' = [exec EXCEPT ![n] = "done"]
    /\ UNCHANGED <<runStatus, timeVars, child, prior, loopVars>>

ExecutorSettles(n) ==
    /\ exec[n] = "running"
    /\ child[n][node[n].attempt] = "none"
    /\ IF node[n].status \in Terminal
       THEN UNCHANGED node
       ELSE \E status \in {"FAILED", "TIMED_OUT"}, retryable \in BOOLEAN :
                node' = [node EXCEPT ![n] =
                           Finished(@, status, retryable, FALSE, NoOutput, FALSE)]
    /\ exec' = [exec EXCEPT ![n] = "done"]
    /\ UNCHANGED <<runStatus, timeVars, child, prior, loopVars>>

(* A remote run whose state cannot be read, or whose cancellation is not   *)
(* confirmed in time: the attempt fails as uncertain while its child may   *)
(* go on.  finish_attempt drops the uncertainty of an attempt whose child  *)
(* has already reported.                                                   *)
ExecutorGivesUp(n) ==
    /\ Remote
    /\ exec[n] = "running"
    /\ IF node[n].status \in Terminal
       THEN UNCHANGED node
       ELSE \E status \in {"FAILED", "TIMED_OUT"} :
                node' = [node EXCEPT ![n] =
                           Finished(@, status, FALSE, TRUE, NoOutput, FALSE)]
    /\ exec' = [exec EXCEPT ![n] = "done"]
    /\ UNCHANGED <<runStatus, timeVars, child, prior, loopVars>>

-----------------------------------------------------------------------------
Orchestrator ==
    \/ Reap \/ Snapshot
    \/ Retry \/ RetryDone
    \/ Cancel \/ CancelDone \/ CancelLast
    \/ Reserve \/ ReserveDone
    \/ PlanPass \/ PlanDone
    \/ \E n \in Nodes : PlanSkip(n) \/ PlanReuse(n) \/ PlanError(n) \/ PlanFails(n)
                        \/ PlanDispatch(n)
    \/ SubmitOverdue \/ Submit \/ BatchReturns \/ NothingToSubmit \/ Wake
    \/ Summarise \/ FinishRun

Executor(n) == ExecutorSettles(n) \/ ExecutorGivesUp(n)

Child(n, a) == ChildClaims(n, a) \/ ChildReports(n, a) \/ ChildEnds(n, a)

(* The run is over; only a child nobody could stop may still move. *)
Ended == pc = "ended" /\ UNCHANGED vars

Next ==
    \/ Orchestrator
    \/ \E n \in Nodes : Executor(n) \/ BackoffElapses(n)
    \/ \E n \in Nodes, a \in Attempts : Child(n, a)
    \/ RunDeadline
    \/ Ended

Spec == Init /\ [][Next]_vars

(* The loop keeps running, executors keep polling, time passes, and a      *)
(* local child ends at its deadline at the latest (its executor kills it). *)
(* Nothing is assumed of a remote child.                                   *)
Fairness ==
    /\ WF_vars(Orchestrator)
    /\ WF_vars(RunDeadline)
    /\ \A n \in Nodes : WF_vars(BackoffElapses(n))
    /\ \A n \in Nodes : WF_vars(Executor(n))
    /\ ~Remote => \A n \in Nodes, a \in Attempts : WF_vars(ChildEnds(n, a))

FairSpec == Spec /\ Fairness

-----------------------------------------------------------------------------
LoopPhases == {"reap", "snapshot", "retry", "cancel", "reserve", "plan", "planfail", "cancel2",
               "submit", "cancel3", "wait", "barrier", "drain", "finish", "ended", "stalled"}

TypeOK ==
    /\ node \in [Nodes -> NodeRecord] /\ recs \in [Nodes -> NodeRecord]
    /\ runStatus \in {"RUNNING", "SUCCEEDED", "FAILED", "RECOVERY_REQUIRED"}
    /\ decided \in {"none", "SUCCEEDED", "FAILED", "RECOVERY_REQUIRED"}
    /\ expired \in BOOLEAN /\ changed \in BOOLEAN
    /\ due \in [Nodes -> BOOLEAN]
    /\ exec \in [Nodes -> {"idle", "running", "done"}]
    /\ child \in [Nodes -> [Attempts -> Phases]]
    /\ pc \in LoopPhases /\ at \in 1..(Len(Plan) + 1)
    /\ active \subseteq Nodes /\ reserved \subseteq Nodes
    /\ alarm \subseteq Nodes /\ invalid \subseteq Nodes

Working(n) == {a \in Attempts : child[n][a] \in {"launched", "claimed"}}

(* The attempts in execution never exceed max_parallel, a group or a       *)
(* resource, although the loop admits them from a snapshot: reservations   *)
(* made in one iteration are not visible in the store.                     *)
WithinBudgets ==
    LET running == {n \in Nodes : exec[n] = "running"}
    IN  /\ Cardinality(running) <= MaxParallel
        /\ \A b \in Budgets : Used(b, running) <= Limit[b]

(* No two attempts of one node are ever at work together, whether the      *)
(* earlier one was killed, timed out, or lost sight of.                    *)
OneWorkerPerNode ==
    \A n \in Nodes : \A a1, a2 \in Working(n) : a1 = a2

(* Between the snapshot and the end of the iteration the loop holds the    *)
(* current record of every node it may write: only records of nodes in     *)
(* `active' move under it.                                                 *)
SnapshotCurrent ==
    pc \in {"retry", "cancel", "reserve", "plan", "planfail", "cancel2", "submit",
            "cancel3"} =>
        \A n \in Nodes \ active : recs[n] = node[n]

(* No call of the loop is refused, which would abort the run: the store    *)
(* accepts every transaction the loop decides on from its snapshot, the    *)
(* session every batch it submits, and finish_run the run it closes.       *)
NeverRefused ==
    /\ \A n \in Nodes \ active :
           /\ pc = "retry" /\ Retryable(n, recs[n]) => Preparable(node[n])
           /\ pc \in {"cancel", "cancel2", "cancel3"} /\ recs[n].status \in {"PENDING", "READY"}
                  => Skippable(node[n], "CANCELLED")
           /\ pc = "plan" /\ recs[n].status = "PENDING" =>
                  Preparable(node[n]) /\ Skippable(node[n], "SKIPPED_CONDITION")
    /\ pc = "planfail" => Finishable(node[Plan[at]], recs[Plan[at]].attempt, TRUE)
    /\ pc = "submit" => /\ Cardinality(Pending) + Cardinality(Batch) <= MaxParallel
                        /\ Pending \cap Batch = {}
    /\ pc = "finish" /\ decided # "RECOVERY_REQUIRED" =>
           \A n \in Nodes : node[n].status \in Terminal

(* Once a node has been planned on the outcome of its dependencies, those  *)
(* outcomes never change: no retry, late report or cancellation replaces a *)
(* status a trigger was evaluated on.                                      *)
DependenciesSettled ==
    [][\A n \in Nodes : node[n].status \notin {"PENDING", "CANCELLED"} =>
           \A d \in Deps[n] : node'[d].status = node[d].status]_vars

(* A node reuses its prior success only when nothing above it, at any      *)
(* distance, was attempted again in this run.                              *)
ReuseOnlyBelowReuse ==
    \A n \in Nodes : node[n].status = "SKIPPED_ALREADY_SATISFIED" =>
        \A m \in Ancestors[n] : node[m].attempt = 0

(* The loop never finds itself with no running and no READY node while     *)
(* work is left (SCHEDULER_STALLED).                                       *)
NeverStalls == pc # "stalled"

(* Nothing below an uncertain node is ever attempted: its side effects may *)
(* still be going on.  (Under fail_fast it can be: an all_done node below  *)
(* a node that fail_fast cancelled does not wait for what is above that.)  *)
UncertainContained ==
    \A d, n \in Nodes : node[d].uncertain /\ d \in Ancestors[n] => node[n].attempt = 0

(* When the run is closed every outcome is the one its trigger asks for,   *)
(* evaluated on the final outcomes of its dependencies and not on some     *)
(* earlier ones: attempted or reused only if the trigger matches, blocked  *)
(* or skipped only if it does not.                                         *)
OutcomesJustified ==
    runStatus \in {"SUCCEEDED", "FAILED"} =>
        \A n \in Nodes :
            /\ node[n].status \in {"SUCCEEDED", "FAILED", "TIMED_OUT", "SKIPPED_ALREADY_SATISFIED"}
                   => Matches(n, node)
            /\ node[n].status = "BLOCKED" =>
                   ~Matches(n, node) /\ \E d \in Deps[n] : node[d].status \in Bad
            /\ node[n].status = "SKIPPED_CONDITION" =>
                   ~Matches(n, node) \/ n \in ConditionFalse

(* A run closed as SUCCEEDED or FAILED leaves no child at work behind it:  *)
(* a worker that could not be confirmed stopped makes it RECOVERY_REQUIRED.*)
QuietWhenClosed ==
    runStatus \in {"SUCCEEDED", "FAILED"} => \A n \in Nodes : Working(n) = {}

(* The run ends, whatever fails: no wake-up of the loop is missed. *)
RunEnds == <>(pc = "ended")

(* design.md:68-69: "An uncertain worker stops new dispatch entirely,      *)
(* including cleanup that might race its side effects."                    *)
UncertainStopsDispatch ==
    [][\A n, m \in Nodes : node[m].uncertain /\ exec[n] # "running" =>
           exec'[n] # "running"]_vars

(* design.md:76: TIMED_OUT -> READY only when the attempt is confirmed     *)
(* stopped.                                                                *)
RetriedOnlyWhenStopped ==
    [][\A n \in Nodes : node[n].status = "TIMED_OUT" /\ node'[n].status = "READY" =>
           \A a \in Attempts : child[n][a] = "none"]_vars
=============================================================================
