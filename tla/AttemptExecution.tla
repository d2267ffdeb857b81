--------------------------- MODULE AttemptExecution ---------------------------
(***************************************************************************)
(* The attempts of one node, from dispatch to the record of their end: the *)
(* executor thread of each platform (src/spark_dag/executors.py), the      *)
(* process or remote run it starts, the child in it                        *)
(* (src/spark_dag/worker.py), the source the child reads and the artifact  *)
(* it writes (src/spark_dag/artifacts.py).  Scheduler sees only an         *)
(* executor that learns that the child has stopped, or gives up.           *)
(*                                                                         *)
(* A request may be answered late or not at all, a run may be created      *)
(* after its request was given up, a call of the store may raise whether   *)
(* or not it committed, a process may die anywhere.  The source has        *)
(* versions, which stand for its fingerprint, and never returns to an      *)
(* earlier one.                                                            *)
(*                                                                         *)
(* StoppedWhenTerminating, TokenOfNode, VerifiesOutputsOnly,               *)
(* FabricIsCertain and WaitsForConfirmation are faults a change of the     *)
(* code could bring in; no action uses them.                               *)
(***************************************************************************)
EXTENDS ControlRecords

CONSTANTS Platforms,   \* the runtime.platform values to consider
          MaxRetries,  \* the node's automatic retries
          MaxVersion   \* bound on the versions of the source

ASSUME PlatformAssumption == Platforms \subseteq {"local", "databricks", "fabric"}
ASSUME BoundAssumption == MaxRetries \in Nat /\ MaxVersion \in Nat \ {0}

VARIABLES platform,
          record,    \* the node's control record
          remoteId,  \* the remote_run_id in it: the attempt it was created for, or 0
          planned,   \* the version of the source its input_fingerprint is of
          source,    \* the version of the source
          late,      \* the deadline of the attempt has passed
          exec,      \* where the executor thread is
          watched,   \* the remote run it polls
          finding,   \* what it is about to record
          job,       \* attempt -> its process or remote run
          child,     \* attempt -> where the child is
          read,      \* attempt -> the version it has read
          artifact   \* attempt -> the version its output was computed from, or 0

storeVars == <<record, remoteId, planned>>
execVars  == <<exec, watched, finding>>
workVars  == <<child, read, artifact>>
vars == <<platform, record, remoteId, planned, source, late, exec, watched, finding, job, child,
          read, artifact>>

Attempts == 1..(1 + MaxRetries)
Versions == 1..MaxVersion

(* "concluding" is a finish_attempt inside the try of the Databricks       *)
(* executor, "settling" one outside it, "repeating" one whose predecessor  *)
(* committed but raised.                                                   *)
ExecPhases == {"idle", "starting", "communicating", "submitting", "recording", "polling",
               "confirming", "running", "concluding", "settling", "repeating", "done", "raised"}
Working == {"waiting", "claimed", "checked", "read", "written", "verified", "failing"}
Alive(a) == job[a] \in {"active", "terminating"}

Finding == [status : {"FAILED", "TIMED_OUT"}, retryable : BOOLEAN, uncertain : BOOLEAN]
Found(status, retryable) == [status |-> status, retryable |-> retryable, uncertain |-> FALSE]
Unknown(status) == [status |-> status, retryable |-> FALSE, uncertain |-> TRUE]

TypeOK ==
    /\ platform \in Platforms
    /\ record \in NodeRecord /\ record.attempt \in Attempts
    /\ remoteId \in Attempts \cup {0} /\ watched \in Attempts \cup {0}
    /\ planned \in Versions /\ source \in Versions /\ late \in BOOLEAN
    /\ exec \in ExecPhases /\ finding \in Finding
    /\ job \in [Attempts -> {"none", "sent", "active", "terminating", "ended"}]
    /\ child \in [Attempts -> Working \cup {"none", "reported", "over"}]
    /\ read \in [Attempts -> Versions \cup {0}]
    /\ artifact \in [Attempts -> Versions \cup {0}]

Init ==
    /\ platform \in Platforms
    /\ record = Prepared(PendingNode) /\ remoteId = 0
    /\ planned = 1 /\ source = 1 /\ late = FALSE
    /\ exec = "idle" /\ watched = 0 /\ finding = Found("FAILED", FALSE)
    /\ job = [a \in Attempts |-> "none"]
    /\ child = [a \in Attempts |-> "none"]
    /\ read = [a \in Attempts |-> 0] /\ artifact = [a \in Attempts |-> 0]

-----------------------------------------------------------------------------
(* The orchestrator, as far as this node goes. *)
Dispatch ==
    /\ exec = "idle" /\ record.status = "READY"
    /\ exec' = "starting"
    /\ late' = FALSE /\ watched' = 0
    /\ UNCHANGED <<platform, storeVars, source, finding, job, workVars>>

Reap ==
    /\ exec = "done"
    /\ exec' = "idle"
    /\ UNCHANGED <<platform, storeVars, source, late, watched, finding, job, workVars>>

(* A new attempt has a claim of its own and no remote run.  If its source  *)
(* cannot be read it keeps the fingerprint of the attempt before.          *)
Retry ==
    /\ exec = "idle"
    /\ record.status \in {"FAILED", "TIMED_OUT"} /\ ~record.uncertain /\ record.retryable
    /\ record.attempt <= MaxRetries
    /\ Preparable(record)
    /\ record' = Prepared(record)
    /\ remoteId' = 0
    /\ planned' \in {source, planned}
    /\ UNCHANGED <<platform, source, late, execVars, job, workVars>>

Deadline ==
    /\ exec # "idle" /\ ~late
    /\ late' = TRUE
    /\ UNCHANGED <<platform, storeVars, source, execVars, job, workVars>>

SourceChanges ==
    /\ source < MaxVersion
    /\ source' = source + 1
    /\ UNCHANGED <<platform, storeVars, late, execVars, job, workVars>>

-----------------------------------------------------------------------------
(* What every executor ends with: fail, whose finish_attempt leaves alone  *)
(* what the child has reported.                                            *)
ThreadAlone == UNCHANGED <<platform, source, late, job, workVars>>
Concludes(found, where) == finding' = found /\ exec' = where /\ UNCHANGED watched

FailedRecord ==
    IF record.status \in Terminal THEN record
    ELSE Finished(record, finding.status, finding.retryable, finding.uncertain, NoOutput, FALSE)

Settle ==
    /\ exec \in {"concluding", "settling", "repeating"}
    /\ record' = IF exec = "repeating" THEN record ELSE FailedRecord
    /\ exec' = "done"
    /\ UNCHANGED <<remoteId, planned, watched, finding>> /\ ThreadAlone

(* The store raises, having committed or not.  Inside the try that makes   *)
(* the state unknown, and fail is called again; outside it the future      *)
(* fails.                                                                  *)
SettleRaises ==
    /\ \/ exec \in {"settling", "repeating"} /\ exec' = "raised"
          /\ record' \in (IF exec = "settling" THEN {record, FailedRecord} ELSE {record})
          /\ UNCHANGED finding
       \/ exec = "concluding" /\ exec' = "settling"
          /\ finding' = Unknown("FAILED") /\ UNCHANGED record
       \/ exec = "concluding" /\ exec' = "repeating"
          /\ record' = FailedRecord /\ UNCHANGED finding
    /\ UNCHANGED <<remoteId, planned, watched>> /\ ThreadAlone

-----------------------------------------------------------------------------
(* LocalExecutor: a child process, killed and reaped at the deadline. *)
Starts(a) == job' = [job EXCEPT ![a] = "active"] /\ child' = [child EXCEPT ![a] = "waiting"]
EndsJob(a) == job' = [job EXCEPT ![a] = "ended"] /\ child' = [child EXCEPT ![a] = "over"]

Spawn ==
    /\ platform = "local" /\ exec = "starting"
    /\ Starts(record.attempt)
    /\ exec' = "communicating"
    /\ UNCHANGED <<platform, storeVars, source, late, watched, finding, read, artifact>>

SpawnFails ==
    /\ platform = "local" /\ exec = "starting"
    /\ exec' = "raised"
    /\ UNCHANGED <<storeVars, watched, finding>> /\ ThreadAlone

(* The error the child printed, or WORKER_EXITED, which is retryable. *)
ProcessEnded ==
    /\ exec = "communicating" /\ job[record.attempt] = "ended"
    /\ \E status \in {"FAILED", "TIMED_OUT"}, retryable \in BOOLEAN :
           Concludes(Found(status, retryable), "settling")
    /\ UNCHANGED storeVars /\ ThreadAlone

Kill ==
    /\ exec = "communicating" /\ late
    /\ EndsJob(record.attempt)
    /\ Concludes(Found("TIMED_OUT", TRUE), "settling")
    /\ UNCHANGED <<platform, storeVars, source, late, read, artifact>>

-----------------------------------------------------------------------------
(* DatabricksExecutor.  The idempotency token of a submission is the       *)
(* attempt's: sent again, it answers with the run it has created.          *)
TokenOfNode(a) == 1

Token(a) == a

StoppedWhenTerminating(run) == job[run] \in {"terminating", "ended"}

(* TERMINAL_LIFECYCLES *)
Stopped(run) == job[run] = "ended"

Requests(run) == job' = IF job[run] = "none" THEN [job EXCEPT ![run] = "sent"] ELSE job

MissingCluster ==
    /\ platform = "databricks" /\ exec = "starting"
    /\ Concludes(Found("FAILED", FALSE), "settling")
    /\ UNCHANGED storeVars /\ ThreadAlone

Submit ==
    /\ platform = "databricks" /\ exec = "starting"
    /\ Requests(Token(record.attempt))
    /\ exec' = "submitting"
    /\ UNCHANGED <<platform, storeVars, source, late, watched, finding, workVars>>

Submitted ==
    LET run == Token(record.attempt)
    IN  /\ exec = "submitting" /\ job[run] \notin {"none", "sent"}
        /\ watched' = run
        /\ exec' = "recording"
        /\ UNCHANGED <<storeVars, finding>> /\ ThreadAlone

RecordRemote ==
    /\ exec = "recording"
    /\ remoteId' = watched
    /\ exec' = "polling"
    /\ UNCHANGED <<record, planned, watched, finding>> /\ ThreadAlone

PollFindsEnd ==
    /\ exec = "polling" /\ Stopped(watched)
    /\ \/ Concludes(Found("TIMED_OUT", TRUE), "concluding")
       \/ Concludes(Found("FAILED", FALSE), "concluding")
    /\ UNCHANGED storeVars /\ ThreadAlone

Cancels(run) == job' = IF job[run] = "active" THEN [job EXCEPT ![run] = "terminating"] ELSE job

Cancel ==
    /\ exec = "polling" /\ late
    /\ Cancels(watched)
    /\ exec' = "confirming"
    /\ UNCHANGED <<platform, storeVars, source, late, watched, finding, workVars>>

EndConfirmed ==
    /\ exec = "confirming" /\ Stopped(watched)
    /\ Concludes(Found("TIMED_OUT", TRUE), "concluding")
    /\ UNCHANGED storeVars /\ ThreadAlone

WaitsForConfirmation ==
    /\ exec = "confirming" /\ job[watched] = "ended"
    /\ Concludes(Unknown("TIMED_OUT"), "concluding")
    /\ UNCHANGED storeVars /\ ThreadAlone

(* CANCELLATION_UNCONFIRMED *)
GraceElapses ==
    /\ exec = "confirming"
    /\ Concludes(Unknown("TIMED_OUT"), "concluding")
    /\ UNCHANGED storeVars /\ ThreadAlone

(* Any call inside the try raises, done or not: REMOTE_STATE_UNKNOWN. *)
SubmissionRaises ==
    /\ exec = "submitting"
    /\ Concludes(Unknown("FAILED"), "settling")
    /\ UNCHANGED storeVars /\ ThreadAlone

CallRaises ==
    /\ exec \in {"recording", "polling", "confirming"}
    /\ Concludes(Unknown("FAILED"), "settling")
    /\ remoteId' \in (IF exec = "recording" THEN {remoteId, watched} ELSE {remoteId})
    /\ \/ UNCHANGED job
       \/ exec = "polling" /\ late /\ Cancels(watched)
    /\ UNCHANGED <<platform, record, planned, source, late, workVars>>

-----------------------------------------------------------------------------
(* FabricExecutor.  However runMultiple or validateDAG ends, a child that  *)
(* has not reported is uncertain.                                          *)
RunMultiple ==
    /\ platform = "fabric" /\ exec = "starting"
    /\ Requests(record.attempt)
    /\ exec' = "running"
    /\ UNCHANGED <<platform, storeVars, source, late, watched, finding, workVars>>

FabricIsCertain == Found(IF late THEN "TIMED_OUT" ELSE "FAILED", FALSE)

FabricFinding == Unknown(IF late THEN "TIMED_OUT" ELSE "FAILED")

FabricReturns ==
    /\ \/ exec = "running"
       \/ platform = "fabric" /\ exec = "starting"
    /\ Concludes(FabricFinding, "settling")
    /\ UNCHANGED storeVars /\ ThreadAlone

-----------------------------------------------------------------------------
(* The platform: a request is taken up, however late, or never; a run may  *)
(* end by itself, and a remote one first terminates for a while.           *)
PlatformAlone == UNCHANGED <<platform, storeVars, source, late, execVars, read, artifact>>

TakesUp(a) == job[a] = "sent" /\ Starts(a) /\ PlatformAlone

Drops(a) ==
    /\ job[a] = "sent"
    /\ job' = [job EXCEPT ![a] = "none"]
    /\ UNCHANGED child /\ PlatformAlone

Terminates(a) ==
    /\ platform # "local" /\ job[a] = "active"
    /\ job' = [job EXCEPT ![a] = "terminating"]
    /\ UNCHANGED child /\ PlatformAlone

JobEnds(a) == Alive(a) /\ EndsJob(a) /\ PlatformAlone

-----------------------------------------------------------------------------
(* The child, run_child. *)
ChildAlone == UNCHANGED <<platform, remoteId, planned, source, late, execVars, job>>
From(a, here, there) ==
    Alive(a) /\ child[a] = here /\ child' = [child EXCEPT ![a] = there]

Claims(a) ==
    /\ From(a, "waiting", "claimed")
    /\ Claimable(record, a)
    /\ record' = Claimed(record)
    /\ UNCHANGED <<read, artifact>> /\ ChildAlone

ChecksInput(a) ==
    /\ From(a, "claimed", "checked")
    /\ ~late /\ source = planned
    /\ UNCHANGED <<record, read, artifact>> /\ ChildAlone

Reads(a) ==
    /\ From(a, "checked", "read")
    /\ ~late
    /\ read' = [read EXCEPT ![a] = source]
    /\ UNCHANGED <<record, artifact>> /\ ChildAlone

(* The path of an artifact names the attempt, and it appears at once. *)
Writes(a) ==
    /\ From(a, "read", "written")
    /\ artifact' = [artifact EXCEPT ![a] = read[a]]
    /\ UNCHANGED <<record, read>> /\ ChildAlone

VerifiesOutputsOnly(a) ==
    /\ From(a, "written", "verified")
    /\ UNCHANGED <<record, read, artifact>> /\ ChildAlone

(* The outputs, and once more the input. *)
Verifies(a) ==
    /\ From(a, "written", "verified")
    /\ source = planned
    /\ UNCHANGED <<record, read, artifact>> /\ ChildAlone

Reports(a) ==
    /\ From(a, "verified", "reported")
    /\ Finishable(record, a, FALSE)
    /\ record' = Finished(record, "SUCCEEDED", FALSE, FALSE, <<1, a>>, late)
    /\ UNCHANGED <<read, artifact>> /\ ChildAlone

(* Whatever raises after the claim, a report that did not commit included. *)
Raises(a) ==
    /\ \E here \in Working \ {"waiting", "failing"} : From(a, here, "failing")
    /\ UNCHANGED <<record, read, artifact>> /\ ChildAlone

ReportsFailure(a) ==
    /\ From(a, "failing", "reported")
    /\ Finishable(record, a, FALSE)
    /\ \E status \in {"FAILED", "TIMED_OUT"}, retryable \in BOOLEAN :
           record' = Finished(record, status, retryable, FALSE, NoOutput, FALSE)
    /\ UNCHANGED <<read, artifact>> /\ ChildAlone

(* It refuses before its claim, or neither report commits: a record that   *)
(* is terminal already or another attempt's is not the child's to write.   *)
GivesUp(a) ==
    /\ \E here \in {"waiting", "failing"} : From(a, here, "over")
    /\ UNCHANGED <<record, read, artifact>> /\ ChildAlone

-----------------------------------------------------------------------------
Executor ==
    \/ Settle
    \/ Spawn \/ ProcessEnded \/ Kill
    \/ MissingCluster \/ Submit \/ Submitted \/ SubmissionRaises \/ RecordRemote
    \/ PollFindsEnd \/ Cancel \/ EndConfirmed \/ GraceElapses
    \/ RunMultiple \/ FabricReturns

Worker(a) ==
    \/ TakesUp(a) \/ Drops(a) \/ Terminates(a) \/ JobEnds(a)
    \/ Claims(a) \/ ChecksInput(a) \/ Reads(a) \/ Writes(a) \/ Verifies(a) \/ Reports(a)
    \/ Raises(a) \/ ReportsFailure(a) \/ GivesUp(a)

Next ==
    \/ Dispatch \/ Reap \/ Retry \/ Deadline \/ SourceChanges
    \/ Executor \/ SettleRaises \/ SpawnFails \/ CallRaises
    \/ \E a \in Attempts : Worker(a)

Spec == Init /\ [][Next]_vars

(* The thread runs, its calls return or raise, time passes.  Nothing is    *)
(* assumed of the platform or the child.                                   *)
FairSpec == Spec /\ WF_vars(Executor) /\ WF_vars(Deadline)

-----------------------------------------------------------------------------
(* Between two attempts a child that could still act is one the record     *)
(* calls uncertain: whatever was answered late, lost or cancelled, no      *)
(* certain failure is recorded, and no attempt started, over a living      *)
(* worker (DatabricksExecutor._execute, FabricExecutor.execute_batch).     *)
UncertainUnlessStopped ==
    exec \in {"idle", "starting", "done"} =>
        \A a \in Attempts :
            job[a] = "sent" \/ (Alive(a) /\ child[a] \in Working) => record.uncertain

(* A recorded success has an artifact, written by its own attempt, of the  *)
(* very input it was planned on, although the artifact is committed before *)
(* the record and the source may change at any time (run_child).           *)
SuccessIsBacked ==
    record.status = "SUCCEEDED" =>
        record.outputs = <<1, record.attempt>> /\ artifact[record.attempt] = planned

(* The run the executor watches, and the run the record names for the      *)
(* operator to reconcile, is the current attempt's: never one left over    *)
(* from an earlier attempt (DatabricksExecutor._execute, record_remote).   *)
RemoteRunIsAttempts ==
    /\ remoteId \in {0, record.attempt}
    /\ exec \in {"recording", "polling", "confirming"} => watched = record.attempt

(* Every thread of an executor ends, however the platform behaves. *)
ExecutorEnds == exec = "starting" ~> exec \in {"done", "raised"}

-----------------------------------------------------------------------------
ChildSeen(a) ==
    CASE exec = "starting" /\ a = record.attempt -> "launched"
      [] job[a] = "sent" -> "launched"
      [] Alive(a) /\ child[a] = "waiting" -> "launched"
      [] Alive(a) /\ child[a] \in Working \ {"waiting"} -> "claimed"
      [] Alive(a) /\ child[a] = "reported" -> "reported"
      [] OTHER -> "none"

ExecSeen ==
    IF exec \in {"repeating", "done"} THEN "done" ELSE IF exec = "idle" THEN "idle" ELSE "running"

Seen == INSTANCE Scheduler WITH
            Nodes <- {1}, Plan <- <<1>>, Deps <- <<{}>>, Trigger <- <<"all_success">>,
            Critical <- {1}, ConditionFalse <- {}, MaxRetries <- <<MaxRetries>>,
            Unreadable <- {}, Refused <- {}, Priors <- {}, Origins <- {}, MaxParallel <- 1,
            Budgets <- {}, Demand <- <<[b \in {} |-> 0]>>, Limit <- [b \in {} |-> 0],
            FailFast <- FALSE, Eager <- TRUE, Remote <- TRUE,
            node <- <<record>>, exec <- <<ExecSeen>>,
            child <- <<[a \in Attempts |-> ChildSeen(a)]>>,
            runStatus <- "RUNNING", expired <- FALSE, due <- <<TRUE>>, prior <- << >>,
            pc <- "wait", at <- 1, recs <- << >>, active <- {}, reserved <- {},
            changed <- FALSE, alarm <- {}, invalid <- {}, decided <- "none"

(* Until a thread raises, all that the executors, their platforms and the  *)
(* children do is what Scheduler says they do: an executor settles only an *)
(* attempt whose child has stopped, and only a remote one gives up         *)
(* (executors.py, run_child).                                              *)
OnlySchedulerSteps ==
    [][\/ Dispatch \/ Reap \/ Retry
       \/ exec' = "raised"
       \/ UNCHANGED <<record, ExecSeen, [a \in Attempts |-> ChildSeen(a)]>>
       \/ Seen!ExecutorSettles(1)
       \/ platform # "local" /\ Seen!ExecutorGivesUp(1)
       \/ \E a \in Attempts : Seen!Child(1, a)]_vars
=============================================================================
