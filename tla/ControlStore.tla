---------------------------- MODULE ControlStore ----------------------------
(***************************************************************************)
(* The control store of one business key (ControlStore in                  *)
(* src/spark_dag/control_store.py): the records of its physical runs, of   *)
(* their nodes and of the outbox.  Every operation is one transaction      *)
(* (BEGIN IMMEDIATE, or an append under the control lease), hence one      *)
(* atomic step.  The clients are left free: an orchestrator may stop at    *)
(* any point, several children may hold the same attempt context, and a    *)
(* child whose attempt was superseded, or whose run is over, may call at   *)
(* any time.  A call the store refuses changes nothing and is no step.     *)
(*                                                                         *)
(* AcceptsRunOfAnyParent, AcceptsRunWhileHeld, PutOutboxReplacing,         *)
(* SummaryOfFailure, SummaryIgnoringUncertain and ReconcileAnyRun are      *)
(* faults a change of the code could bring in; no action uses them.        *)
(***************************************************************************)
EXTENDS ControlRecords

CONSTANTS Nodes,         \* the nodes of the DAG, planned by every run
          Critical,      \* the nodes whose failure fails the run
          Operations,    \* outbox operation names
          Digests,       \* payload digests of outbox effects
          NoDigest,      \* an effect that was never committed
          Retryables,    \* the `retryable' flags errors carry; the store reads none
          MaxRuns,       \* bound on the physical runs of the business key
          MaxAttempts    \* bound on the attempts of a node in one run

ASSUME CriticalAssumption == Critical \subseteq Nodes
ASSUME DigestAssumption == NoDigest \notin Digests
ASSUME RetryablesAssumption == Retryables \subseteq BOOLEAN
ASSUME BoundAssumption == MaxRuns \in Nat /\ MaxAttempts \in Nat

VARIABLES latest,        \* how many run records exist
          runs,          \* run number -> [status, parent]
          nodes,         \* run number -> node -> its record
          outbox,        \* effect -> [digest, reference]
          decided,       \* run -> the summary status its orchestrator computed
          started        \* history: the contexts a child has claimed

vars == <<latest, runs, nodes, outbox, decided, started>>

Runs     == 1..MaxRuns
Effects  == Nodes \X Operations
Contexts == [run : Runs, node : Nodes, attempt : 1..MaxAttempts]

RunStatus == {"ABSENT", "RUNNING", "RECOVERY_REQUIRED", "SUCCEEDED", "FAILED"}
Open      == {"RUNNING", "RECOVERY_REQUIRED"}
Closed    == {"SUCCEEDED", "FAILED"}
Modes     == {"normal", "resume", "force_restart", "force_rerun"}
Undecided == "none"

NoRun    == [status |-> "ABSENT", parent |-> 0]
NoEffect == [digest |-> NoDigest, reference |-> NoOutput]

TypeOK ==
    /\ latest \in 0..MaxRuns
    /\ runs \in [Runs -> [status : RunStatus, parent : 0..MaxRuns]]
    /\ nodes \in [Runs -> [Nodes -> NodeRecord]]
    /\ outbox \in [Effects -> [digest : Digests \cup {NoDigest}, reference : Nat \X Nat]]
    /\ decided \in [Runs -> {Undecided, "SUCCEEDED", "FAILED", "RECOVERY_REQUIRED"}]
    /\ started \subseteq Contexts

Init ==
    /\ latest = 0
    /\ runs = [r \in Runs |-> NoRun]
    /\ nodes = [r \in Runs |-> [n \in Nodes |-> PendingNode]]
    /\ outbox = [e \in Effects |-> NoEffect]
    /\ decided = [r \in Runs |-> Undecided]
    /\ started = {}

-----------------------------------------------------------------------------
(* The orchestrator that opened run r still schedules it: the run is open  *)
(* and it has not yet left the scheduling loop to summarise.               *)
Scheduling(r) == runs[r].status = "RUNNING" /\ decided[r] = Undecided

(* The attempt context c was handed out by a prepare. *)
Issued(c) == c.attempt <= nodes[c.run][c.node].attempt

RecordOf(c) == nodes[c.run][c.node]

WriteNode(r, n, record) == nodes' = [nodes EXCEPT ![r][n] = record]

(* begin_run: no run of this key may be open; each mode says which history *)
(* and which parent it accepts.  The parent a forced rerun records is the  *)
(* latest run, whatever the caller named.                                  *)
AcceptsRunOfAnyParent(mode, parent) ==
    /\ \A r \in Runs : runs[r].status \notin Open
    /\ mode = "normal" => latest = 0 /\ parent = 0
    /\ mode \in {"resume", "force_restart"} => parent \in 1..latest
    /\ mode = "resume" => runs[parent].status = "FAILED"

AcceptsRunWhileHeld(mode, parent) ==
    /\ \A r \in Runs : runs[r].status # "RUNNING"
    /\ mode = "normal" => latest = 0 /\ parent = 0
    /\ mode \in {"resume", "force_restart"} => latest > 0 /\ parent = latest
    /\ mode = "resume" => runs[parent].status = "FAILED"

AcceptsRun(mode, parent) ==
    /\ \A r \in Runs : runs[r].status \notin Open
    /\ mode = "normal" => latest = 0 /\ parent = 0
    /\ mode \in {"resume", "force_restart"} => latest > 0 /\ parent = latest
    /\ mode = "resume" => runs[parent].status = "FAILED"

BeginRun(mode, parent) ==
    /\ latest < MaxRuns
    /\ AcceptsRun(mode, parent)
    /\ latest' = latest + 1
    /\ runs' = [runs EXCEPT ![latest + 1] =
                  [status |-> "RUNNING",
                   parent |-> IF mode = "force_rerun" THEN latest ELSE parent]]
    /\ nodes' = [nodes EXCEPT ![latest + 1] = [n \in Nodes |-> PendingNode]]
    /\ UNCHANGED <<outbox, decided, started>>

(* prepare: the orchestrator issues a new attempt of node n. *)
Prepare(r, n) ==
    /\ Scheduling(r)
    /\ Preparable(nodes[r][n])
    /\ nodes[r][n].attempt < MaxAttempts
    /\ WriteNode(r, n, Prepared(nodes[r][n]))
    /\ UNCHANGED <<latest, runs, outbox, decided, started>>

(* claim: a child starts the attempt it was given. *)
ClaimRecord(c) ==
    /\ runs[c.run].status = "RUNNING"
    /\ Claimable(RecordOf(c), c.attempt)
    /\ WriteNode(c.run, c.node, Claimed(RecordOf(c)))
    /\ UNCHANGED <<latest, runs, outbox, decided>>

Claim(c) == ClaimRecord(c) /\ started' = started \cup {c}

(* finish_attempt, whoever calls it. *)
FinishAttempt(c, status, retryable, uncertain, late, allowReady) ==
    /\ runs[c.run].status = "RUNNING"
    /\ Issued(c)
    /\ Finishable(RecordOf(c), c.attempt, allowReady)
    /\ WriteNode(c.run, c.node,
                 Finished(RecordOf(c), status, retryable, uncertain,
                          <<c.run, c.attempt>>, late))
    /\ UNCHANGED <<latest, runs, outbox, decided, started>>

(* The child reports its own end; `late' is the attempt deadline read at   *)
(* the commit.                                                             *)
ChildSucceeds(c) ==
    \E late \in BOOLEAN : FinishAttempt(c, "SUCCEEDED", FALSE, FALSE, late, FALSE)

ChildFails(c) ==
    \E status \in {"FAILED", "TIMED_OUT"}, retryable \in Retryables :
        FinishAttempt(c, status, retryable, FALSE, FALSE, FALSE)

(* The executor, or the planner, ends an attempt that may never have been  *)
(* claimed.  Both run in the orchestrator, which joins its dispatch        *)
(* threads before it summarises.                                           *)
ExecutorFails(c) ==
    /\ Scheduling(c.run)
    /\ \E status \in {"FAILED", "TIMED_OUT"}, retryable \in Retryables, uncertain \in BOOLEAN :
           FinishAttempt(c, status, retryable, uncertain, FALSE, TRUE)

(* skip: the node is settled without an attempt, *)
Skip(r, n, status) ==
    /\ Scheduling(r)
    /\ Skippable(nodes[r][n], status)
    /\ WriteNode(r, n, Skipped(nodes[r][n], status))
    /\ UNCHANGED <<latest, runs, outbox, decided, started>>

(* or by the validated success it had in the parent run. *)
Reuse(r, n) ==
    /\ Scheduling(r)
    /\ runs[r].parent # 0
    /\ nodes[runs[r].parent][n].status \in Success
    /\ Skippable(nodes[r][n], "SKIPPED_ALREADY_SATISFIED")
    /\ WriteNode(r, n, Reused(nodes[r][n], nodes[runs[r].parent][n], runs[r].parent))
    /\ UNCHANGED <<latest, runs, outbox, decided, started>>

(* put_outbox: the first commit fixes the digest; the same content only    *)
(* refreshes the reference, different content is refused.                  *)
PutOutboxReplacing(c, op, digest) ==
    /\ runs[c.run].status = "RUNNING"
    /\ RecordOf(c).status = "RUNNING" /\ RecordOf(c).attempt = c.attempt
    /\ outbox' = [outbox EXCEPT ![<<c.node, op>>] =
                    [digest |-> digest, reference |-> <<c.run, c.attempt>>]]
    /\ UNCHANGED <<latest, runs, nodes, decided, started>>

PutOutbox(c, op, digest) ==
    LET effect == <<c.node, op>>
    IN  /\ runs[c.run].status = "RUNNING"
        /\ RecordOf(c).status = "RUNNING" /\ RecordOf(c).attempt = c.attempt
        /\ outbox[effect].digest \in {NoDigest, digest}
        /\ outbox[effect].reference # <<c.run, c.attempt>>
        /\ outbox' = [outbox EXCEPT ![effect] =
                        [digest |-> digest, reference |-> <<c.run, c.attempt>>]]
        /\ UNCHANGED <<latest, runs, nodes, decided, started>>

-----------------------------------------------------------------------------
(* The orchestrator leaves the scheduling loop on an uncertain record, or  *)
(* when every record is terminal, and computes its summary from one view   *)
(* of the store; finish_run is a later transaction.                        *)
SummaryIgnoringUncertain(r) ==
    IF \E n \in Critical : nodes[r][n].status \in Bad THEN "FAILED" ELSE "SUCCEEDED"

SummaryOfFailure(r) ==
    LET failed == {n \in Critical : nodes[r][n].status \in Bad}
    IN  IF \E n \in Nodes : nodes[r][n].uncertain THEN "RECOVERY_REQUIRED"
        ELSE IF failed # {} THEN nodes[r][CHOOSE n \in failed : TRUE].status
        ELSE "SUCCEEDED"

Summary(r) ==
    IF \E n \in Nodes : nodes[r][n].uncertain THEN "RECOVERY_REQUIRED"
    ELSE IF \E n \in Critical : nodes[r][n].status \in Bad THEN "FAILED"
    ELSE "SUCCEEDED"

Summarise(r) ==
    /\ Scheduling(r)
    /\ \/ \E n \in Nodes : nodes[r][n].uncertain
       \/ \A n \in Nodes : nodes[r][n].status \in Terminal
    /\ decided' = [decided EXCEPT ![r] = Summary(r)]
    /\ UNCHANGED <<latest, runs, nodes, outbox, started>>

FinishRun(r) ==
    /\ runs[r].status = "RUNNING"
    /\ decided[r] # Undecided
    /\ decided[r] # "RECOVERY_REQUIRED" =>
           \A n \in Nodes : nodes[r][n].status \in Terminal
    /\ runs' = [runs EXCEPT ![r].status = decided[r]]
    /\ UNCHANGED <<latest, nodes, outbox, decided, started>>

(* reconcile: an operator settles an abandoned or uncertain run. *)
ReconcileAnyRun(r) ==
    /\ runs[r].status # "ABSENT"
    /\ nodes' = [nodes EXCEPT ![r] = [n \in Nodes |-> Reconciled(nodes[r][n])]]
    /\ runs' = [runs EXCEPT ![r].status = "FAILED"]
    /\ UNCHANGED <<latest, outbox, decided, started>>

Reconcile(r) ==
    /\ runs[r].status \in Open
    /\ nodes' = [nodes EXCEPT ![r] = [n \in Nodes |-> Reconciled(nodes[r][n])]]
    /\ runs' = [runs EXCEPT ![r].status = "FAILED"]
    /\ UNCHANGED <<latest, outbox, decided, started>>

-----------------------------------------------------------------------------
OrchestratorStep(r) ==
    \/ \E n \in Nodes : Prepare(r, n) \/ Reuse(r, n)
    \/ \E n \in Nodes, status \in {"SKIPPED_CONDITION", "BLOCKED", "CANCELLED"} :
           Skip(r, n, status)
    \/ Summarise(r)
    \/ FinishRun(r)

AttemptStep(c) ==
    \/ Claim(c)
    \/ ChildSucceeds(c)
    \/ ChildFails(c)
    \/ ExecutorFails(c)
    \/ \E op \in Operations, digest \in Digests : PutOutbox(c, op, digest)

Next ==
    \/ \E mode \in Modes, parent \in 0..MaxRuns : BeginRun(mode, parent)
    \/ \E r \in Runs : OrchestratorStep(r) \/ Reconcile(r)
    \/ \E c \in Contexts : AttemptStep(c)

Spec == Init /\ [][Next]_vars

-----------------------------------------------------------------------------
(* Only the latest run of a business key may be open: begin_run refuses a  *)
(* new run while one is running or awaits recovery, and no other operation *)
(* reopens a run, whatever abandoned orchestrators and children still call.*)
OneOpenRun == \A r \in Runs : runs[r].status \in Open => r = latest

(* Every run's parent is the run just before it, so recovery always starts *)
(* from the latest history: a resume or restart from any older run is      *)
(* refused and a forced rerun takes the latest as its parent.              *)
ParentIsPreviousRun ==
    \A r \in Runs : runs[r].status # "ABSENT" => runs[r].parent = r - 1

(* A recorded success was claimed by a child and carries the outputs of    *)
(* that very attempt; a reused success carries those of a SUCCEEDED record *)
(* of an earlier run, named in reused_from_run_id even after several       *)
(* recoveries.                                                             *)
OutputsHaveProvenance ==
    \A r \in Runs, n \in Nodes :
        LET record == nodes[r][n]
        IN  /\ record.status = "SUCCEEDED" =>
                   /\ record.outputs = <<r, record.attempt>>
                   /\ [run |-> r, node |-> n, attempt |-> record.attempt] \in started
            /\ record.status = "SKIPPED_ALREADY_SATISFIED" =>
                   \E s \in 1..(r - 1) :
                       /\ s = record.reusedFrom
                       /\ nodes[s][n].status = "SUCCEEDED"
                       /\ nodes[s][n].outputs = record.outputs

(* A closed run holds what its status says: every node is settled and none *)
(* is uncertain, and a SUCCEEDED run has no critical node that ended       *)
(* badly.  The summary was computed from an earlier view than the one      *)
(* finish_run commits against.                                             *)
ClosedRunDecision ==
    \A r \in Runs : runs[r].status \in Closed =>
        /\ \A n \in Nodes : nodes[r][n].status \in Terminal /\ ~nodes[r][n].uncertain
        /\ runs[r].status = "SUCCEEDED" =>
               \A n \in Critical : nodes[r][n].status \notin Bad

(* An uncertain record exists only in an open run: closing a run by its    *)
(* summary cannot hide that a worker may still be going.                   *)
UncertainHoldsRunOpen ==
    \A r \in Runs, n \in Nodes : nodes[r][n].uncertain =>
        runs[r].status \in Open /\ nodes[r][n].status \in {"FAILED", "TIMED_OUT"}

(* A closed run is history: no late child, abandoned orchestrator or       *)
(* reconciliation changes the run or any of its node records.              *)
ClosedRunFrozen ==
    [][\A r \in Runs : runs[r].status \in Closed =>
           runs'[r] = runs[r] /\ nodes'[r] = nodes[r]]_vars

(* No attempt starts twice: of several children that hold the same context *)
(* (a duplicated submission, a retried driver call) one at most runs.      *)
ClaimedOnce ==
    [][\A r \in Runs, n \in Nodes :
           nodes'[r][n].status = "RUNNING" /\ nodes[r][n].status # "RUNNING" =>
               [run |-> r, node |-> n, attempt |-> nodes'[r][n].attempt] \notin started]_vars

(* An uncertain attempt is final until an operator reconciles the run: it  *)
(* is neither retried nor settled by a late report.                        *)
UncertainQuarantined ==
    [][\A r \in Runs, n \in Nodes :
           nodes[r][n].uncertain /\ nodes'[r][n].status # nodes[r][n].status =>
               nodes'[r][n].status = "CANCELLED" /\ runs'[r].status = "FAILED"]_vars

(* The transitions that design.md draws for a node (its lines 73-80).      *)
DesignTransitions ==
    { <<"PENDING", "READY">>, <<"READY", "RUNNING">>, <<"RUNNING", "SUCCEEDED">>,
      <<"RUNNING", "FAILED">>, <<"FAILED", "READY">>, <<"RUNNING", "TIMED_OUT">>,
      <<"TIMED_OUT", "READY">>, <<"PENDING", "SKIPPED_ALREADY_SATISFIED">>,
      <<"PENDING", "SKIPPED_CONDITION">>, <<"PENDING", "BLOCKED">>,
      <<"PENDING", "CANCELLED">>, <<"READY", "CANCELLED">> }

(* In a run nobody reconciles, a node only makes the transitions the       *)
(* design's state machine has.                                             *)
FollowsDesignDiagram ==
    [][\A r \in Runs, n \in Nodes :
           \/ nodes'[r][n].status = nodes[r][n].status
           \/ runs'[r] # runs[r]
           \/ <<nodes[r][n].status, nodes'[r][n].status>> \in DesignTransitions]_vars

-----------------------------------------------------------------------------
(* The refinement mapping: the phase is the latest run's status, a result  *)
(* is a success on record, an effect is its digest.                        *)
PhaseOf(status) ==
    CASE status = "RUNNING" -> "open"
      [] status = "RECOVERY_REQUIRED" -> "held"
      [] OTHER -> "idle"

Recorded == {p \in Runs \X Nodes : nodes[p[1]][p[2]].status \in Success}

Key == INSTANCE BusinessKey WITH
           phase      <- IF latest = 0 THEN "idle" ELSE PhaseOf(runs[latest].status),
           generation <- latest,
           results    <- Recorded,
           effects    <- [e \in Effects |-> outbox[e].digest]

(* The store keeps the promises of BusinessKey. *)
ImplementsBusinessKey == Key!Spec
=============================================================================
