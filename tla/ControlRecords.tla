--------------------------- MODULE ControlRecords ---------------------------
(***************************************************************************)
(* The node record of the control store (src/spark_dag/control_store.py)   *)
(* and what each store operation requires of it and makes of it.  A store  *)
(* operation is one transaction, so the modules that use these operators   *)
(* apply each of them in one atomic step.                                  *)
(*                                                                         *)
(* Abstractions.  A claim token is drawn afresh by every prepare, and so   *)
(* is the attempt number: the token is the attempt.  An output is named by *)
(* the <<run, attempt>> that produced it.  `retryable' stands for "the     *)
(* recorded error is retryable and in a configured retry category".        *)
(* Fingerprints, timestamps, metrics and counts are left out; so are the   *)
(* remote run id and record_remote, which writes nothing else: they are    *)
(* in AttemptExecution.                                                    *)
(*                                                                         *)
(* PreparableIfUncertain, ClaimableAgain, ReusedForgettingOrigin and       *)
(* ReconciledTerminalKept are faults a change of the code could bring in;  *)
(* no action uses them.                                                    *)
(***************************************************************************)
EXTENDS Naturals

Success  == {"SUCCEEDED", "SKIPPED_ALREADY_SATISFIED"}
Bad      == {"FAILED", "TIMED_OUT", "BLOCKED", "CANCELLED"}
Terminal == Success \cup Bad \cup {"SKIPPED_CONDITION"}
Status   == {"PENDING", "READY", "RUNNING"} \cup Terminal

NoOutput == <<0, 0>>

NodeRecord == [status : Status, attempt : Nat, retryable : BOOLEAN,
               uncertain : BOOLEAN, outputs : Nat \X Nat, reusedFrom : Nat]

PendingNode == [status |-> "PENDING", attempt |-> 0, retryable |-> FALSE,
                uncertain |-> FALSE, outputs |-> NoOutput, reusedFrom |-> 0]

-----------------------------------------------------------------------------
(* prepare: a new attempt of a node that never ran, or whose attempt ended *)
(* badly.  The store does not look at `retryable': that is the caller's.   *)

PreparableIfUncertain(n) == n.status \in {"PENDING", "FAILED", "TIMED_OUT"}

Preparable(n) == n.status \in {"PENDING", "FAILED", "TIMED_OUT"} /\ ~n.uncertain

Prepared(n) ==
    [n EXCEPT !.status = "READY", !.attempt = @ + 1, !.retryable = FALSE,
              !.outputs = NoOutput]

-----------------------------------------------------------------------------
(* claim: only the attempt that is READY may start.                        *)

ClaimableAgain(n, a) == n.attempt = a

Claimable(n, a) == n.status = "READY" /\ n.attempt = a

Claimed(n) == [n EXCEPT !.status = "RUNNING"]

-----------------------------------------------------------------------------
(* finish_attempt: only the current attempt, once.  A record that is       *)
(* already terminal is returned as it is: whatever the late call carries,  *)
(* its uncertainty included, is dropped.  A success committed after the    *)
(* attempt's deadline is recorded as a retryable timeout.                  *)

Finishable(n, a, allowReady) ==
    /\ n.attempt = a
    /\ n.status \in (IF allowReady THEN {"READY", "RUNNING"} ELSE {"RUNNING"})

Finished(n, status, retryable, uncertain, output, late) ==
    LET missed == status = "SUCCEEDED" /\ late
        kept   == status = "SUCCEEDED" /\ ~late
    IN  [n EXCEPT !.status = IF missed THEN "TIMED_OUT" ELSE status,
                  !.retryable = retryable \/ missed,
                  !.uncertain = uncertain,
                  !.outputs = IF kept THEN output ELSE NoOutput]

-----------------------------------------------------------------------------
(* skip: a node that will not be attempted in this run.  Reuse of a prior  *)
(* success copies its outputs and keeps the run they came from.            *)

Skippable(n, status) ==
    n.status \in (IF status = "CANCELLED" THEN {"PENDING", "READY"} ELSE {"PENDING"})

Skipped(n, status) == [n EXCEPT !.status = status]

ReusedForgettingOrigin(n, prior, priorRun) ==
    [n EXCEPT !.status = "SKIPPED_ALREADY_SATISFIED",
              !.outputs = prior.outputs, !.reusedFrom = priorRun]

Reused(n, prior, priorRun) ==
    [n EXCEPT !.status = "SKIPPED_ALREADY_SATISFIED", !.outputs = prior.outputs,
              !.reusedFrom = IF prior.reusedFrom # 0 THEN prior.reusedFrom ELSE priorRun]

-----------------------------------------------------------------------------
(* reconcile: the operator has confirmed that every worker stopped.        *)

ReconciledTerminalKept(n) ==
    IF n.status \notin Terminal
    THEN [n EXCEPT !.status = "CANCELLED", !.uncertain = FALSE, !.retryable = FALSE]
    ELSE n

Reconciled(n) ==
    IF n.status \notin Terminal \/ n.uncertain
    THEN [n EXCEPT !.status = "CANCELLED", !.uncertain = FALSE, !.retryable = FALSE]
    ELSE n
=============================================================================
