--------------------------- MODULE SchedulerStore ---------------------------
(***************************************************************************)
(* The composition seen from the store: a run of Scheduler is a behaviour  *)
(* of ControlStore with one run, already begun.  Scheduler does not keep   *)
(* ControlStore's history of claims, so a claim is compared by what it     *)
(* does to the records (ClaimRecord).                                      *)
(***************************************************************************)
EXTENDS Scheduler

Shared == INSTANCE ControlStore WITH
              MaxRuns <- 1, MaxAttempts <- Cardinality(Attempts),
              Operations <- {}, Digests <- {}, NoDigest <- "none",
              Retryables <- BOOLEAN,
              latest <- 1, runs <- [r \in {1} |-> [status |-> runStatus, parent |-> 0]],
              nodes <- [r \in {1} |-> node], outbox <- [e \in {} |-> e],
              decided <- [r \in {1} |-> decided], started <- {}

(* Whatever the loop, the executors and the children do to the records is  *)
(* an operation of the control store, called where the store accepts it    *)
(* (reuse apart, which needs the records of a parent run).  No step opens  *)
(* another run, and none reconciles this one.                              *)
OnlyStoreOperations ==
    [][<<node, runStatus, decided>>' # <<node, runStatus, decided>> =>
           \/ Shared!OrchestratorStep(1)
           \/ \E c \in Shared!Contexts : Shared!ClaimRecord(c) \/ Shared!AttemptStep(c)]_vars
=============================================================================
