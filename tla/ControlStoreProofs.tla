------------------------- MODULE ControlStoreProofs -------------------------
(***************************************************************************)
(* Theorems about ControlStore, for every set of nodes, operations and     *)
(* digests and every bound on runs and attempts.                           *)
(*                                                                         *)
(* The argument.  Every operation on a node either writes one record of a  *)
(* run that is RUNNING, and then either the record was not terminal or the *)
(* run's orchestrator has not yet computed its summary (OneWrite), or it   *)
(* is begin_run, put_outbox, the summary, finish_run or reconcile.  The    *)
(* inductive invariant adds to the properties two facts they rest on: no   *)
(* run exists beyond the latest, and a computed summary stays true of the  *)
(* records until finish_run commits it.  OneWrite also says where the      *)
(* outputs it writes come from (Sourced), on which ProvenanceInv rests; and*)
(* as a write is one of the latest run, and a success is never written     *)
(* over, each step maps to one of BusinessKey or to a stutter.             *)
(***************************************************************************)
EXTENDS ControlStore, ControlRecordsProofs, TLAPS

RecordsType == nodes \in [Runs -> [Nodes -> NodeRecord]]

(* Where the outputs of a record come from when it takes the place of the  *)
(* record of node n of run r.                                              *)
Sourced(r, n, record) ==
    /\ record.status = "SUCCEEDED" =>
           nodes[r][n].status = "RUNNING" /\ record.outputs = <<r, record.attempt>>
    /\ record.status = "SKIPPED_ALREADY_SATISFIED" =>
           LET p == runs[r].parent
           IN  /\ p # 0 /\ nodes[p][n].status \in Success
               /\ record.outputs = nodes[p][n].outputs
               /\ record.reusedFrom = IF nodes[p][n].reusedFrom # 0
                                       THEN nodes[p][n].reusedFrom ELSE p
    /\ record.status # "SKIPPED_ALREADY_SATISFIED" =>
           record.reusedFrom = nodes[r][n].reusedFrom

(* Record n of run r becomes `record'; of runs, decisions and the outbox   *)
(* nothing changes, and `started' only by the claim of this very attempt.  *)
OneWrite(r, n, record) ==
    /\ runs[r].status = "RUNNING"
    /\ decided[r] = Undecided \/ nodes[r][n].status \notin Terminal
    /\ nodes[r][n].status \notin Success /\ ~nodes[r][n].uncertain
    /\ Sourced(r, n, record)
    /\ record.uncertain => record.status \in {"FAILED", "TIMED_OUT"}
    /\ \/ record.attempt = nodes[r][n].attempt + 1 /\ record.status = "READY"
       \/ record.attempt = nodes[r][n].attempt /\ record.status # "READY"
    /\ \/ started' = started /\ record.status # "RUNNING"
       \/ /\ record.status = "RUNNING" /\ nodes[r][n].status = "READY"
          /\ [run |-> r, node |-> n, attempt |-> record.attempt] \in Contexts
          /\ started' = started \cup {[run |-> r, node |-> n, attempt |-> record.attempt]}
    /\ WriteNode(r, n, record)
    /\ UNCHANGED <<latest, runs, outbox, decided>>

(* Runs are numbered without gaps, and none has records or a summary       *)
(* before it began.                                                        *)
NoneAhead ==
    \A r \in Runs : r > latest =>
        /\ runs[r].status = "ABSENT" /\ decided[r] = Undecided
        /\ \A n \in Nodes : nodes[r][n] = PendingNode

(* A summary that is not RECOVERY_REQUIRED stays true of the records.      *)
DecisionStands ==
    \A r \in Runs : decided[r] \in Closed =>
        /\ \A n \in Nodes : nodes[r][n].status \in Terminal /\ ~nodes[r][n].uncertain
        /\ decided[r] = "SUCCEEDED" => \A n \in Critical : nodes[r][n].status \notin Bad

(* What a child has claimed is an attempt that was issued, in a run that   *)
(* began, and the current attempt, if claimed, is not READY again.         *)
ClaimsPast ==
    \A c \in started :
        /\ c.run <= latest
        /\ c.attempt <= nodes[c.run][c.node].attempt
        /\ c.attempt = nodes[c.run][c.node].attempt =>
               nodes[c.run][c.node].status # "READY"

IInv ==
    /\ TypeOK
    /\ OneOpenRun
    /\ NoneAhead
    /\ ParentIsPreviousRun
    /\ DecisionStands
    /\ ClosedRunDecision
    /\ UncertainHoldsRunOpen
    /\ ClaimsPast

-----------------------------------------------------------------------------
(* One operation writes one record. *)

LEMMA WriteNodeEffect ==
  ASSUME RecordsType, NEW r \in Runs, NEW n \in Nodes, NEW record \in NodeRecord,
         WriteNode(r, n, record)
  PROVE  /\ RecordsType'
         /\ nodes'[r][n] = record
         /\ \A s \in Runs, m \in Nodes : <<s, m>> # <<r, n>> => nodes'[s][m] = nodes[s][m]
         /\ \A s \in Runs : s # r => nodes'[s] = nodes[s]
  BY SMT DEF RecordsType, WriteNode

-----------------------------------------------------------------------------
(* Every operation of an orchestrator, child or executor on a node is one  *)
(* such write.                                                             *)

LEMMA FinishWrites ==
  ASSUME TypeOK, NEW c \in Contexts,
         NEW status \in Outcomes,
         NEW retryable \in BOOLEAN, NEW uncertain \in BOOLEAN,
         NEW late \in BOOLEAN, NEW allowReady \in BOOLEAN,
         uncertain => status # "SUCCEEDED", allowReady => status # "SUCCEEDED",
         UncertainHoldsRunOpen,
         FinishAttempt(c, status, retryable, uncertain, late, allowReady)
  PROVE  \E r \in Runs, n \in Nodes, record \in NodeRecord : OneWrite(r, n, record)
  <1>. DEFINE record == Finished(RecordOf(c), status, retryable, uncertain,
                                 <<c.run, c.attempt>>, late)
  <1>1. c.run \in Runs /\ c.node \in Nodes /\ <<c.run, c.attempt>> \in Nat \X Nat
    BY DEF Contexts, Runs
  <1>2. RecordOf(c) \in NodeRecord BY <1>1 DEF TypeOK, RecordOf
  <1>3. /\ record \in NodeRecord
        /\ record.attempt = RecordOf(c).attempt
        /\ record.status \in Outcomes
        /\ record.uncertain => record.status \in {"FAILED", "TIMED_OUT"}
    <2>1. /\ record \in NodeRecord
          /\ record.uncertain = uncertain
          /\ record.attempt = RecordOf(c).attempt
          /\ record.status \in Outcomes
          /\ status # "SUCCEEDED" => record.status = status
      BY <1>1, <1>2, FinishedType
    <2>. HIDE DEF record
    <2>. QED BY <2>1 DEF Outcomes
  <1>4. RecordOf(c).status \in {"READY", "RUNNING"}
    BY DEF FinishAttempt, Finishable
  <1>5. ~RecordOf(c).uncertain /\ RecordOf(c).status \notin Terminal
    BY <1>1, <1>4 DEF UncertainHoldsRunOpen, RecordOf, Terminal, Success, Bad
  <1>6. WriteNode(c.run, c.node, record) BY DEF FinishAttempt
  <1>7. RecordOf(c).attempt = c.attempt /\ (~allowReady => RecordOf(c).status = "RUNNING")
    BY DEF FinishAttempt, Finishable
  <1>8. /\ record.reusedFrom = RecordOf(c).reusedFrom
        /\ record.status = "SUCCEEDED" =>
               status = "SUCCEEDED" /\ record.outputs = <<c.run, c.attempt>>
    BY <1>2, FinishedProvenance
  <1>. HIDE DEF record
  <1>9. Sourced(c.run, c.node, record)
    BY <1>3, <1>7, <1>8 DEF Sourced, RecordOf, Outcomes
  <1>10. OneWrite(c.run, c.node, record)
    BY <1>3, <1>5, <1>6, <1>9 DEF OneWrite, FinishAttempt, RecordOf, Outcomes, Terminal
  <1>. QED BY <1>1, <1>3, <1>10

LEMMA OrchestratorWrites ==
  ASSUME TypeOK, UncertainHoldsRunOpen, NEW r \in Runs, NEW n \in Nodes,
         \/ Prepare(r, n)
         \/ Reuse(r, n)
         \/ \E status \in {"SKIPPED_CONDITION", "BLOCKED", "CANCELLED"} : Skip(r, n, status)
  PROVE  \E record \in NodeRecord : OneWrite(r, n, record)
  <1>1. nodes[r][n] \in NodeRecord BY DEF TypeOK
  <1>2. CASE Prepare(r, n)
    <2>. DEFINE record == Prepared(nodes[r][n])
    <2>1. /\ record \in NodeRecord
          /\ record.uncertain = nodes[r][n].uncertain
          /\ record.attempt = nodes[r][n].attempt + 1
          /\ record.status = "READY"
      BY <1>1, PreparedType
    <2>2. WriteNode(r, n, record) BY <1>2 DEF Prepare
    <2>3. record.reusedFrom = nodes[r][n].reusedFrom BY <1>1, ProvenanceFields
    <2>. HIDE DEF record
    <2>4. OneWrite(r, n, record)
      BY <1>2, <2>1, <2>2, <2>3 DEF Prepare, Preparable, Scheduling, OneWrite, Sourced, Success
    <2>. QED BY <2>1, <2>4
  <1>3. CASE Reuse(r, n)
    <2>. DEFINE p == runs[r].parent
                record == Reused(nodes[r][n], nodes[p][n], p)
    <2>1. /\ p \in Nat /\ nodes[p][n] \in NodeRecord
          /\ nodes[p][n].outputs \in Nat \X Nat /\ nodes[p][n].reusedFrom \in Nat
      <3>1. p \in Nat /\ nodes[p][n] \in NodeRecord
        BY <1>3 DEF Reuse, TypeOK, Runs
      <3>. QED BY <3>1 DEF NodeRecord
    <2>2. /\ record \in NodeRecord
          /\ record.uncertain = nodes[r][n].uncertain
          /\ record.attempt = nodes[r][n].attempt
          /\ record.status = "SKIPPED_ALREADY_SATISFIED"
      BY <1>1, <2>1, ReusedType, ZenonT(40)
    <2>3. WriteNode(r, n, record) BY <1>3 DEF Reuse
    <2>4. nodes[r][n].status = "PENDING" BY <1>3 DEF Reuse, Skippable
    <2>5. ~nodes[r][n].uncertain BY <2>4 DEF UncertainHoldsRunOpen
    <2>6. /\ record.outputs = nodes[p][n].outputs
          /\ record.reusedFrom = IF nodes[p][n].reusedFrom # 0 THEN nodes[p][n].reusedFrom ELSE p
      BY <1>1, ReusedProvenance
    <2>. HIDE DEF record
    <2>7. Sourced(r, n, record) BY <1>3, <2>2, <2>6 DEF Reuse, Sourced
    <2>8. OneWrite(r, n, record)
      BY <1>3, <2>2, <2>3, <2>4, <2>5, <2>7 DEF Reuse, Scheduling, OneWrite, Success
    <2>. QED BY <2>2, <2>8
  <1>4. ASSUME NEW status \in {"SKIPPED_CONDITION", "BLOCKED", "CANCELLED"},
               Skip(r, n, status)
        PROVE  \E record \in NodeRecord : OneWrite(r, n, record)
    <2>. DEFINE record == Skipped(nodes[r][n], status)
    <2>1. status \in Terminal BY DEF Terminal, Success, Bad
    <2>2. /\ record \in NodeRecord
          /\ record.uncertain = nodes[r][n].uncertain
          /\ record.attempt = nodes[r][n].attempt
          /\ record.status = status
      BY <1>1, <2>1, SkippedType
    <2>3. WriteNode(r, n, record) BY <1>4 DEF Skip
    <2>4. nodes[r][n].status \in {"PENDING", "READY"} BY <1>4 DEF Skip, Skippable
    <2>5. ~nodes[r][n].uncertain BY <2>4 DEF UncertainHoldsRunOpen
    <2>6. record.reusedFrom = nodes[r][n].reusedFrom BY <1>1, ProvenanceFields
    <2>. HIDE DEF record
    <2>7. OneWrite(r, n, record)
      BY <1>4, <2>2, <2>3, <2>4, <2>5, <2>6 DEF Skip, Scheduling, OneWrite, Sourced, Success
    <2>. QED BY <2>2, <2>7
  <1>. QED BY <1>2, <1>3, <1>4

LEMMA ClaimWrites ==
  ASSUME TypeOK, UncertainHoldsRunOpen, NEW c \in Contexts, Claim(c)
  PROVE  \E r \in Runs, n \in Nodes, record \in NodeRecord : OneWrite(r, n, record)
  <1>. DEFINE record == Claimed(RecordOf(c))
  <1>1. /\ c.run \in Runs /\ c.node \in Nodes
        /\ c = [run |-> c.run, node |-> c.node, attempt |-> c.attempt]
    BY DEF Contexts
  <1>2. RecordOf(c) \in NodeRecord BY <1>1 DEF TypeOK, RecordOf
  <1>3. /\ record \in NodeRecord
        /\ record.uncertain = RecordOf(c).uncertain
        /\ record.attempt = RecordOf(c).attempt
        /\ record.status = "RUNNING"
    BY <1>2, ClaimedType
  <1>4. RecordOf(c).status = "READY" /\ RecordOf(c).attempt = c.attempt
    BY DEF Claim, ClaimRecord, Claimable
  <1>5. ~RecordOf(c).uncertain /\ RecordOf(c).status \notin Terminal
    BY <1>1, <1>4 DEF UncertainHoldsRunOpen, RecordOf, Terminal, Success, Bad
  <1>6. WriteNode(c.run, c.node, record) BY DEF Claim, ClaimRecord
  <1>7. record.reusedFrom = RecordOf(c).reusedFrom BY <1>2, ProvenanceFields
  <1>. HIDE DEF record
  <1>8. Sourced(c.run, c.node, record) BY <1>3, <1>7 DEF Sourced, RecordOf
  <1>9. OneWrite(c.run, c.node, record)
    BY <1>1, <1>3, <1>4, <1>5, <1>6, <1>8 DEF OneWrite, Claim, ClaimRecord, RecordOf, Terminal
  <1>. QED BY <1>1, <1>3, <1>9

LEMMA NodeSteps ==
  ASSUME TypeOK, UncertainHoldsRunOpen, Next
  PROVE  \/ \E r \in Runs, n \in Nodes, record \in NodeRecord : OneWrite(r, n, record)
         \/ \E mode \in Modes, parent \in 0..MaxRuns : BeginRun(mode, parent)
         \/ \E r \in Runs : Summarise(r) \/ FinishRun(r) \/ Reconcile(r)
         \/ \E c \in Contexts, op \in Operations, digest \in Digests :
                PutOutbox(c, op, digest)
  <1>1. CASE \E r \in Runs, n \in Nodes :
               \/ Prepare(r, n) \/ Reuse(r, n)
               \/ \E status \in {"SKIPPED_CONDITION", "BLOCKED", "CANCELLED"} :
                      Skip(r, n, status)
    BY <1>1, OrchestratorWrites, Zenon
  <1>2. CASE \E c \in Contexts : Claim(c)
    BY <1>2, ClaimWrites, Zenon
  <1>3. CASE \E c \in Contexts : ChildSucceeds(c)
    <2>. PICK c \in Contexts, late \in BOOLEAN :
           FinishAttempt(c, "SUCCEEDED", FALSE, FALSE, late, FALSE)
      BY <1>3 DEF ChildSucceeds
    <2>. QED BY FinishWrites DEF Outcomes
  <1>4. CASE \E c \in Contexts : ChildFails(c)
    <2>. PICK c \in Contexts, status \in {"FAILED", "TIMED_OUT"}, retryable \in BOOLEAN :
           FinishAttempt(c, status, retryable, FALSE, FALSE, FALSE)
      BY <1>4, RetryablesAssumption DEF ChildFails
    <2>. QED BY FinishWrites DEF Outcomes
  <1>5. CASE \E c \in Contexts : ExecutorFails(c)
    <2>. PICK c \in Contexts, status \in {"FAILED", "TIMED_OUT"},
              retryable \in BOOLEAN, uncertain \in BOOLEAN :
           FinishAttempt(c, status, retryable, uncertain, FALSE, TRUE)
      BY <1>5, RetryablesAssumption DEF ExecutorFails
    <2>. QED BY FinishWrites DEF Outcomes
  <1>. QED BY <1>1, <1>2, <1>3, <1>4, <1>5 DEF Next, OrchestratorStep, AttemptStep

-----------------------------------------------------------------------------
(* The invariant holds initially, *)

LEMMA InitInvariant == Init => IInv
  <1>. SUFFICES ASSUME Init PROVE IInv OBVIOUS
  <1>1. TypeOK
    <2>1. [n \in Nodes |-> PendingNode] \in [Nodes -> NodeRecord]
      BY PendingNodeType
    <2>2. nodes \in [Runs -> [Nodes -> NodeRecord]] BY <2>1 DEF Init
    <2>3. runs \in [Runs -> [status : RunStatus, parent : 0..MaxRuns]]
      BY BoundAssumption DEF Init, NoRun, RunStatus
    <2>4. outbox \in [Effects -> [digest : Digests \cup {NoDigest}, reference : Nat \X Nat]]
      BY DEF Init, NoEffect, NoOutput
    <2>. QED BY <2>2, <2>3, <2>4, BoundAssumption DEF TypeOK, Init
  <1>2. OneOpenRun /\ NoneAhead /\ ParentIsPreviousRun /\ ClosedRunDecision
    BY SMT DEF Init, NoRun, OneOpenRun, NoneAhead, ParentIsPreviousRun, ClosedRunDecision,
           Open, Closed
  <1>3. DecisionStands /\ ClaimsPast
    BY DEF Init, DecisionStands, ClaimsPast, Closed, Undecided
  <1>4. UncertainHoldsRunOpen
    BY DEF Init, UncertainHoldsRunOpen, PendingNode
  <1>. QED BY <1>1, <1>2, <1>3, <1>4 DEF IInv

(* a write of one record preserves it,                                     *)

LEMMA OneWriteInvariant ==
  ASSUME IInv, NEW r \in Runs, NEW n \in Nodes, NEW record \in NodeRecord,
         OneWrite(r, n, record)
  PROVE  IInv'
  <1>1. /\ RecordsType'
        /\ nodes'[r][n] = record
        /\ \A s \in Runs, m \in Nodes : <<s, m>> # <<r, n>> => nodes'[s][m] = nodes[s][m]
    BY WriteNodeEffect DEF IInv, TypeOK, RecordsType, OneWrite
  <1>2. started' \subseteq Contexts
    BY DEF IInv, TypeOK, OneWrite
  <1>3. TypeOK' BY <1>1, <1>2 DEF IInv, TypeOK, RecordsType, OneWrite
  <1>4. OneOpenRun' /\ ParentIsPreviousRun'
    BY DEF IInv, OneOpenRun, ParentIsPreviousRun, OneWrite
  <1>9. NoneAhead'
    <2>. SUFFICES ASSUME NEW s \in Runs, s > latest
                  PROVE  /\ runs'[s].status = "ABSENT" /\ decided'[s] = Undecided
                         /\ \A m \in Nodes : nodes'[s][m] = PendingNode
      BY DEF NoneAhead, OneWrite
    <2>1. s # r BY DEF OneWrite, IInv, NoneAhead
    <2>. QED BY <1>1, <2>1 DEF IInv, NoneAhead, OneWrite
  <1>5. DecisionStands'
    <2>. SUFFICES ASSUME NEW s \in Runs, decided'[s] \in Closed
                  PROVE  /\ \A m \in Nodes : nodes'[s][m].status \in Terminal
                                             /\ ~nodes'[s][m].uncertain
                         /\ decided'[s] = "SUCCEEDED" =>
                              \A m \in Critical : nodes'[s][m].status \notin Bad
      BY DEF DecisionStands
    <2>1. decided[s] \in Closed /\ decided'[s] = decided[s] BY DEF OneWrite
    <2>2. s # r
      BY <2>1 DEF OneWrite, IInv, DecisionStands, Closed, Undecided
    <2>3. \A m \in Nodes : nodes'[s][m] = nodes[s][m] BY <1>1, <2>2
    <2>. QED BY <2>1, <2>3, CriticalAssumption DEF IInv, DecisionStands
  <1>6. ClosedRunDecision'
    <2>. SUFFICES ASSUME NEW s \in Runs, runs'[s].status \in Closed
                  PROVE  /\ \A m \in Nodes : nodes'[s][m].status \in Terminal
                                             /\ ~nodes'[s][m].uncertain
                         /\ runs'[s].status = "SUCCEEDED" =>
                              \A m \in Critical : nodes'[s][m].status \notin Bad
      BY DEF ClosedRunDecision
    <2>1. runs[s].status \in Closed /\ runs'[s] = runs[s] /\ s # r
      BY DEF OneWrite, Closed
    <2>2. \A m \in Nodes : nodes'[s][m] = nodes[s][m] BY <1>1, <2>1
    <2>. QED BY <2>1, <2>2, CriticalAssumption DEF IInv, ClosedRunDecision
  <1>7. UncertainHoldsRunOpen'
    <2>. SUFFICES ASSUME NEW s \in Runs, NEW m \in Nodes, nodes'[s][m].uncertain
                  PROVE  /\ runs'[s].status \in Open
                         /\ nodes'[s][m].status \in {"FAILED", "TIMED_OUT"}
      BY DEF UncertainHoldsRunOpen
    <2>1. CASE s = r /\ m = n
      BY <1>1, <2>1 DEF OneWrite, Open
    <2>2. CASE ~(s = r /\ m = n)
      <3>1. nodes'[s][m] = nodes[s][m] BY <1>1, <2>2
      <3>. QED BY <3>1 DEF OneWrite, IInv, UncertainHoldsRunOpen
    <2>. QED BY <2>1, <2>2
  <1>8. ClaimsPast'
    <2>. SUFFICES ASSUME NEW c \in started'
                  PROVE  /\ c.run <= latest'
                         /\ c.attempt <= nodes'[c.run][c.node].attempt
                         /\ c.attempt = nodes'[c.run][c.node].attempt =>
                              nodes'[c.run][c.node].status # "READY"
      BY DEF ClaimsPast
    <2>1. c.run \in Runs /\ c.node \in Nodes /\ c.attempt \in Nat
      BY <1>2 DEF Contexts
    <2>2. nodes[r][n].attempt \in Nat BY DEF IInv, TypeOK, NodeRecord
    <2>3. r <= latest
      BY DEF OneWrite, IInv, NoneAhead, TypeOK, Runs
    <2>4. CASE c \in started /\ <<c.run, c.node>> = <<r, n>>
      BY <1>1, <2>1, <2>2, <2>4 DEF OneWrite, IInv, ClaimsPast
    <2>5. CASE c \in started /\ <<c.run, c.node>> # <<r, n>>
      BY <1>1, <2>1, <2>5 DEF OneWrite, IInv, ClaimsPast
    <2>6. CASE c \notin started
      <3>1. /\ record.status = "RUNNING"
            /\ c = [run |-> r, node |-> n, attempt |-> record.attempt]
        BY <2>6 DEF OneWrite
      <3>. QED BY <1>1, <2>3, <2>1, <3>1 DEF OneWrite
    <2>. QED BY <2>4, <2>5, <2>6
  <1>. QED BY <1>3, <1>4, <1>5, <1>6, <1>7, <1>8, <1>9 DEF IInv

(* so does begin_run,                                                      *)

LEMMA BeginRunInvariant ==
  ASSUME IInv, NEW mode \in Modes, NEW parent \in 0..MaxRuns, BeginRun(mode, parent)
  PROVE  IInv'
  <1>. DEFINE q == latest + 1
              from == IF mode = "force_rerun" THEN latest ELSE parent
  <1>1. q \in Runs /\ latest' = q /\ latest \in 0..MaxRuns
    BY BoundAssumption DEF BeginRun, IInv, TypeOK, Runs
  <1>2. from = latest
    BY <1>1 DEF BeginRun, AcceptsRun, Modes
  <1>3. /\ runs'[q] = [status |-> "RUNNING", parent |-> latest]
        /\ \A s \in Runs : s # q => runs'[s] = runs[s]
        /\ runs' \in [Runs -> [status : RunStatus, parent : 0..MaxRuns]]
    BY <1>1, <1>2 DEF BeginRun, IInv, TypeOK, RunStatus
  <1>4. [n \in Nodes |-> PendingNode] \in [Nodes -> NodeRecord] BY PendingNodeType
  <1>5. /\ nodes'[q] = [n \in Nodes |-> PendingNode]
        /\ \A s \in Runs : s # q => nodes'[s] = nodes[s]
        /\ nodes' \in [Runs -> [Nodes -> NodeRecord]]
    BY <1>1, <1>4 DEF BeginRun, IInv, TypeOK
  <1>6. decided' = decided /\ started' = started /\ outbox' = outbox
    BY DEF BeginRun
  <1>7. decided[q] = Undecided
    BY <1>1 DEF IInv, NoneAhead
  <1>8. \A s \in Runs : runs[s].status \notin Open BY DEF BeginRun, AcceptsRun
  <1>. HIDE DEF q, from
  <1>9. TypeOK'
    BY <1>1, <1>3, <1>5, <1>6, BoundAssumption DEF IInv, TypeOK, Runs
  <1>10. OneOpenRun'
    BY <1>1, <1>3, <1>8 DEF OneOpenRun
  <1>11. NoneAhead'
    <2>. SUFFICES ASSUME NEW s \in Runs, s > q
                  PROVE  /\ runs'[s].status = "ABSENT" /\ decided'[s] = Undecided
                         /\ \A n \in Nodes : nodes'[s][n] = PendingNode
      BY <1>1 DEF NoneAhead
    <2>1. s > latest /\ s # q BY <1>1 DEF Runs, q
    <2>. QED BY <1>3, <1>5, <1>6, <2>1 DEF IInv, NoneAhead
  <1>12. ParentIsPreviousRun'
    <2>1. q - 1 = latest BY <1>1 DEF q
    <2>. QED BY <1>3, <2>1 DEF IInv, ParentIsPreviousRun
  <1>13. DecisionStands'
    BY <1>5, <1>6, <1>7, CriticalAssumption DEF IInv, DecisionStands, Closed, Undecided
  <1>14. ClosedRunDecision'
    BY <1>3, <1>5, CriticalAssumption DEF IInv, ClosedRunDecision, Closed
  <1>15. UncertainHoldsRunOpen'
    BY <1>3, <1>5 DEF IInv, UncertainHoldsRunOpen, PendingNode
  <1>16. ClaimsPast'
    <2>. SUFFICES ASSUME NEW c \in started
                  PROVE  /\ c.run <= q
                         /\ c.attempt <= nodes'[c.run][c.node].attempt
                         /\ c.attempt = nodes'[c.run][c.node].attempt =>
                              nodes'[c.run][c.node].status # "READY"
      BY <1>1, <1>6 DEF ClaimsPast
    <2>1. c.run \in Runs /\ c.run <= latest BY DEF IInv, TypeOK, Contexts, ClaimsPast
    <2>2. c.run # q /\ c.run <= q BY <1>1, <2>1 DEF q, Runs
    <2>. QED BY <1>5, <2>1, <2>2 DEF IInv, ClaimsPast
  <1>. QED BY <1>9, <1>10, <1>11, <1>12, <1>13, <1>14, <1>15, <1>16 DEF IInv

(* put_outbox, which leaves runs and nodes alone,                          *)

LEMMA PutOutboxInvariant ==
  ASSUME IInv, NEW c \in Contexts, NEW op \in Operations, NEW digest \in Digests,
         PutOutbox(c, op, digest)
  PROVE  IInv'
  <1>1. <<c.run, c.attempt>> \in Nat \X Nat /\ c.node \in Nodes BY DEF Contexts, Runs
  <1>2. [digest |-> digest, reference |-> <<c.run, c.attempt>>]
          \in [digest : Digests \cup {NoDigest}, reference : Nat \X Nat]
    BY <1>1
  <1>3. outbox' \in [Effects -> [digest : Digests \cup {NoDigest}, reference : Nat \X Nat]]
    BY <1>2 DEF PutOutbox, IInv, TypeOK
  <1>4. TypeOK' BY <1>3 DEF PutOutbox, IInv, TypeOK
  <1>. QED BY <1>4 DEF PutOutbox, IInv, OneOpenRun, NoneAhead, ParentIsPreviousRun,
                       DecisionStands, ClosedRunDecision, UncertainHoldsRunOpen, ClaimsPast

(* the orchestrator's summary,                                             *)

LEMMA SummariseInvariant ==
  ASSUME IInv, NEW r \in Runs, Summarise(r)
  PROVE  IInv'
  <1>1. UNCHANGED <<latest, runs, nodes, outbox, started>> BY DEF Summarise
  <1>2. /\ decided'[r] = Summary(r)
        /\ \A s \in Runs : s # r => decided'[s] = decided[s]
    BY DEF Summarise, IInv, TypeOK
  <1>3. Summary(r) \in {"SUCCEEDED", "FAILED", "RECOVERY_REQUIRED"} BY DEF Summary
  <1>4. TypeOK'
    BY <1>1, <1>3 DEF Summarise, IInv, TypeOK
  <1>5. NoneAhead'
    BY <1>1, <1>2 DEF Summarise, Scheduling, IInv, NoneAhead
  <1>6. DecisionStands'
    <2>1. Summary(r) \in Closed => \A n \in Nodes : ~nodes[r][n].uncertain
      BY DEF Summary, Closed
    <2>2. Summary(r) \in Closed => \A n \in Nodes : nodes[r][n].status \in Terminal
      BY <2>1 DEF Summarise
    <2>3. Summary(r) = "SUCCEEDED" => \A n \in Critical : nodes[r][n].status \notin Bad
      BY DEF Summary
    <2>. QED BY <1>1, <1>2, <2>1, <2>2, <2>3 DEF IInv, DecisionStands
  <1>. QED BY <1>1, <1>4, <1>5, <1>6 DEF IInv, OneOpenRun, ParentIsPreviousRun,
                       ClosedRunDecision, UncertainHoldsRunOpen, ClaimsPast

(* finish_run, which commits a summary that still stands,                  *)

LEMMA FinishRunInvariant ==
  ASSUME IInv, NEW r \in Runs, FinishRun(r)
  PROVE  IInv'
  <1>1. UNCHANGED <<latest, nodes, outbox, decided, started>> BY DEF FinishRun
  <1>2. decided[r] \in {"SUCCEEDED", "FAILED", "RECOVERY_REQUIRED"}
    BY DEF FinishRun, IInv, TypeOK, Undecided
  <1>3. runs \in [Runs -> [status : RunStatus, parent : 0..MaxRuns]]
    BY DEF IInv, TypeOK
  <1>4. /\ runs' \in [Runs -> [status : RunStatus, parent : 0..MaxRuns]]
        /\ runs'[r].status = decided[r]
        /\ runs'[r].parent = runs[r].parent
        /\ \A s \in Runs : s # r => runs'[s] = runs[s]
    BY <1>2, <1>3 DEF FinishRun, RunStatus
  <1>5. runs[r].status = "RUNNING" /\ r = latest
    BY DEF FinishRun, IInv, OneOpenRun, Open
  <1>6. TypeOK' BY <1>1, <1>4 DEF IInv, TypeOK
  <1>7. OneOpenRun' BY <1>1, <1>4, <1>5 DEF IInv, OneOpenRun
  <1>8. NoneAhead'
    BY <1>1, <1>4, <1>5 DEF IInv, NoneAhead, Runs
  <1>9. ParentIsPreviousRun'
    BY <1>4, <1>5 DEF IInv, ParentIsPreviousRun
  <1>10. DecisionStands' /\ ClaimsPast' BY <1>1 DEF IInv, DecisionStands, ClaimsPast
  <1>11. ClosedRunDecision'
    BY <1>1, <1>4 DEF IInv, DecisionStands, ClosedRunDecision, Closed
  <1>12. UncertainHoldsRunOpen'
    <2>. SUFFICES ASSUME NEW s \in Runs, NEW n \in Nodes, nodes[s][n].uncertain
                  PROVE  /\ runs'[s].status \in Open
                         /\ nodes[s][n].status \in {"FAILED", "TIMED_OUT"}
      BY <1>1 DEF UncertainHoldsRunOpen
    <2>1. nodes[s][n].status \in {"FAILED", "TIMED_OUT"} /\ runs[s].status \in Open
      BY DEF IInv, UncertainHoldsRunOpen
    <2>2. CASE s = r
      <3>1. decided[r] \notin Closed BY <2>2 DEF IInv, DecisionStands
      <3>. QED BY <1>2, <1>4, <2>1, <2>2, <3>1 DEF Closed, Open
    <2>3. CASE s # r BY <1>4, <2>1, <2>3
    <2>. QED BY <2>2, <2>3, <2>1
  <1>. QED BY <1>6, <1>7, <1>8, <1>9, <1>10, <1>11, <1>12 DEF IInv

(* and reconcile.                                                          *)

LEMMA ReconcileInvariant ==
  ASSUME IInv, NEW r \in Runs, Reconcile(r)
  PROVE  IInv'
  <1>1. UNCHANGED <<latest, outbox, decided, started>> BY DEF Reconcile
  <1>2. runs \in [Runs -> [status : RunStatus, parent : 0..MaxRuns]]
    BY DEF IInv, TypeOK
  <1>3. /\ runs' \in [Runs -> [status : RunStatus, parent : 0..MaxRuns]]
        /\ runs'[r].status = "FAILED"
        /\ runs'[r].parent = runs[r].parent
        /\ \A s \in Runs : s # r => runs'[s] = runs[s]
    BY <1>2 DEF Reconcile, RunStatus
  <1>4. \A n \in Nodes : nodes[r][n] \in NodeRecord BY DEF IInv, TypeOK
  <1>5. \A n \in Nodes :
           /\ Reconciled(nodes[r][n]) \in NodeRecord
           /\ Reconciled(nodes[r][n]).status \in Terminal
           /\ ~Reconciled(nodes[r][n]).uncertain
           /\ Reconciled(nodes[r][n]).attempt = nodes[r][n].attempt
           /\ nodes[r][n].status \in Terminal /\ ~nodes[r][n].uncertain =>
                 Reconciled(nodes[r][n]) = nodes[r][n]
    BY <1>4, ReconciledType, Zenon
  <1>6. /\ nodes' \in [Runs -> [Nodes -> NodeRecord]]
        /\ \A n \in Nodes : nodes'[r][n] = Reconciled(nodes[r][n])
        /\ \A s \in Runs : s # r => nodes'[s] = nodes[s]
    BY <1>5 DEF Reconcile, IInv, TypeOK
  <1>7. runs[r].status \in Open /\ r = latest
    BY DEF Reconcile, IInv, OneOpenRun
  <1>8. TypeOK' BY <1>1, <1>3, <1>6 DEF IInv, TypeOK
  <1>9. OneOpenRun' BY <1>1, <1>3, <1>7 DEF IInv, OneOpenRun
  <1>10. NoneAhead' BY <1>1, <1>3, <1>6, <1>7 DEF IInv, NoneAhead, Runs
  <1>11. ParentIsPreviousRun'
    BY <1>3, <1>7 DEF IInv, ParentIsPreviousRun, Open
  <1>12. DecisionStands'
    <2>. SUFFICES ASSUME NEW s \in Runs, decided[s] \in Closed
                  PROVE  /\ \A m \in Nodes : nodes'[s][m].status \in Terminal
                                             /\ ~nodes'[s][m].uncertain
                         /\ decided[s] = "SUCCEEDED" =>
                              \A m \in Critical : nodes'[s][m].status \notin Bad
      BY <1>1 DEF DecisionStands
    <2>1. /\ \A m \in Nodes : nodes[s][m].status \in Terminal /\ ~nodes[s][m].uncertain
          /\ decided[s] = "SUCCEEDED" => \A m \in Critical : nodes[s][m].status \notin Bad
      BY DEF IInv, DecisionStands
    <2>2. \A m \in Nodes : nodes'[s][m] = nodes[s][m]
      BY <1>5, <1>6, <2>1
    <2>. QED BY <2>1, <2>2, CriticalAssumption
  <1>13. ClosedRunDecision'
    <2>. SUFFICES ASSUME NEW s \in Runs, runs'[s].status \in Closed
                  PROVE  /\ \A m \in Nodes : nodes'[s][m].status \in Terminal
                                             /\ ~nodes'[s][m].uncertain
                         /\ runs'[s].status = "SUCCEEDED" =>
                              \A m \in Critical : nodes'[s][m].status \notin Bad
      BY DEF ClosedRunDecision
    <2>1. CASE s = r BY <1>3, <1>5, <1>6, <2>1
    <2>2. CASE s # r
      BY <1>3, <1>6, <2>2, CriticalAssumption DEF IInv, ClosedRunDecision
    <2>. QED BY <2>1, <2>2
  <1>14. UncertainHoldsRunOpen'
    <2>. SUFFICES ASSUME NEW s \in Runs, NEW n \in Nodes, nodes'[s][n].uncertain
                  PROVE  /\ runs'[s].status \in Open
                         /\ nodes'[s][n].status \in {"FAILED", "TIMED_OUT"}
      BY DEF UncertainHoldsRunOpen
    <2>1. s # r BY <1>5, <1>6
    <2>. QED BY <1>3, <1>6, <2>1 DEF IInv, UncertainHoldsRunOpen
  <1>15. ClaimsPast'
    <2>. SUFFICES ASSUME NEW c \in started
                  PROVE  /\ c.run <= latest
                         /\ c.attempt <= nodes'[c.run][c.node].attempt
                         /\ c.attempt = nodes'[c.run][c.node].attempt =>
                              nodes'[c.run][c.node].status # "READY"
      BY <1>1 DEF ClaimsPast
    <2>1. c.run \in Runs /\ c.node \in Nodes BY DEF IInv, TypeOK, Contexts
    <2>2. "READY" \notin Terminal BY DEF Terminal, Success, Bad
    <2>3. CASE c.run = r
      BY <1>5, <1>6, <2>1, <2>2, <2>3 DEF IInv, ClaimsPast
    <2>4. CASE c.run # r
      BY <1>6, <2>1, <2>4 DEF IInv, ClaimsPast
    <2>. QED BY <2>3, <2>4
  <1>. QED BY <1>8, <1>9, <1>10, <1>11, <1>12, <1>13, <1>14, <1>15 DEF IInv

LEMMA StepInvariant == IInv /\ [Next]_vars => IInv'
  <1>. SUFFICES ASSUME IInv, [Next]_vars PROVE IInv' OBVIOUS
  <1>1. CASE Next
    <2>1. TypeOK /\ UncertainHoldsRunOpen BY DEF IInv
    <2>. QED BY <1>1, <2>1, NodeSteps, OneWriteInvariant, BeginRunInvariant,
                PutOutboxInvariant, SummariseInvariant, FinishRunInvariant,
                ReconcileInvariant, Zenon
  <1>2. CASE UNCHANGED vars
    BY <1>2 DEF vars, IInv, TypeOK, OneOpenRun, NoneAhead, ParentIsPreviousRun,
                DecisionStands, ClosedRunDecision, UncertainHoldsRunOpen, ClaimsPast
  <1>. QED BY <1>1, <1>2

-----------------------------------------------------------------------------
(* The inductive invariant holds in every state the store reaches.         *)
THEOREM Invariant == Spec => []IInv
  BY InitInvariant, StepInvariant, PTL DEF Spec

(* Every record keeps its type, whatever order the transactions of         *)
(* orchestrators, children and operators commit in.                        *)
THEOREM TypeCorrect == Spec => []TypeOK
  <1>1. IInv => TypeOK BY DEF IInv
  <1>. QED BY <1>1, Invariant, PTL

(* begin_run never lets two runs of a business key be open at once.        *)
THEOREM OneOpenRunHolds == Spec => []OneOpenRun
  <1>1. IInv => OneOpenRun BY DEF IInv
  <1>. QED BY <1>1, Invariant, PTL

(* Recovery always descends from the latest run.                           *)
THEOREM ParentIsPreviousRunHolds == Spec => []ParentIsPreviousRun
  <1>1. IInv => ParentIsPreviousRun BY DEF IInv
  <1>. QED BY <1>1, Invariant, PTL

(* What finish_run or reconcile closes a run with is true of its records,  *)
(* although the summary was computed in an earlier transaction.            *)
THEOREM ClosedRunDecisionHolds == Spec => []ClosedRunDecision
  <1>1. IInv => ClosedRunDecision BY DEF IInv
  <1>. QED BY <1>1, Invariant, PTL

(* No run with an uncertain record is closed.                              *)
THEOREM UncertainHoldsRunOpenHolds == Spec => []UncertainHoldsRunOpen
  <1>1. IInv => UncertainHoldsRunOpen BY DEF IInv
  <1>. QED BY <1>1, Invariant, PTL

-----------------------------------------------------------------------------
(* Action properties.  Each is proved of one step from the invariant.      *)

(* A step that changes a run or its records finds the run open or absent.  *)
LEMMA FrozenStep ==
  ASSUME IInv, Next, NEW s \in Runs, runs[s].status \in Closed
  PROVE  runs'[s] = runs[s] /\ nodes'[s] = nodes[s]
  <1>1. CASE \E r \in Runs, n \in Nodes, record \in NodeRecord : OneWrite(r, n, record)
    <2>. PICK r \in Runs, n \in Nodes, record \in NodeRecord : OneWrite(r, n, record)
      BY <1>1
    <2>1. s # r BY DEF OneWrite, Closed
    <2>. QED BY <2>1, WriteNodeEffect DEF OneWrite, IInv, TypeOK, RecordsType
  <1>2. CASE \E mode \in Modes, parent \in 0..MaxRuns : BeginRun(mode, parent)
    <2>1. latest + 1 \in Runs => runs[latest + 1].status = "ABSENT"
      BY DEF IInv, TypeOK, NoneAhead, Runs
    <2>2. s # latest + 1 BY <2>1 DEF Closed
    <2>. QED BY <1>2, <2>2 DEF BeginRun, IInv, TypeOK
  <1>3. CASE \E r \in Runs : Summarise(r) \/ FinishRun(r) \/ Reconcile(r)
    <2>. PICK r \in Runs : Summarise(r) \/ FinishRun(r) \/ Reconcile(r) BY <1>3
    <2>1. CASE Summarise(r) BY <2>1 DEF Summarise
    <2>2. CASE FinishRun(r)
      <3>1. s # r BY <2>2 DEF FinishRun, Closed
      <3>. QED BY <2>2, <3>1 DEF FinishRun, IInv, TypeOK
    <2>3. CASE Reconcile(r)
      <3>1. s # r BY <2>3 DEF Reconcile, Closed, Open
      <3>. QED BY <2>3, <3>1 DEF Reconcile, IInv, TypeOK
    <2>. QED BY <2>1, <2>2, <2>3
  <1>4. CASE \E c \in Contexts, op \in Operations, digest \in Digests :
               PutOutbox(c, op, digest)
    BY <1>4 DEF PutOutbox
  <1>5. TypeOK /\ UncertainHoldsRunOpen BY DEF IInv
  <1>. QED BY <1>1, <1>2, <1>3, <1>4, <1>5, NodeSteps, Zenon

(* A closed run is never written again: late children, abandoned           *)
(* orchestrators and operators are refused by the store.                   *)
THEOREM ClosedRunFrozenHolds == Spec => ClosedRunFrozen
  <1>1. ASSUME IInv, [Next]_vars
        PROVE  [\A r \in Runs : runs[r].status \in Closed =>
                  runs'[r] = runs[r] /\ nodes'[r] = nodes[r]]_vars
    BY <1>1, FrozenStep, Zenon DEF vars
  <1>. QED BY <1>1, Invariant, PTL DEF Spec, ClosedRunFrozen

(* A node turns RUNNING only by the claim of an attempt not yet claimed.   *)
LEMMA ClaimStep ==
  ASSUME IInv, Next, NEW r \in Runs, NEW n \in Nodes,
         nodes'[r][n].status = "RUNNING", nodes[r][n].status # "RUNNING"
  PROVE  [run |-> r, node |-> n, attempt |-> nodes'[r][n].attempt] \notin started
  <1>1. CASE \E s \in Runs, m \in Nodes, record \in NodeRecord : OneWrite(s, m, record)
    <2>. PICK s \in Runs, m \in Nodes, record \in NodeRecord : OneWrite(s, m, record)
      BY <1>1
    <2>1. /\ nodes'[s][m] = record
          /\ \A t \in Runs, k \in Nodes : <<t, k>> # <<s, m>> => nodes'[t][k] = nodes[t][k]
      BY WriteNodeEffect DEF OneWrite, IInv, TypeOK, RecordsType
    <2>2. s = r /\ m = n BY <2>1
    <2>3. nodes[r][n].status = "READY" /\ nodes'[r][n].attempt = nodes[r][n].attempt
      BY <2>1, <2>2 DEF OneWrite
    <2>. QED BY <2>3 DEF IInv, ClaimsPast
  <1>2. CASE \E mode \in Modes, parent \in 0..MaxRuns : BeginRun(mode, parent)
    <2>1. nodes'[r] = nodes[r] \/ nodes'[r] = [m \in Nodes |-> PendingNode]
      BY <1>2 DEF BeginRun, IInv, TypeOK
    <2>. QED BY <2>1 DEF PendingNode
  <1>3. CASE \E s \in Runs : Summarise(s) \/ FinishRun(s) \/ Reconcile(s)
    <2>. PICK s \in Runs : Summarise(s) \/ FinishRun(s) \/ Reconcile(s) BY <1>3
    <2>1. CASE Summarise(s) \/ FinishRun(s) BY <2>1 DEF Summarise, FinishRun
    <2>2. CASE Reconcile(s)
      <3>1. nodes'[r][n] = nodes[r][n] \/ nodes'[r][n] = Reconciled(nodes[r][n])
        BY <2>2 DEF Reconcile, IInv, TypeOK
      <3>2. Reconciled(nodes[r][n]).status \in Terminal
        BY ReconciledType DEF IInv, TypeOK
      <3>. QED BY <3>1, <3>2 DEF Terminal, Success, Bad
    <2>. QED BY <2>1, <2>2
  <1>4. CASE \E c \in Contexts, op \in Operations, digest \in Digests :
               PutOutbox(c, op, digest)
    BY <1>4 DEF PutOutbox
  <1>5. TypeOK /\ UncertainHoldsRunOpen BY DEF IInv
  <1>. QED BY <1>1, <1>2, <1>3, <1>4, <1>5, NodeSteps, Zenon

(* No attempt starts twice, however many children hold its context.        *)
THEOREM ClaimedOnceHolds == Spec => ClaimedOnce
  <1>1. ASSUME IInv, [Next]_vars
        PROVE  [\A r \in Runs, n \in Nodes :
                  nodes'[r][n].status = "RUNNING" /\ nodes[r][n].status # "RUNNING" =>
                    [run |-> r, node |-> n, attempt |-> nodes'[r][n].attempt]
                      \notin started]_vars
    BY <1>1, ClaimStep, Zenon DEF vars
  <1>. QED BY <1>1, Invariant, PTL DEF Spec, ClaimedOnce

(* Only reconcile settles an uncertain record.                             *)
LEMMA QuarantineStep ==
  ASSUME IInv, Next, NEW r \in Runs, NEW n \in Nodes,
         nodes[r][n].uncertain, nodes'[r][n].status # nodes[r][n].status
  PROVE  nodes'[r][n].status = "CANCELLED" /\ runs'[r].status = "FAILED"
  <1>0. runs[r].status \in Open BY DEF IInv, UncertainHoldsRunOpen
  <1>1. CASE \E s \in Runs, m \in Nodes, record \in NodeRecord : OneWrite(s, m, record)
    <2>. PICK s \in Runs, m \in Nodes, record \in NodeRecord : OneWrite(s, m, record)
      BY <1>1
    <2>1. \A t \in Runs, k \in Nodes : <<t, k>> # <<s, m>> => nodes'[t][k] = nodes[t][k]
      BY WriteNodeEffect DEF OneWrite, IInv, TypeOK, RecordsType
    <2>. QED BY <2>1 DEF OneWrite
  <1>2. CASE \E mode \in Modes, parent \in 0..MaxRuns : BeginRun(mode, parent)
    BY <1>0, <1>2 DEF BeginRun, AcceptsRun
  <1>3. CASE \E s \in Runs : Summarise(s) \/ FinishRun(s) \/ Reconcile(s)
    <2>. PICK s \in Runs : Summarise(s) \/ FinishRun(s) \/ Reconcile(s) BY <1>3
    <2>1. CASE Summarise(s) \/ FinishRun(s) BY <2>1 DEF Summarise, FinishRun
    <2>2. CASE Reconcile(s)
      <3>1. s = r BY <2>2 DEF Reconcile, IInv, TypeOK
      <3>2. nodes'[r][n] = Reconciled(nodes[r][n]) /\ runs'[r].status = "FAILED"
        BY <2>2, <3>1 DEF Reconcile, IInv, TypeOK
      <3>3. nodes[r][n] \in NodeRecord BY DEF IInv, TypeOK
      <3>4. Reconciled(nodes[r][n]).status = "CANCELLED"
        BY <3>3 DEF Reconciled, NodeRecord
      <3>. QED BY <3>2, <3>4
    <2>. QED BY <2>1, <2>2
  <1>4. CASE \E c \in Contexts, op \in Operations, digest \in Digests :
               PutOutbox(c, op, digest)
    BY <1>4 DEF PutOutbox
  <1>5. TypeOK /\ UncertainHoldsRunOpen BY DEF IInv
  <1>. QED BY <1>1, <1>2, <1>3, <1>4, <1>5, NodeSteps, Zenon

(* An uncertain attempt is neither retried nor settled by a late report    *)
(* before an operator reconciles its run.                                  *)
THEOREM UncertainQuarantinedHolds == Spec => UncertainQuarantined
  <1>1. ASSUME IInv, [Next]_vars
        PROVE  [\A r \in Runs, n \in Nodes :
                  nodes[r][n].uncertain /\ nodes'[r][n].status # nodes[r][n].status =>
                    nodes'[r][n].status = "CANCELLED" /\ runs'[r].status = "FAILED"]_vars
    BY <1>1, QuarantineStep, Zenon DEF vars
  <1>. QED BY <1>1, Invariant, PTL DEF Spec, UncertainQuarantined
-----------------------------------------------------------------------------
(* Where outputs come from. *)

(* A RUNNING record's attempt has been claimed, a success names its own    *)
(* attempt, and a reused one a success of an earlier run.                  *)
Provenance(r, n) ==
    LET record == nodes[r][n]
    IN  /\ record.status \in {"RUNNING", "SUCCEEDED"} =>
               [run |-> r, node |-> n, attempt |-> record.attempt] \in started
        /\ record.status = "SUCCEEDED" => record.outputs = <<r, record.attempt>>
        /\ record.status = "SKIPPED_ALREADY_SATISFIED" =>
               /\ record.reusedFrom \in 1..(r - 1)
               /\ nodes[record.reusedFrom][n].status = "SUCCEEDED"
               /\ nodes[record.reusedFrom][n].outputs = record.outputs
        /\ record.status # "SKIPPED_ALREADY_SATISFIED" => record.reusedFrom = 0

ProvenanceInv == \A r \in Runs, n \in Nodes : Provenance(r, n)

(* A step keeps the provenance of what it leaves alone, if it changes no   *)
(* recorded success.                                                       *)
LEMMA ProvenanceKept ==
  ASSUME ProvenanceInv, NEW r \in Runs, NEW n \in Nodes,
         nodes'[r][n] = nodes[r][n], started \subseteq started',
         \A s \in Runs : nodes[s][n].status = "SUCCEEDED" => nodes'[s][n] = nodes[s][n]
  PROVE  Provenance(r, n)'
  <1>1. Provenance(r, n) BY DEF ProvenanceInv
  <1>2. CASE nodes[r][n].status = "SKIPPED_ALREADY_SATISFIED"
    <2>1. nodes[r][n].reusedFrom \in Runs BY <1>1, <1>2, BoundAssumption DEF Provenance, Runs
    <2>. QED BY <1>1, <1>2, <2>1 DEF Provenance
  <1>3. CASE nodes[r][n].status # "SKIPPED_ALREADY_SATISFIED"
    BY <1>1, <1>3 DEF Provenance
  <1>. QED BY <1>2, <1>3

LEMMA OneWriteProvenance ==
  ASSUME IInv, ProvenanceInv, NEW r \in Runs, NEW n \in Nodes, NEW record \in NodeRecord,
         OneWrite(r, n, record)
  PROVE  ProvenanceInv'
  <1>1. /\ nodes'[r][n] = record
        /\ \A s \in Runs, m \in Nodes : <<s, m>> # <<r, n>> => nodes'[s][m] = nodes[s][m]
    BY WriteNodeEffect DEF IInv, TypeOK, RecordsType, OneWrite
  <1>2. /\ started \subseteq started' /\ nodes[r][n].status \notin Success
        /\ Sourced(r, n, record)
    BY DEF OneWrite
  <1>3. \A s \in Runs, m \in Nodes : nodes[s][m].status = "SUCCEEDED" => nodes'[s][m] = nodes[s][m]
    BY <1>1, <1>2 DEF Success
  <1>4. ASSUME NEW s \in Runs, NEW m \in Nodes, <<s, m>> # <<r, n>> PROVE Provenance(s, m)'
    BY <1>1, <1>2, <1>3, <1>4, ProvenanceKept
  <1>5. Provenance(r, n) BY DEF ProvenanceInv
  <1>6. ASSUME record.status = "SKIPPED_ALREADY_SATISFIED" PROVE Provenance(r, n)'
    <2> DEFINE p == runs[r].parent
               from == record.reusedFrom
    <2>1. /\ p # 0 /\ nodes[p][n].status \in Success
          /\ record.outputs = nodes[p][n].outputs
          /\ from = IF nodes[p][n].reusedFrom # 0 THEN nodes[p][n].reusedFrom ELSE p
      BY <1>2, <1>6 DEF Sourced
    <2>2. p = r - 1 /\ p \in Runs
      BY <2>1, BoundAssumption DEF OneWrite, IInv, ParentIsPreviousRun, Runs
    <2>3. Provenance(p, n) BY <2>2 DEF ProvenanceInv
    <2>4. /\ from \in 1..(r - 1) /\ nodes[from][n].status = "SUCCEEDED"
          /\ nodes[from][n].outputs = record.outputs
      <3>1. CASE nodes[p][n].status = "SUCCEEDED"
        BY <2>1, <2>2, <2>3, <3>1 DEF Provenance, Runs
      <3>2. CASE nodes[p][n].status = "SKIPPED_ALREADY_SATISFIED"
        BY <2>1, <2>2, <2>3, <3>2 DEF Provenance, Runs
      <3>. QED BY <2>1, <3>1, <3>2 DEF Success
    <2>5. from \in Runs BY <2>4, BoundAssumption DEF Runs
    <2>6. nodes'[from][n] = nodes[from][n] BY <1>3, <2>4, <2>5
    <2>. QED BY <1>1, <1>6, <2>4, <2>6 DEF Provenance
  <1>7. ASSUME record.status # "SKIPPED_ALREADY_SATISFIED" PROVE Provenance(r, n)'
    <2>1. record.reusedFrom = 0
      BY <1>2, <1>5, <1>7 DEF Sourced, Provenance, Success
    <2>2. CASE record.status = "SUCCEEDED"
      <3>1. /\ nodes[r][n].status = "RUNNING" /\ record.outputs = <<r, record.attempt>>
            /\ record.attempt = nodes[r][n].attempt
        BY <1>2, <2>2 DEF Sourced, OneWrite
      <3>2. [run |-> r, node |-> n, attempt |-> record.attempt] \in started'
        BY <1>2, <1>5, <3>1 DEF Provenance
      <3>. QED BY <1>1, <2>1, <2>2, <3>1, <3>2 DEF Provenance
    <2>3. CASE record.status = "RUNNING"
      <3>1. [run |-> r, node |-> n, attempt |-> record.attempt] \in started'
        BY <2>3 DEF OneWrite
      <3>. QED BY <1>1, <2>1, <2>3, <3>1 DEF Provenance
    <2>4. CASE record.status \notin {"RUNNING", "SUCCEEDED"}
      BY <1>1, <1>7, <2>1, <2>4 DEF Provenance
    <2>. QED BY <2>2, <2>3, <2>4
  <1>. QED BY <1>4, <1>6, <1>7 DEF ProvenanceInv

LEMMA ProvenanceStep ==
  ASSUME IInv, ProvenanceInv, Next
  PROVE  ProvenanceInv'
  <1>1. CASE \E r \in Runs, n \in Nodes, record \in NodeRecord : OneWrite(r, n, record)
    BY <1>1, OneWriteProvenance
  <1>2. ASSUME NEW mode \in Modes, NEW parent \in 0..MaxRuns, BeginRun(mode, parent)
        PROVE  ProvenanceInv'
    <2> DEFINE q == latest + 1
    <2>1. /\ q \in Runs /\ q > latest /\ started' = started
          /\ nodes'[q] = [n \in Nodes |-> PendingNode]
          /\ \A s \in Runs : s # q => nodes'[s] = nodes[s]
      BY <1>2, BoundAssumption DEF BeginRun, IInv, TypeOK, Runs
    <2>2. \A n \in Nodes : nodes[q][n] = PendingNode BY <2>1 DEF IInv, NoneAhead
    <2>3. \A s \in Runs, n \in Nodes : nodes'[s][n] = nodes[s][n] BY <2>1, <2>2
    <2>. QED BY <2>1, <2>3, ProvenanceKept DEF ProvenanceInv
  <1>3. ASSUME NEW r \in Runs, Summarise(r) \/ FinishRun(r) PROVE ProvenanceInv'
    <2>1. UNCHANGED <<nodes, started>> BY <1>3 DEF Summarise, FinishRun
    <2>. QED BY <2>1, ProvenanceKept DEF ProvenanceInv
  <1>4. ASSUME NEW r \in Runs, Reconcile(r) PROVE ProvenanceInv'
    <2>1. /\ \A n \in Nodes : nodes'[r][n] = Reconciled(nodes[r][n])
          /\ \A s \in Runs : s # r => nodes'[s] = nodes[s]
          /\ started' = started
      BY <1>4 DEF Reconcile, IInv, TypeOK
    <2>2. \A n \in Nodes : nodes[r][n] \in NodeRecord BY DEF IInv, TypeOK
    <2>3. \A s \in Runs, n \in Nodes :
              nodes[s][n].status \in Success => nodes'[s][n] = nodes[s][n]
      BY <2>1, <2>2, ReconciledType DEF IInv, UncertainHoldsRunOpen, Success, Terminal
    <2>4. ASSUME NEW s \in Runs, NEW n \in Nodes PROVE Provenance(s, n)'
      <3>1. CASE nodes'[s][n] = nodes[s][n]
        BY <2>1, <2>3, <3>1, ProvenanceKept DEF Success
      <3>2. CASE nodes'[s][n] # nodes[s][n]
        <4>1. s = r /\ nodes'[s][n] = Reconciled(nodes[s][n]) BY <2>1, <3>2
        <4>2. /\ nodes'[s][n].status = "CANCELLED"
              /\ nodes'[s][n].reusedFrom = nodes[s][n].reusedFrom
          BY <2>2, <3>2, <4>1, ProvenanceFields
        <4>3. nodes[s][n].status # "SKIPPED_ALREADY_SATISFIED" BY <2>3, <3>2 DEF Success
        <4>4. nodes[s][n].reusedFrom = 0 BY <4>3 DEF ProvenanceInv, Provenance
        <4>. QED BY <4>2, <4>4 DEF Provenance
      <3>. QED BY <3>1, <3>2
    <2>. QED BY <2>4 DEF ProvenanceInv
  <1>5. ASSUME NEW c \in Contexts, NEW op \in Operations, NEW digest \in Digests,
               PutOutbox(c, op, digest)
        PROVE  ProvenanceInv'
    <2>1. UNCHANGED <<nodes, started>> BY <1>5 DEF PutOutbox
    <2>. QED BY <2>1, ProvenanceKept DEF ProvenanceInv
  <1>6. TypeOK /\ UncertainHoldsRunOpen BY DEF IInv
  <1>. QED BY <1>1, <1>2, <1>3, <1>4, <1>5, <1>6, NodeSteps, Zenon

(* Every success on record was claimed by a child and carries that         *)
(* attempt's outputs, and every reuse names, over any number of            *)
(* recoveries, the run whose success it repeats                            *)
(* (ControlStore.finish_attempt, ControlStore.skip).                       *)
THEOREM OutputsHaveProvenanceHolds == Spec => []OutputsHaveProvenance
  <1>1. ProvenanceInv => OutputsHaveProvenance
    BY DEF ProvenanceInv, Provenance, OutputsHaveProvenance
  <1>2. Init => ProvenanceInv
    BY DEF Init, ProvenanceInv, Provenance, PendingNode
  <1>3. IInv /\ ProvenanceInv /\ [Next]_vars => ProvenanceInv'
    <2>1. ASSUME ProvenanceInv, UNCHANGED vars PROVE ProvenanceInv'
      BY <2>1 DEF vars, ProvenanceInv, Provenance
    <2>. QED BY <2>1, ProvenanceStep
  <1>. QED BY <1>1, <1>2, <1>3, Invariant, PTL DEF Spec
-----------------------------------------------------------------------------
(* The store keeps the promises of BusinessKey. *)

LEMMA InitRefines == Init => Key!Init
  <1>. SUFFICES ASSUME Init PROVE Key!Init OBVIOUS
  <1>1. Recorded = {}
    BY DEF Init, Recorded, PendingNode, Success
  <1>2. [e \in Effects |-> outbox[e].digest] = [e \in Effects |-> NoDigest]
    BY DEF Init, NoEffect
  <1>. QED BY <1>1, <1>2 DEF Init, Key!Init

(* A write to a node records a success of the latest run, or nothing.      *)
LEMMA OneWriteRefines ==
  ASSUME IInv, NEW r \in Runs, NEW n \in Nodes, NEW record \in NodeRecord,
         OneWrite(r, n, record)
  PROVE  [Key!Next]_(Key!vars)
  <1>1. /\ nodes'[r][n] = record
        /\ \A s \in Runs, m \in Nodes : <<s, m>> # <<r, n>> => nodes'[s][m] = nodes[s][m]
    BY WriteNodeEffect DEF IInv, TypeOK, RecordsType, OneWrite
  <1>2. /\ runs[r].status = "RUNNING" /\ nodes[r][n].status \notin Success
        /\ UNCHANGED <<latest, runs, outbox>>
    BY DEF OneWrite
  <1>3. r = latest /\ latest # 0
    BY <1>2 DEF IInv, OneOpenRun, Open, Runs
  <1>4. UNCHANGED [e \in Effects |-> outbox[e].digest] BY <1>2
  <1>5. CASE record.status \in Success
    <2>1. <<latest, n>> \notin Recorded BY <1>2, <1>3 DEF Recorded
    <2>2. Recorded' = Recorded \cup {<<latest, n>>}
      <3>1. ASSUME NEW p \in Runs \X Nodes
            PROVE  p \in Recorded' <=> p \in Recorded \cup {<<latest, n>>}
        BY <1>1, <1>3, <1>5 DEF Recorded
      <3>2. Recorded' \subseteq Runs \X Nodes /\ Recorded \subseteq Runs \X Nodes
        BY DEF Recorded
      <3>. QED BY <1>3, <3>1, <3>2
    <2>3. Key!Record(n)
      BY <1>2, <1>3, <1>4, <2>1, <2>2 DEF Key!Record, PhaseOf
    <2>. QED BY <2>3 DEF Key!Next
  <1>6. CASE record.status \notin Success
    <2>1. Recorded' = Recorded
      <3>1. ASSUME NEW p \in Runs \X Nodes PROVE p \in Recorded' <=> p \in Recorded
        BY <1>1, <1>2, <1>6 DEF Recorded
      <3>. QED BY <3>1 DEF Recorded
    <2>. QED BY <1>2, <1>4, <2>1 DEF Key!vars
  <1>. QED BY <1>5, <1>6

(* begin_run opens the next generation, in which nothing is recorded yet,  *)
LEMMA BeginRefines ==
  ASSUME IInv, NEW mode \in Modes, NEW parent \in 0..MaxRuns, BeginRun(mode, parent)
  PROVE  Key!Open
  <1>1. /\ latest \in Nat /\ latest + 1 \in Runs /\ latest < MaxRuns
        /\ latest' = latest + 1 /\ UNCHANGED outbox
    BY BoundAssumption DEF BeginRun, IInv, TypeOK, Runs
  <1>2. latest # 0 => latest \in Runs /\ runs[latest].status \notin Open
    BY <1>1, BoundAssumption DEF BeginRun, AcceptsRun, Runs
  <1>3. runs'[latest + 1].status = "RUNNING"
    BY <1>1 DEF BeginRun, IInv, TypeOK
  <1>4. Recorded' = Recorded
    <2>1. \A n \in Nodes : nodes[latest + 1][n] = PendingNode
      BY <1>1 DEF IInv, NoneAhead
    <2>2. \A s \in Runs, n \in Nodes : nodes'[s][n] = nodes[s][n]
      BY <2>1 DEF BeginRun, IInv, TypeOK
    <2>. QED BY <2>2 DEF Recorded
  <1>5. (IF latest = 0 THEN "idle" ELSE PhaseOf(runs[latest].status)) = "idle"
    BY <1>2 DEF PhaseOf, Open
  <1>6. (IF latest = 0 THEN "idle" ELSE PhaseOf(runs[latest].status))' = "open"
    BY <1>1, <1>3 DEF PhaseOf
  <1>. QED BY <1>1, <1>4, <1>5, <1>6 DEF Key!Open

(* put_outbox emits an effect, or refreshes the reference of one whose     *)
(* content it repeats,                                                     *)
LEMMA PutRefines ==
  ASSUME IInv, NEW c \in Contexts, NEW op \in Operations, NEW digest \in Digests,
         PutOutbox(c, op, digest)
  PROVE  [Key!Next]_(Key!vars)
  <1> DEFINE effect == <<c.node, op>>
             digests == [e \in Effects |-> outbox[e].digest]
  <1>1. c.run \in Runs /\ effect \in Effects BY DEF Contexts, Effects
  <1>2. /\ runs[c.run].status = "RUNNING" /\ outbox[effect].digest \in {NoDigest, digest}
        /\ UNCHANGED <<latest, runs, nodes>>
    BY DEF PutOutbox
  <1>3. c.run = latest /\ latest # 0
    BY <1>1, <1>2 DEF IInv, OneOpenRun, Open, Runs
  <1>4. digests' = [digests EXCEPT ![effect] = digest]
    <2>1. outbox' = [outbox EXCEPT ![effect] =
                       [digest |-> digest, reference |-> <<c.run, c.attempt>>]]
      BY DEF PutOutbox
    <2>2. \A e \in Effects : outbox'[e].digest = IF e = effect THEN digest
                                                 ELSE outbox[e].digest
      BY <1>1, <2>1 DEF IInv, TypeOK
    <2>. QED BY <1>1, <2>2
  <1>5. Recorded' = Recorded BY <1>2 DEF Recorded
  <1>6. CASE outbox[effect].digest = NoDigest
    <2>1. Key!Emit(effect, digest)
      BY <1>1, <1>2, <1>3, <1>4, <1>5, <1>6 DEF Key!Emit, PhaseOf
    <2>. QED BY <1>1, <2>1 DEF Key!Next
  <1>7. CASE outbox[effect].digest = digest
    <2>1. digests' = digests BY <1>1, <1>4, <1>7
    <2>. QED BY <1>2, <1>5, <2>1 DEF Key!vars
  <1>. QED BY <1>2, <1>6, <1>7

(* and finish_run and reconcile end the generation or release it: neither  *)
(* adds or removes a success.                                              *)
LEMMA RunRefines ==
  ASSUME IInv, NEW r \in Runs, Summarise(r) \/ FinishRun(r) \/ Reconcile(r)
  PROVE  [Key!Next]_(Key!vars)
  <1>1. UNCHANGED <<latest, outbox>> BY DEF Summarise, FinishRun, Reconcile
  <1>2. CASE Summarise(r)
    <2>1. UNCHANGED <<runs, nodes>> BY <1>2 DEF Summarise
    <2>. QED BY <1>1, <2>1 DEF Key!vars, Recorded
  <1>3. CASE FinishRun(r)
    <2>1. /\ runs[r].status = "RUNNING" /\ UNCHANGED nodes
          /\ runs'[r].status \in {"SUCCEEDED", "FAILED", "RECOVERY_REQUIRED"}
      BY <1>3 DEF FinishRun, IInv, TypeOK, Undecided
    <2>2. r = latest /\ latest # 0 BY <2>1 DEF IInv, OneOpenRun, Open, Runs
    <2>3. Key!End BY <1>1, <2>1, <2>2 DEF Key!End, PhaseOf, Recorded
    <2>. QED BY <2>3 DEF Key!Next
  <1>4. CASE Reconcile(r)
    <2>1. /\ runs[r].status \in Open /\ runs'[r].status = "FAILED"
          /\ \A n \in Nodes : nodes'[r][n] = Reconciled(nodes[r][n])
          /\ \A s \in Runs : s # r => nodes'[s] = nodes[s]
      BY <1>4 DEF Reconcile, IInv, TypeOK
    <2>2. r = latest /\ latest # 0 BY <2>1 DEF IInv, OneOpenRun, Runs
    <2>3. \A s \in Runs, n \in Nodes :
              nodes'[s][n].status \in Success <=> nodes[s][n].status \in Success
      <3>. SUFFICES ASSUME NEW n \in Nodes
                    PROVE  nodes'[r][n].status \in Success <=> nodes[r][n].status \in Success
        BY <2>1
      <3>1. nodes[r][n] \in NodeRecord BY DEF IInv, TypeOK
      <3>2. nodes[r][n].uncertain => nodes[r][n].status \in {"FAILED", "TIMED_OUT"}
        BY DEF IInv, UncertainHoldsRunOpen
      <3>. QED BY <2>1, <3>1, <3>2 DEF Reconciled, Success, Terminal, Bad, NodeRecord
    <2>4. Recorded' = Recorded BY <2>3 DEF Recorded
    <2>5. CASE runs[r].status = "RUNNING"
      <3>1. Key!End BY <1>1, <2>1, <2>2, <2>4, <2>5 DEF Key!End, PhaseOf
      <3>. QED BY <3>1 DEF Key!Next
    <2>6. CASE runs[r].status = "RECOVERY_REQUIRED"
      <3>1. Key!Release BY <1>1, <2>1, <2>2, <2>4, <2>6 DEF Key!Release, PhaseOf
      <3>. QED BY <3>1 DEF Key!Next
    <2>. QED BY <2>1, <2>5, <2>6 DEF Open
  <1>. QED BY <1>2, <1>3, <1>4

LEMMA KeyStep ==
  ASSUME IInv, [Next]_vars
  PROVE  [Key!Next]_(Key!vars)
  <1>1. ASSUME NEW mode \in Modes, NEW parent \in 0..MaxRuns, BeginRun(mode, parent)
        PROVE  [Key!Next]_(Key!vars)
    <2>1. Key!Open BY <1>1, BeginRefines
    <2>. QED BY <2>1 DEF Key!Next
  <1>2. CASE UNCHANGED vars BY <1>2 DEF vars, Key!vars, Recorded
  <1>3. CASE Next
    <2>1. TypeOK /\ UncertainHoldsRunOpen BY DEF IInv
    <2>. QED BY <1>1, <1>3, <2>1, NodeSteps, OneWriteRefines, PutRefines, RunRefines
  <1>. QED BY <1>2, <1>3

(* The generations of a business key never overlap, a node's success is    *)
(* written once, in the open generation, and an outbox effect keeps the    *)
(* content it was first emitted with (ControlStore).                       *)
THEOREM StoreKeepsBusinessKey == Spec => ImplementsBusinessKey
  <1>. QED BY InitRefines, KeyStep, Invariant, PTL DEF Spec, ImplementsBusinessKey, Key!Spec
=============================================================================
