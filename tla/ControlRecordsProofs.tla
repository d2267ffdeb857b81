------------------------ MODULE ControlRecordsProofs ------------------------
(***************************************************************************)
(* What the record operations of ControlRecords make of a record: its type *)
(* and the fields the invariants of the modules that use them speak of.    *)
(***************************************************************************)
EXTENDS ControlRecords, TLAPS

(* What a child or an executor reports. *)
Outcomes == {"SUCCEEDED", "FAILED", "TIMED_OUT"}

LEMMA PendingNodeType == PendingNode \in NodeRecord
  BY SMT DEF PendingNode, NodeRecord, Status, Terminal, Success, Bad, NoOutput

LEMMA FieldUpdate ==
  ASSUME NEW n \in NodeRecord
  PROVE  /\ \A s \in Status : [n EXCEPT !.status = s] \in NodeRecord
         /\ \A a \in Nat : [n EXCEPT !.attempt = a] \in NodeRecord
         /\ \A b \in BOOLEAN : [n EXCEPT !.retryable = b] \in NodeRecord
         /\ \A b \in BOOLEAN : [n EXCEPT !.uncertain = b] \in NodeRecord
         /\ \A o \in Nat \X Nat : [n EXCEPT !.outputs = o] \in NodeRecord
         /\ \A f \in Nat : [n EXCEPT !.reusedFrom = f] \in NodeRecord
  <1>1. \A s \in Status : [n EXCEPT !.status = s] \in NodeRecord
    BY SMT DEF NodeRecord
  <1>2. \A a \in Nat : [n EXCEPT !.attempt = a] \in NodeRecord
    BY SMT DEF NodeRecord
  <1>3. \A b \in BOOLEAN : [n EXCEPT !.retryable = b] \in NodeRecord
    BY SMT DEF NodeRecord
  <1>4. \A b \in BOOLEAN : [n EXCEPT !.uncertain = b] \in NodeRecord
    BY SMT DEF NodeRecord
  <1>5. \A o \in Nat \X Nat : [n EXCEPT !.outputs = o] \in NodeRecord
    BY SMT DEF NodeRecord
  <1>6. \A f \in Nat : [n EXCEPT !.reusedFrom = f] \in NodeRecord
    BY SMT DEF NodeRecord
  <1>. QED BY <1>1, <1>2, <1>3, <1>4, <1>5, <1>6

LEMMA PreparedType ==
  ASSUME NEW n \in NodeRecord
  PROVE  /\ Prepared(n) \in NodeRecord
         /\ Prepared(n).uncertain = n.uncertain
         /\ Prepared(n).attempt = n.attempt + 1
         /\ Prepared(n).status = "READY"
  <1>. DEFINE m1 == [n EXCEPT !.status = "READY"]
              m2 == [m1 EXCEPT !.attempt = n.attempt + 1]
              m3 == [m2 EXCEPT !.retryable = FALSE]
              m4 == [m3 EXCEPT !.outputs = NoOutput]
  <1>1. n.attempt + 1 \in Nat /\ "READY" \in Status /\ NoOutput \in Nat \X Nat
    BY SMT DEF NodeRecord, Status, NoOutput
  <1>2. m1 \in NodeRecord BY <1>1, FieldUpdate, Zenon
  <1>3. m2 \in NodeRecord BY <1>1, <1>2, FieldUpdate, Zenon
  <1>4. m3 \in NodeRecord BY <1>3, FieldUpdate, Zenon
  <1>5. m4 \in NodeRecord BY <1>1, <1>4, FieldUpdate, Zenon
  <1>6. Prepared(n) = m4 BY Zenon DEF Prepared
  <1>7. m4.uncertain = n.uncertain /\ m4.attempt = n.attempt + 1 /\ m4.status = "READY"
    BY SMT DEF NodeRecord
  <1>. QED BY <1>5, <1>6, <1>7, Zenon

LEMMA ClaimedType ==
  ASSUME NEW n \in NodeRecord
  PROVE  /\ Claimed(n) \in NodeRecord
         /\ Claimed(n).uncertain = n.uncertain
         /\ Claimed(n).attempt = n.attempt
         /\ Claimed(n).status = "RUNNING"
  BY SMT DEF Claimed, NodeRecord, Status

LEMMA SkippedType ==
  ASSUME NEW n \in NodeRecord, NEW status \in Terminal
  PROVE  /\ Skipped(n, status) \in NodeRecord
         /\ Skipped(n, status).uncertain = n.uncertain
         /\ Skipped(n, status).attempt = n.attempt
         /\ Skipped(n, status).status = status
  BY SMT DEF Skipped, NodeRecord, Status

LEMMA ReusedType ==
  ASSUME NEW n \in NodeRecord, NEW r \in Nat,
         NEW p, p.outputs \in Nat \X Nat, p.reusedFrom \in Nat
  PROVE  /\ Reused(n, p, r) \in NodeRecord
         /\ Reused(n, p, r).uncertain = n.uncertain
         /\ Reused(n, p, r).attempt = n.attempt
         /\ Reused(n, p, r).status = "SKIPPED_ALREADY_SATISFIED"
  <1>. DEFINE f == IF p.reusedFrom # 0 THEN p.reusedFrom ELSE r
              m1 == [n EXCEPT !.status = "SKIPPED_ALREADY_SATISFIED"]
              m2 == [m1 EXCEPT !.outputs = p.outputs]
              m3 == [m2 EXCEPT !.reusedFrom = f]
  <1>1. f \in Nat /\ "SKIPPED_ALREADY_SATISFIED" \in Status
    BY SMT DEF Status, Terminal, Success
  <1>2. Reused(n, p, r) = m3 BY Zenon DEF Reused
  <1>. HIDE DEF f
  <1>3. m1 \in NodeRecord BY <1>1, FieldUpdate, Zenon
  <1>4. m2 \in NodeRecord BY <1>1, <1>3, FieldUpdate, Zenon
  <1>5. m3 \in NodeRecord BY <1>1, <1>4, FieldUpdate, Zenon
  <1>6. /\ m3.uncertain = n.uncertain /\ m3.attempt = n.attempt
        /\ m3.status = "SKIPPED_ALREADY_SATISFIED"
    BY SMT DEF NodeRecord
  <1>. QED BY <1>2, <1>5, <1>6, Zenon

LEMMA ReconciledType ==
  ASSUME NEW n \in NodeRecord
  PROVE  /\ Reconciled(n) \in NodeRecord
         /\ Reconciled(n).status \in Terminal
         /\ ~Reconciled(n).uncertain
         /\ Reconciled(n).attempt = n.attempt
         /\ n.status \in Terminal /\ ~n.uncertain => Reconciled(n) = n
  <1>. DEFINE m1 == [n EXCEPT !.status = "CANCELLED"]
              m2 == [m1 EXCEPT !.uncertain = FALSE]
              m3 == [m2 EXCEPT !.retryable = FALSE]
  <1>1. "CANCELLED" \in Status /\ "CANCELLED" \in Terminal
    BY DEF Status, Terminal, Bad
  <1>2. m1 \in NodeRecord BY <1>1, FieldUpdate, Zenon
  <1>3. m2 \in NodeRecord BY <1>2, FieldUpdate, Zenon
  <1>4. m3 \in NodeRecord BY <1>3, FieldUpdate, Zenon
  <1>5. m3.status = "CANCELLED" /\ m3.uncertain = FALSE /\ m3.attempt = n.attempt
    BY SMT DEF NodeRecord
  <1>6. Reconciled(n) = IF n.status \notin Terminal \/ n.uncertain THEN m3 ELSE n
    BY Zenon DEF Reconciled
  <1>. HIDE DEF m3
  <1>. QED BY <1>1, <1>4, <1>5, <1>6, Zenon

LEMMA FinishedType ==
  ASSUME NEW n \in NodeRecord, NEW status \in Outcomes, NEW retryable \in BOOLEAN,
         NEW uncertain \in BOOLEAN, NEW output \in Nat \X Nat, NEW late \in BOOLEAN
  PROVE  LET record == Finished(n, status, retryable, uncertain, output, late)
         IN  /\ record \in NodeRecord
             /\ record.uncertain = uncertain
             /\ record.attempt = n.attempt
             /\ record.status \in Outcomes
             /\ status # "SUCCEEDED" => record.status = status
             /\ status = "SUCCEEDED" => record.status \in {"SUCCEEDED", "TIMED_OUT"}
  <1>. DEFINE s == IF status = "SUCCEEDED" /\ late THEN "TIMED_OUT" ELSE status
              b == retryable \/ (status = "SUCCEEDED" /\ late)
              o == IF status = "SUCCEEDED" /\ ~late THEN output ELSE NoOutput
              m1 == [n EXCEPT !.status = s]
              m2 == [m1 EXCEPT !.retryable = b]
              m3 == [m2 EXCEPT !.uncertain = uncertain]
              m4 == [m3 EXCEPT !.outputs = o]
  <1>1. /\ s \in Outcomes
        /\ status # "SUCCEEDED" => s = status
        /\ status = "SUCCEEDED" => s \in {"SUCCEEDED", "TIMED_OUT"}
    BY SMT DEF Outcomes
  <1>2. s \in Status BY <1>1 DEF Outcomes, Status, Terminal, Success, Bad
  <1>3. b \in BOOLEAN BY Zenon
  <1>4. o \in Nat \X Nat BY SMT DEF NoOutput
  <1>5. Finished(n, status, retryable, uncertain, output, late) = m4 BY Zenon DEF Finished
  <1>. HIDE DEF s, b, o
  <1>6. m1 \in NodeRecord BY <1>2, FieldUpdate, Zenon
  <1>7. m2 \in NodeRecord BY <1>3, <1>6, FieldUpdate, Zenon
  <1>8. m3 \in NodeRecord BY <1>7, FieldUpdate, Zenon
  <1>9. m4 \in NodeRecord BY <1>4, <1>8, FieldUpdate, Zenon
  <1>10. m4.status = s /\ m4.uncertain = uncertain /\ m4.attempt = n.attempt
    BY SMT DEF NodeRecord
  <1>. QED BY <1>1, <1>5, <1>9, <1>10, Zenon
(* What the operations make of the fields that say where outputs come from.*)
LEMMA ProvenanceFields ==
  ASSUME NEW n \in NodeRecord
  PROVE  /\ Prepared(n).reusedFrom = n.reusedFrom
         /\ Claimed(n).reusedFrom = n.reusedFrom
         /\ \A status : Skipped(n, status).reusedFrom = n.reusedFrom
         /\ Reconciled(n).status = "CANCELLED" \/ Reconciled(n) = n
         /\ Reconciled(n).reusedFrom = n.reusedFrom
  <1>1. /\ Prepared(n).reusedFrom = n.reusedFrom
        /\ Claimed(n).reusedFrom = n.reusedFrom
        /\ \A status : Skipped(n, status).reusedFrom = n.reusedFrom
    BY SMT DEF NodeRecord, Prepared, Claimed, Skipped
  <1>2. /\ Reconciled(n).status = "CANCELLED" \/ Reconciled(n) = n
        /\ Reconciled(n).reusedFrom = n.reusedFrom
    BY SMT DEF NodeRecord, Reconciled
  <1>. QED BY <1>1, <1>2

LEMMA ReusedProvenance ==
  ASSUME NEW n \in NodeRecord, NEW p, NEW r
  PROVE  /\ Reused(n, p, r).outputs = p.outputs
         /\ Reused(n, p, r).reusedFrom = IF p.reusedFrom # 0 THEN p.reusedFrom ELSE r
  BY SMT DEF NodeRecord, Reused

LEMMA FinishedProvenance ==
  ASSUME NEW n \in NodeRecord, NEW status, NEW retryable, NEW uncertain, NEW output, NEW late
  PROVE  LET record == Finished(n, status, retryable, uncertain, output, late)
         IN  /\ record.reusedFrom = n.reusedFrom
             /\ record.status = "SUCCEEDED" => status = "SUCCEEDED" /\ record.outputs = output
  BY SMT DEF NodeRecord, Finished
=============================================================================
