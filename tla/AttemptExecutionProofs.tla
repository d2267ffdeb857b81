----------------------- MODULE AttemptExecutionProofs -----------------------
(***************************************************************************)
(* Theorems about AttemptExecution, for any platforms, retries and         *)
(* versions of the source.                                                 *)
(*                                                                         *)
(* The argument.  Only the current attempt can be live: a new one is       *)
(* prepared when the record of the last is certain, and a certain record   *)
(* is written by its child, or by an executor that has seen the job end.   *)
(* The same facts show that Scheduler's view of the attempts is right:     *)
(* what is launched there has been requested and not claimed here.         *)
(***************************************************************************)
EXTENDS AttemptExecution, TLAPS

(* Attempt a may still act on the world. *)
Live(a) == job[a] = "sent" \/ (Alive(a) /\ child[a] \in Working)

StoreOK ==
    /\ record.status \in {"READY", "RUNNING", "SUCCEEDED", "FAILED", "TIMED_OUT"}
    /\ record.uncertain => record.status \in {"FAILED", "TIMED_OUT"}

JobsOK ==
    \A a \in Attempts :
        /\ job[a] \in {"none", "sent"} => child[a] = "none"
        /\ job[a] = "ended" => child[a] = "over"
        /\ a > record.attempt => job[a] = "none"
        /\ a < record.attempt => ~Live(a)

SettledOK ==
    /\ record.status \in Terminal => record.uncertain \/ ~Live(record.attempt)
    /\ exec \in {"concluding", "settling"} => finding.uncertain \/ ~Live(record.attempt)
    /\ exec \in {"done", "repeating"} => record.status \in Terminal
    /\ exec = "idle" =>
           \/ record.status \in Terminal
           \/ record.status = "READY" /\ job[record.attempt] = "none"
    /\ exec = "starting" => record.status = "READY" /\ job[record.attempt] = "none"

(* What the child of the current attempt has of its input. *)
InputOK ==
    /\ planned <= source
    /\ child[record.attempt] \in {"read", "written", "verified"} =>
           planned <= read[record.attempt] /\ read[record.attempt] <= source
    /\ child[record.attempt] \in {"written", "verified"} =>
           artifact[record.attempt] = read[record.attempt]
    /\ child[record.attempt] = "verified" => artifact[record.attempt] = planned

IInv ==
    /\ TypeOK /\ StoreOK /\ JobsOK /\ SettledOK /\ InputOK
    /\ RemoteRunIsAttempts /\ SuccessIsBacked

-----------------------------------------------------------------------------
LEMMA Numbers ==
    /\ Attempts \subseteq Nat \ {0} /\ 1 \in Attempts
    /\ Versions \subseteq Nat \ {0} /\ 1 \in Versions
    /\ MaxRetries \in Nat /\ MaxVersion \in Nat
    /\ \A a \in Attempts : a <= MaxRetries => a + 1 \in Attempts
    /\ \A v \in Versions : v < MaxVersion => v + 1 \in Versions
  BY BoundAssumption DEF Attempts, Versions

LEMMA Typed ==
    ASSUME IInv
    PROVE  /\ record.attempt \in Attempts /\ record.attempt \in Nat
           /\ planned \in Nat /\ source \in Nat /\ read[record.attempt] \in Nat
  <1>1. /\ record.attempt \in Attempts /\ planned \in Versions /\ source \in Versions
        /\ read[record.attempt] \in Versions \cup {0}
    BY DEF IInv, TypeOK
  <1>2. Attempts \subseteq Nat /\ Versions \cup {0} \subseteq Nat BY Numbers
  <1>. QED BY <1>1, <1>2

LEMMA PreparedIs ==
    ASSUME NEW n \in NodeRecord
    PROVE  /\ Prepared(n) \in NodeRecord
           /\ Prepared(n).status = "READY" /\ Prepared(n).attempt = n.attempt + 1
           /\ Prepared(n).uncertain = n.uncertain
  <1>1. n.attempt \in Nat /\ n.attempt + 1 \in Nat BY DEF NodeRecord
  <1>2. NoOutput \in Nat \X Nat BY DEF NoOutput
  <1>3. "READY" \in Status BY DEF Status
  <1>4. Prepared(n) \in NodeRecord BY <1>1, <1>2, <1>3 DEF Prepared, NodeRecord
  <1>. QED BY <1>4 DEF Prepared, NodeRecord

LEMMA ClaimedIs ==
    ASSUME NEW n \in NodeRecord
    PROVE  /\ Claimed(n) \in NodeRecord
           /\ Claimed(n).status = "RUNNING" /\ Claimed(n).attempt = n.attempt
           /\ Claimed(n).uncertain = n.uncertain
  BY DEF Claimed, NodeRecord, Status

LEMMA Findings ==
    ASSUME NEW status \in {"FAILED", "TIMED_OUT"}, NEW retryable \in BOOLEAN
    PROVE  Found(status, retryable) \in Finding /\ Unknown(status) \in Finding
  BY DEF Found, Unknown, Finding

LEMMA InitInvariant == Init => IInv
  <1>. SUFFICES ASSUME Init PROVE IInv OBVIOUS
  <1>1. PendingNode \in NodeRecord /\ PendingNode.attempt = 0 /\ PendingNode.uncertain = FALSE
    BY DEF PendingNode, NodeRecord, Status, NoOutput
  <1>2. /\ record \in NodeRecord /\ record.status = "READY" /\ record.attempt = 1
        /\ record.uncertain = FALSE
    BY <1>1, PreparedIs DEF Init
  <1>3. TypeOK
    BY <1>2, Numbers DEF Init, TypeOK, Found, Finding, ExecPhases
  <1>4. StoreOK BY <1>2 DEF StoreOK
  <1>5. JobsOK BY <1>2, Numbers DEF JobsOK, Init, Live, Alive
  <1>6. SettledOK BY <1>2, Numbers DEF SettledOK, Init, Terminal, Success, Bad
  <1>7. InputOK BY <1>2, Numbers DEF InputOK, Init
  <1>8. RemoteRunIsAttempts /\ SuccessIsBacked
    BY <1>2 DEF Init, RemoteRunIsAttempts, SuccessIsBacked
  <1>. QED BY <1>3, <1>4, <1>5, <1>6, <1>7, <1>8 DEF IInv

-----------------------------------------------------------------------------
(* The orchestrator and the executor's thread, where they leave the        *)
(* records and the platform alone.                                         *)
Still == UNCHANGED <<record, planned, source, job, workVars>>

LEMMA ThreadSteps ==
    ASSUME IInv, Still, platform' = platform, late' \in BOOLEAN,
           \/ Dispatch \/ Reap \/ Deadline \/ SpawnFails \/ ProcessEnded \/ MissingCluster
           \/ Submitted \/ RecordRemote \/ PollFindsEnd \/ EndConfirmed \/ GraceElapses
           \/ SubmissionRaises \/ FabricReturns
    PROVE  IInv'
  <1>1. \A a \in Attempts : Live(a)' <=> Live(a) BY DEF Still, workVars, Live, Alive
  <1>2. record.attempt \in Attempts BY DEF IInv, TypeOK
  <1>3. StoreOK' /\ InputOK' BY DEF IInv, Still, workVars, StoreOK, InputOK
  <1>4. JobsOK' BY <1>1 DEF IInv, Still, workVars, JobsOK
  <1>5. SuccessIsBacked' BY DEF IInv, Still, workVars, SuccessIsBacked
  <1>6. TypeOK' /\ RemoteRunIsAttempts' /\ SettledOK'
    <2>1. CASE Dispatch
      BY <1>1, <1>2, <2>1 DEF IInv, Still, workVars, TypeOK, RemoteRunIsAttempts, SettledOK,
         Dispatch, execVars, storeVars, ExecPhases, Terminal, Success, Bad
    <2>2. CASE Reap
      BY <1>1, <1>2, <2>2 DEF IInv, Still, workVars, TypeOK, RemoteRunIsAttempts, SettledOK, Reap,
         execVars, storeVars, ExecPhases
    <2>3. CASE Deadline
      BY <1>1, <1>2, <2>3 DEF IInv, Still, workVars, TypeOK, RemoteRunIsAttempts, SettledOK,
         Deadline, execVars, storeVars, ExecPhases
    <2>4. CASE SpawnFails
      BY <1>1, <1>2, <2>4 DEF IInv, Still, workVars, TypeOK, RemoteRunIsAttempts, SettledOK,
         SpawnFails, execVars, storeVars, ExecPhases
    <2>5. CASE ProcessEnded
      BY <1>1, <1>2, <2>5 DEF IInv, Still, workVars, TypeOK, RemoteRunIsAttempts, SettledOK,
         ProcessEnded, execVars, storeVars, ExecPhases, Concludes, Found, Finding, Live, Alive
    <2>6. CASE MissingCluster
      BY <1>1, <1>2, <2>6 DEF IInv, Still, workVars, TypeOK, RemoteRunIsAttempts, SettledOK,
         MissingCluster, execVars, storeVars, ExecPhases, Concludes, Found, Finding, Live, Alive
    <2>7. CASE Submitted
      BY <1>1, <1>2, <2>7 DEF IInv, Still, workVars, TypeOK, RemoteRunIsAttempts, SettledOK,
         Submitted, execVars, storeVars, ExecPhases, Token
    <2>8. CASE RecordRemote
      BY <1>1, <1>2, <2>8 DEF IInv, Still, workVars, TypeOK, RemoteRunIsAttempts, SettledOK,
         RecordRemote, execVars, storeVars, ExecPhases
    <2>9. CASE PollFindsEnd
      <3>1. watched = record.attempt /\ job[watched] = "ended"
        BY <2>9 DEF IInv, RemoteRunIsAttempts, PollFindsEnd, Stopped
      <3>2. ~Live(record.attempt) BY <3>1 DEF Live, Alive
      <3>3. exec' = "concluding" /\ finding' \in Finding
        BY <2>9, Findings DEF PollFindsEnd, Concludes
      <3>. QED
        BY <1>1, <1>2, <2>9, <3>2, <3>3 DEF IInv, Still, workVars, TypeOK, RemoteRunIsAttempts,
           SettledOK,
           PollFindsEnd, storeVars, ExecPhases, Concludes
    <2>10. CASE EndConfirmed
      BY <1>1, <1>2, <2>10 DEF IInv, Still, workVars, TypeOK, RemoteRunIsAttempts, SettledOK,
         EndConfirmed, execVars, storeVars, ExecPhases, Concludes, Found, Finding, Live, Alive,
         Stopped
    <2>11. CASE GraceElapses
      BY <1>1, <1>2, <2>11 DEF IInv, Still, workVars, TypeOK, RemoteRunIsAttempts, SettledOK,
         GraceElapses, execVars, storeVars, ExecPhases, Concludes, Unknown, Finding
    <2>12. CASE SubmissionRaises
      BY <1>1, <1>2, <2>12 DEF IInv, Still, workVars, TypeOK, RemoteRunIsAttempts, SettledOK,
         SubmissionRaises, execVars, storeVars, ExecPhases, Concludes, Unknown, Finding
    <2>13. CASE FabricReturns
      BY <1>1, <1>2, <2>13 DEF IInv, Still, workVars, TypeOK, RemoteRunIsAttempts, SettledOK,
         FabricReturns, execVars, storeVars, ExecPhases, Concludes, Unknown, Finding, FabricFinding
    <2>. QED BY <2>1, <2>2, <2>3, <2>4, <2>5, <2>6, <2>7, <2>8, <2>9, <2>10, <2>11, <2>12, <2>13
  <1>. QED BY <1>3, <1>4, <1>5, <1>6 DEF IInv

(* A call that raises may have cancelled the remote run before, which is   *)
(* alive until it has terminated.                                          *)
Winds(a) == job' = [job EXCEPT ![a] = "terminating"]

LEMMA WindingDown ==
    ASSUME IInv, NEW a \in Attempts, job[a] = "active", Winds(a)
    PROVE  /\ job' \in [Attempts -> {"none", "sent", "active", "terminating", "ended"}]
           /\ \A b \in Attempts : job'[b] = IF b = a THEN "terminating" ELSE job[b]
  BY DEF IInv, TypeOK, Winds

LEMMA CancelSteps ==
    ASSUME IInv, \/ Cancel \/ CallRaises \/ \E a \in Attempts : Terminates(a)
    PROVE  IInv'
  <1>. USE DEF workVars
  <1>1. UNCHANGED <<platform, record, planned, source, late, workVars>>
    BY DEF Cancel, CallRaises, Terminates, PlatformAlone, storeVars
  <1>2. \/ UNCHANGED job
        \/ \E a \in Attempts : job[a] = "active" /\ Winds(a)
    <2>1. CASE Cancel \/ CallRaises
      <3>1. exec \in {"recording", "polling", "confirming"} => watched \in Attempts
        BY DEF IInv, TypeOK, RemoteRunIsAttempts
      <3>2. /\ Cancel => exec = "polling"
            /\ CallRaises => exec \in {"recording", "polling", "confirming"}
        BY DEF Cancel, CallRaises
      <3>. QED BY <2>1, <3>1, <3>2 DEF Cancel, CallRaises, Cancels, Winds
    <2>2. CASE \E a \in Attempts : Terminates(a)
      BY <2>2 DEF Terminates, Winds
    <2>. QED BY <2>1, <2>2
  <1>3. /\ job' \in [Attempts -> {"none", "sent", "active", "terminating", "ended"}]
        /\ \A a \in Attempts :
               /\ \/ job'[a] = job[a]
                  \/ job[a] = "active" /\ job'[a] = "terminating"
               /\ Live(a)' <=> Live(a)
    <2>1. CASE UNCHANGED job BY <1>1, <2>1 DEF IInv, TypeOK, Live, Alive
    <2>2. CASE \E a \in Attempts : job[a] = "active" /\ Winds(a)
      BY <1>1, <2>2, WindingDown DEF Live, Alive
    <2>. QED BY <1>2, <2>1, <2>2
  <1>4. record.attempt \in Attempts BY DEF IInv, TypeOK
  <1>5. StoreOK' /\ InputOK' /\ SuccessIsBacked'
    BY <1>1 DEF IInv, StoreOK, InputOK, SuccessIsBacked
  <1>6. JobsOK'
    <2>. SUFFICES ASSUME NEW a \in Attempts
                  PROVE  /\ job'[a] \in {"none", "sent"} => child'[a] = "none"
                         /\ job'[a] = "ended" => child'[a] = "over"
                         /\ a > record'.attempt => job'[a] = "none"
                         /\ a < record'.attempt => ~Live(a)'
      BY DEF JobsOK
    <2>. QED BY <1>1, <1>3 DEF IInv, JobsOK
  <1>7. TypeOK' /\ RemoteRunIsAttempts' /\ SettledOK'
    <2>1. CASE Cancel
      BY <1>1, <1>3, <1>4, <2>1 DEF IInv, TypeOK, RemoteRunIsAttempts, SettledOK, Cancel, storeVars,
         ExecPhases
    <2>2. CASE CallRaises
      BY <1>1, <1>3, <1>4, <2>2 DEF IInv, TypeOK, RemoteRunIsAttempts, SettledOK, CallRaises,
         Concludes, Unknown, Finding, ExecPhases
    <2>3. CASE \E a \in Attempts : Terminates(a)
      BY <1>1, <1>3, <1>4, <2>3 DEF IInv, TypeOK, RemoteRunIsAttempts, SettledOK, Terminates,
         PlatformAlone, storeVars, execVars
    <2>. QED BY <2>1, <2>2, <2>3
  <1>. QED BY <1>5, <1>6, <1>7 DEF IInv

-----------------------------------------------------------------------------
(* The platform, where it starts or ends a run: of the current attempt     *)
(* only, or of one that nobody waits for.                                  *)
LEMMA JobSteps ==
    ASSUME IInv, NEW a \in Attempts,
           UNCHANGED <<record, planned, source, read, artifact, platform, remoteId>>,
           late' \in BOOLEAN, exec' \in ExecPhases, watched' \in Attempts \cup {0},
           finding' \in Finding,
           NEW now \in {"none", "sent", "active", "ended"}, job' = [job EXCEPT ![a] = now],
           NEW where \in {"none", "waiting", "over"}, child' = [child EXCEPT ![a] = where],
           now \in {"none", "sent"} => where = "none",
           now = "ended" => where = "over",
           now \in {"sent", "active"} =>
               Live(a) \/ (a = record.attempt /\ exec = "starting" /\ exec' # exec),
           now = "ended" => job[a] # "none" \/ (a = record.attempt /\ exec = "communicating"),
           exec' \in {"recording", "polling", "confirming"} => watched' = record.attempt,
           \/ exec' = exec /\ finding' = finding
           \/ /\ exec \in {"starting", "communicating"}
              /\ exec' \in {"communicating", "submitting", "running", "settling"}
              /\ exec' = "settling" => a = record.attempt /\ now = "ended"
    PROVE  IInv'
  <1>1. \A b \in Attempts : /\ job'[b] = IF b = a THEN now ELSE job[b]
                            /\ child'[b] = IF b = a THEN where ELSE child[b]
    BY DEF IInv, TypeOK
  <1>2. record.attempt \in Attempts BY DEF IInv, TypeOK
  <1>3. /\ \A b \in Attempts : b # a => (Live(b)' <=> Live(b))
        /\ now \in {"none", "ended"} => ~Live(a)'
    BY <1>1 DEF Live, Alive
  <1>4. TypeOK' BY DEF IInv, TypeOK, Working
  <1>5. StoreOK' /\ RemoteRunIsAttempts' /\ SuccessIsBacked'
    BY DEF IInv, StoreOK, RemoteRunIsAttempts, SuccessIsBacked
  <1>6. InputOK' BY <1>1, <1>2 DEF IInv, InputOK
  <1>7. JobsOK'
    <2>. SUFFICES ASSUME NEW b \in Attempts
                  PROVE  /\ job'[b] \in {"none", "sent"} => child'[b] = "none"
                         /\ job'[b] = "ended" => child'[b] = "over"
                         /\ b > record'.attempt => job'[b] = "none"
                         /\ b < record'.attempt => ~Live(b)'
      BY DEF JobsOK
    <2>1. CASE b # a BY <1>1, <1>3, <2>1 DEF IInv, JobsOK
    <2>2. CASE b = a
      <3>1. b > record.attempt => now = "none"
        BY <1>2, <2>2, Numbers DEF IInv, JobsOK, Live, Alive
      <3>2. b < record.attempt => now \in {"none", "ended"}
        BY <1>2, <2>2, Numbers DEF IInv, JobsOK
      <3>. QED BY <1>1, <1>3, <2>2, <3>1, <3>2
    <2>. QED BY <2>1, <2>2
  <1>8. SettledOK'
    <2>1. Live(record.attempt)' => Live(record.attempt) \/ exec = "starting"
      BY <1>2, <1>3
    <2>2. exec \in {"idle", "starting"} /\ exec' = exec /\ job[record.attempt] = "none"
              => job'[record.attempt] = "none"
      BY <1>1, <1>2 DEF IInv, SettledOK, Live, Alive
    <2>. QED BY <1>2, <1>3, <2>1, <2>2 DEF IInv, SettledOK, Terminal, Success, Bad
  <1>. QED BY <1>4, <1>5, <1>6, <1>7, <1>8 DEF IInv

LEMMA PlatformSteps ==
    ASSUME IInv,
           \/ Spawn \/ Kill \/ Submit \/ RunMultiple
           \/ \E a \in Attempts : TakesUp(a) \/ Drops(a) \/ JobEnds(a)
    PROVE  IInv'
  <1>. USE DEF storeVars, execVars, workVars, ThreadAlone
  <1>1. record.attempt \in Attempts BY DEF IInv, TypeOK
  <1>2. /\ late \in BOOLEAN /\ exec \in ExecPhases /\ watched \in Attempts \cup {0}
        /\ finding \in Finding
    BY DEF IInv, TypeOK
  <1>3. exec = "starting" => job[record.attempt] = "none" /\ child[record.attempt] = "none"
    BY <1>1 DEF IInv, SettledOK, JobsOK
  <1>4. job \in [Attempts -> {"none", "sent", "active", "terminating", "ended"}]
        /\ child \in [Attempts -> Working \cup {"none", "reported", "over"}]
    BY DEF IInv, TypeOK
  <1>5. CASE Spawn
    <2>1. Starts(record.attempt) /\ exec = "starting" /\ exec' = "communicating"
      BY <1>5 DEF Spawn
    <2>. QED BY <1>1, <1>2, <1>5, <2>1, JobSteps DEF Spawn, Starts, ExecPhases
  <1>6. CASE Kill
    <2>1. /\ EndsJob(record.attempt) /\ exec = "communicating" /\ exec' = "settling"
          /\ finding' \in Finding
      BY <1>6, Findings DEF Kill, Concludes
    <2>. QED BY <1>1, <1>2, <1>6, <2>1, JobSteps DEF Kill, EndsJob, Concludes, ExecPhases
  <1>7. CASE Submit \/ RunMultiple
    <2>1. /\ job' = [job EXCEPT ![record.attempt] = "sent"]
          /\ child' = [child EXCEPT ![record.attempt] = "none"]
          /\ exec = "starting" /\ exec' \in {"submitting", "running"}
      BY <1>1, <1>3, <1>4, <1>7 DEF Submit, RunMultiple, Requests, Token
    <2>. QED BY <1>1, <1>2, <1>7, <2>1, JobSteps DEF Submit, RunMultiple, ExecPhases
  <1>8. ASSUME NEW a \in Attempts, TakesUp(a) PROVE IInv'
    <2>1. job[a] = "sent" /\ Starts(a) BY <1>8 DEF TakesUp
    <2>. QED
      BY <1>2, <1>8, <2>1, JobSteps DEF TakesUp, Starts, PlatformAlone, Live, IInv,
         RemoteRunIsAttempts
  <1>9. ASSUME NEW a \in Attempts, Drops(a) PROVE IInv'
    <2>1. child' = [child EXCEPT ![a] = "none"] /\ job' = [job EXCEPT ![a] = "none"]
      BY <1>4, <1>9 DEF Drops, IInv, JobsOK
    <2>. QED BY <1>2, <1>9, <2>1, JobSteps DEF Drops, PlatformAlone, IInv, RemoteRunIsAttempts
  <1>10. ASSUME NEW a \in Attempts, JobEnds(a) PROVE IInv'
    <2>1. job[a] # "none" /\ EndsJob(a) BY <1>10 DEF JobEnds, Alive
    <2>. QED
      BY <1>2, <1>10, <2>1, JobSteps DEF JobEnds, EndsJob, PlatformAlone, IInv, RemoteRunIsAttempts
  <1>. QED BY <1>5, <1>6, <1>7, <1>8, <1>9, <1>10

-----------------------------------------------------------------------------
(* The child, where it does not write to the store.                        *)
LEMMA ChildWorks ==
    ASSUME IInv, NEW a \in Attempts,
           \/ ChecksInput(a) \/ Reads(a) \/ Writes(a) \/ Verifies(a) \/ Raises(a) \/ GivesUp(a)
    PROVE  IInv'
  <1>. USE DEF execVars
  <1>1. /\ UNCHANGED <<platform, record, remoteId, planned, source, late, execVars, job>>
        /\ Alive(a)
    BY DEF ChecksInput, Reads, Writes, Verifies, Raises, GivesUp, ChildAlone, From, Working
  <1>2. PICK there \in Working \cup {"over"} :
            child[a] \in Working /\ child' = [child EXCEPT ![a] = there]
    BY DEF ChecksInput, Reads, Writes, Verifies, Raises, GivesUp, From, Working
  <1>3. \A b \in Attempts : child'[b] = IF b = a THEN there ELSE child[b]
    BY <1>2 DEF IInv, TypeOK
  <1>4. record.attempt \in Attempts /\ source \in Versions /\ planned \in Versions
    BY DEF IInv, TypeOK
  <1>5. \A b \in Attempts : Live(b)' => Live(b)
    BY <1>1, <1>2, <1>3 DEF Live, Alive
  <1>6. TypeOK'
    <2>1. read' \in [Attempts -> Versions \cup {0}] /\ artifact' \in [Attempts -> Versions \cup {0}]
      BY DEF IInv, TypeOK, ChecksInput, Reads, Writes, Verifies, Raises, GivesUp
    <2>. QED BY <1>1, <1>2, <2>1 DEF IInv, TypeOK
  <1>7. StoreOK' /\ RemoteRunIsAttempts' BY <1>1 DEF IInv, StoreOK, RemoteRunIsAttempts
  <1>8. JobsOK'
    <2>. SUFFICES ASSUME NEW b \in Attempts
                  PROVE  /\ job'[b] \in {"none", "sent"} => child'[b] = "none"
                         /\ job'[b] = "ended" => child'[b] = "over"
                         /\ b > record'.attempt => job'[b] = "none"
                         /\ b < record'.attempt => ~Live(b)'
      BY DEF JobsOK
    <2>. QED BY <1>1, <1>3, <1>5 DEF IInv, JobsOK, Alive
  <1>9. SettledOK' BY <1>1, <1>4, <1>5 DEF IInv, SettledOK
  <1>10. InputOK'
    <2>. DEFINE c == record.attempt
    <2>1. CASE ChecksInput(a) \/ Raises(a) \/ GivesUp(a)
      <3>1. UNCHANGED <<read, artifact>> /\ child'[a] \notin {"read", "written", "verified"}
        BY <1>3, <2>1 DEF ChecksInput, Raises, GivesUp, From, IInv, TypeOK
      <3>. QED BY <1>1, <1>3, <1>4, <3>1 DEF IInv, InputOK
    <2>2. CASE Reads(a)
      <3>1. /\ \A b \in Attempts : /\ read'[b] = IF b = a THEN source ELSE read[b]
                                   /\ child'[b] = IF b = a THEN "read" ELSE child[b]
            /\ UNCHANGED artifact
        BY <2>2 DEF Reads, From, IInv, TypeOK
      <3>. QED BY <1>1, <1>4, <3>1, Typed DEF IInv, InputOK
    <2>3. CASE Writes(a)
      <3>1. /\ \A b \in Attempts : /\ artifact'[b] = IF b = a THEN read[a] ELSE artifact[b]
                                   /\ child'[b] = IF b = a THEN "written" ELSE child[b]
            /\ UNCHANGED read /\ child[a] = "read"
        BY <2>3 DEF Writes, From, IInv, TypeOK
      <3>. QED BY <1>1, <1>4, <3>1 DEF IInv, InputOK
    <2>4. CASE Verifies(a)
      <3>1. /\ \A b \in Attempts : child'[b] = IF b = a THEN "verified" ELSE child[b]
            /\ UNCHANGED <<read, artifact>> /\ child[a] = "written" /\ source = planned
        BY <2>4 DEF Verifies, From, IInv, TypeOK
      <3>2. a = c => artifact[c] = planned
        <4>1. CASE a = c
          <5>1. /\ planned <= read[c] /\ read[c] <= source /\ artifact[c] = read[c]
            BY <3>1, <4>1 DEF IInv, InputOK
          <5>. QED BY <3>1, <5>1, Typed
        <4>. QED BY <4>1
      <3>. QED BY <1>1, <1>4, <3>1, <3>2 DEF IInv, InputOK
    <2>. QED BY <2>1, <2>2, <2>3, <2>4
  <1>11. SuccessIsBacked'
    <2>1. record.status = "SUCCEEDED" => a # record.attempt
      BY <1>1, <1>2, <1>4 DEF IInv, StoreOK, SettledOK, Live, Terminal, Success
    <2>2. \A b \in Attempts : b # a => artifact'[b] = artifact[b]
      BY DEF ChecksInput, Reads, Writes, Verifies, Raises, GivesUp, IInv, TypeOK
    <2>. QED BY <1>1, <1>4, <2>1, <2>2 DEF IInv, SuccessIsBacked
  <1>. QED BY <1>6, <1>7, <1>8, <1>9, <1>10, <1>11 DEF IInv

-----------------------------------------------------------------------------
(* The store's records.                                                    *)
LEMMA FailedRecordIs ==
    ASSUME IInv
    PROVE  /\ FailedRecord \in NodeRecord
           /\ FailedRecord.status \in Terminal /\ FailedRecord.attempt = record.attempt
           /\ \/ FailedRecord = record
              \/ /\ FailedRecord.status \in {"FAILED", "TIMED_OUT"}
                 /\ FailedRecord.uncertain = finding.uncertain
                 /\ record.status \notin Terminal
  <1>1. record \in NodeRecord /\ finding \in Finding BY DEF IInv, TypeOK
  <1>2. CASE record.status \in Terminal BY <1>1, <1>2 DEF FailedRecord
  <1>3. CASE record.status \notin Terminal
    <2>1. /\ finding.status \in {"FAILED", "TIMED_OUT"}
          /\ finding.retryable \in BOOLEAN /\ finding.uncertain \in BOOLEAN
      BY <1>1 DEF Finding
    <2>2. FailedRecord = Finished(record, finding.status, finding.retryable, finding.uncertain,
                                  NoOutput, FALSE)
      BY <1>3 DEF FailedRecord
    <2>3. FailedRecord \in NodeRecord
      BY <1>1, <2>1, <2>2 DEF Finished, NodeRecord, Status, Terminal, Success, Bad, NoOutput
    <2>4. /\ FailedRecord.status = finding.status /\ FailedRecord.attempt = record.attempt
          /\ FailedRecord.uncertain = finding.uncertain
      BY <1>1, <2>1, <2>2 DEF Finished, NodeRecord
    <2>. QED BY <1>3, <2>1, <2>3, <2>4 DEF Terminal, Bad
  <1>. QED BY <1>2, <1>3

(* The executor writes the record of an attempt that cannot act any more,  *)
(* or says that it may.                                                    *)
LEMMA SettleSteps == ASSUME IInv, Settle \/ SettleRaises PROVE IInv'
  <1>. USE DEF workVars, ThreadAlone
  <1>1. /\ UNCHANGED <<platform, remoteId, planned, source, late, watched, job, workVars>>
        /\ exec \in {"concluding", "settling", "repeating"}
        /\ exec' \in {"settling", "repeating", "done", "raised"}
        /\ finding' \in {finding, Unknown("FAILED")}
    BY DEF Settle, SettleRaises
  <1>2. /\ record' \in {record, FailedRecord}
        /\ exec' \in {"done", "repeating"} => record'.status \in Terminal
        /\ exec = "repeating" => record' = record
        /\ exec' = "settling" => finding'.uncertain
    BY FailedRecordIs DEF Settle, SettleRaises, IInv, SettledOK, Unknown
  <1>3. \A a \in Attempts : Live(a)' <=> Live(a) BY <1>1 DEF Live, Alive
  <1>4. /\ record.attempt \in Attempts /\ record \in NodeRecord /\ finding \in Finding
        /\ platform \in Platforms
    BY DEF IInv, TypeOK
  <1>5. /\ record' \in NodeRecord /\ record'.attempt = record.attempt
        /\ \/ record' = record
           \/ /\ record'.status \in {"FAILED", "TIMED_OUT"} /\ record.status \notin Terminal
              /\ record'.uncertain = finding.uncertain
    BY <1>2, <1>4, FailedRecordIs
  <1>6. TypeOK'
    <2>1. finding' \in Finding BY <1>1, <1>4, Findings
    <2>2. exec' \in ExecPhases BY <1>1 DEF ExecPhases
    <2>. QED BY <1>1, <1>5, <2>1, <2>2 DEF IInv, TypeOK
  <1>7. StoreOK' BY <1>5 DEF IInv, StoreOK
  <1>8. JobsOK' BY <1>1, <1>3, <1>5 DEF IInv, JobsOK
  <1>9. SettledOK'
    <2>1. record'.status \in Terminal => record'.uncertain \/ ~Live(record.attempt)
      <3>1. CASE record' = record BY <3>1 DEF IInv, SettledOK
      <3>2. CASE record' # record
        <4>1. exec \in {"concluding", "settling"} BY <1>1, <1>2, <3>2
        <4>. QED BY <1>5, <3>2, <4>1 DEF IInv, SettledOK
      <3>. QED BY <3>1, <3>2
    <2>. QED BY <1>1, <1>2, <1>3, <1>4, <1>5, <2>1 DEF SettledOK
  <1>10. InputOK' BY <1>1, <1>5 DEF IInv, InputOK
  <1>11. RemoteRunIsAttempts' /\ SuccessIsBacked'
    BY <1>1, <1>5 DEF IInv, RemoteRunIsAttempts, SuccessIsBacked
  <1>. QED BY <1>6, <1>7, <1>8, <1>9, <1>10, <1>11 DEF IInv

(* The child claims the attempt it was started for, and reports that one.  *)
LEMMA ClaimStep == ASSUME IInv, NEW a \in Attempts, Claims(a) PROVE IInv'
  <1>. USE DEF execVars, ChildAlone
  <1>1. /\ UNCHANGED <<platform, remoteId, planned, source, late, execVars, job, read, artifact>>
        /\ Alive(a) /\ child[a] = "waiting" /\ child' = [child EXCEPT ![a] = "claimed"]
        /\ a = record.attempt /\ record.status = "READY" /\ record' = Claimed(record)
    BY DEF Claims, From, Claimable
  <1>2. record \in NodeRecord BY DEF IInv, TypeOK
  <1>3. /\ record' \in NodeRecord /\ record'.status = "RUNNING"
        /\ record'.attempt = record.attempt /\ record'.uncertain = record.uncertain
    BY <1>1, <1>2, ClaimedIs
  <1>4. \A b \in Attempts : child'[b] = IF b = a THEN "claimed" ELSE child[b]
    BY <1>1 DEF IInv, TypeOK
  <1>5. \A b \in Attempts : Live(b)' => Live(b)
    BY <1>1, <1>4 DEF Live, Alive, Working
  <1>6. job[record.attempt] # "none" BY <1>1 DEF Alive
  <1>7. TypeOK' BY <1>1, <1>3 DEF IInv, TypeOK, Working
  <1>8. StoreOK' BY <1>1, <1>3 DEF IInv, StoreOK
  <1>9. JobsOK' BY <1>1, <1>3, <1>4, <1>5 DEF IInv, JobsOK, Alive
  <1>10. SettledOK'
    BY <1>1, <1>3, <1>5, <1>6 DEF IInv, SettledOK, Terminal, Success, Bad
  <1>11. InputOK' BY <1>1, <1>3, <1>4 DEF IInv, InputOK
  <1>12. RemoteRunIsAttempts' /\ SuccessIsBacked'
    BY <1>1, <1>3 DEF IInv, RemoteRunIsAttempts, SuccessIsBacked
  <1>. QED BY <1>7, <1>8, <1>9, <1>10, <1>11, <1>12 DEF IInv

LEMMA ReportSteps ==
    ASSUME IInv, NEW a \in Attempts, Reports(a) \/ ReportsFailure(a)
    PROVE  IInv'
  <1>. USE DEF execVars, ChildAlone
  <1>1. /\ UNCHANGED <<platform, remoteId, planned, source, late, execVars, job, read, artifact>>
        /\ Alive(a) /\ child' = [child EXCEPT ![a] = "reported"]
        /\ child[a] = IF Reports(a) THEN "verified" ELSE "failing"
        /\ a = record.attempt /\ record.status = "RUNNING"
    BY DEF Reports, ReportsFailure, From, Finishable
  <1>2. record \in NodeRecord /\ late \in BOOLEAN /\ a \in Nat
    BY Numbers DEF IInv, TypeOK
  <1>3. PICK status \in {"SUCCEEDED", "FAILED", "TIMED_OUT"}, retryable \in BOOLEAN,
             output \in Nat \X Nat, overdue \in BOOLEAN :
            /\ record' = Finished(record, status, retryable, FALSE, output, overdue)
            /\ status = "SUCCEEDED" => Reports(a) /\ output = <<1, a>>
    <2>1. NoOutput \in Nat \X Nat /\ <<1, a>> \in Nat \X Nat BY <1>2 DEF NoOutput
    <2>. QED BY <1>2, <2>1 DEF Reports, ReportsFailure
  <1>4. /\ record' \in NodeRecord /\ record'.status \in {"SUCCEEDED", "FAILED", "TIMED_OUT"}
        /\ record'.attempt = record.attempt /\ record'.uncertain = FALSE
        /\ record'.status = "SUCCEEDED" => Reports(a) /\ record'.outputs = <<1, a>>
    <2>1. (status = "SUCCEEDED" /\ overdue) \in BOOLEAN OBVIOUS
    <2>2. record' \in NodeRecord
      BY <1>2, <1>3, <2>1 DEF Finished, NodeRecord, Status, Terminal, Success, Bad, NoOutput
    <2>3. /\ record'.status = IF status = "SUCCEEDED" /\ overdue THEN "TIMED_OUT" ELSE status
          /\ record'.attempt = record.attempt /\ record'.uncertain = FALSE
          /\ record'.status = "SUCCEEDED" => record'.outputs = output
      BY <1>2, <1>3 DEF Finished, NodeRecord
    <2>. QED BY <1>3, <2>2, <2>3
  <1>5. \A b \in Attempts : child'[b] = IF b = a THEN "reported" ELSE child[b]
    BY <1>1 DEF IInv, TypeOK
  <1>6. ~Live(a)' /\ \A b \in Attempts : Live(b)' => Live(b)
    BY <1>1, <1>5 DEF Live, Alive, Working
  <1>7. TypeOK' BY <1>1, <1>4 DEF IInv, TypeOK
  <1>8. StoreOK' BY <1>4 DEF StoreOK
  <1>9. JobsOK' BY <1>1, <1>4, <1>5, <1>6 DEF IInv, JobsOK, Alive
  <1>10. SettledOK'
    BY <1>1, <1>4, <1>6 DEF IInv, SettledOK, Terminal, Success, Bad
  <1>11. InputOK' BY <1>1, <1>4, <1>5 DEF IInv, InputOK
  <1>12. RemoteRunIsAttempts' BY <1>1, <1>4 DEF IInv, RemoteRunIsAttempts
  <1>13. SuccessIsBacked'
    <2>1. Reports(a) => artifact[a] = planned BY <1>1 DEF IInv, InputOK
    <2>. QED BY <1>1, <1>4, <2>1 DEF SuccessIsBacked
  <1>. QED BY <1>7, <1>8, <1>9, <1>10, <1>11, <1>12, <1>13 DEF IInv

(* A new attempt, of a record that is certain.                             *)
LEMMA RetryStep == ASSUME IInv, Retry PROVE IInv'
  <1>. DEFINE c == record.attempt
  <1>1. /\ exec = "idle" /\ record.status \in {"FAILED", "TIMED_OUT"} /\ ~record.uncertain
        /\ record \in NodeRecord /\ c \in Attempts /\ c <= MaxRetries
        /\ UNCHANGED <<platform, source, late, execVars, job, workVars>>
    BY DEF IInv, TypeOK, Retry
  <1>2. /\ record' \in NodeRecord /\ record'.status = "READY" /\ record'.attempt = c + 1
        /\ record'.uncertain = FALSE /\ c + 1 \in Attempts
    <2>1. record' = Prepared(record) BY DEF Retry
    <2>2. c + 1 \in Attempts BY <1>1, Numbers
    <2>. QED BY <1>1, <2>1, <2>2, PreparedIs
  <1>3. \A a \in Attempts : Live(a)' <=> Live(a) BY <1>1 DEF Live, Alive, workVars
  <1>4. ~Live(c) BY <1>1 DEF IInv, SettledOK, Terminal, Bad
  <1>5. job[c + 1] = "none" /\ child[c + 1] = "none"
    <2>1. c + 1 > c BY Typed
    <2>. QED BY <1>2, <2>1 DEF IInv, JobsOK
  <1>6. planned' \in {planned, source} /\ remoteId' = 0
    BY DEF Retry
  <1>7. TypeOK' BY <1>1, <1>2, <1>6 DEF IInv, TypeOK, execVars, workVars
  <1>8. StoreOK' BY <1>2 DEF StoreOK
  <1>9. JobsOK'
    <2>. SUFFICES ASSUME NEW a \in Attempts
                  PROVE  /\ job'[a] \in {"none", "sent"} => child'[a] = "none"
                         /\ job'[a] = "ended" => child'[a] = "over"
                         /\ a > record'.attempt => job'[a] = "none"
                         /\ a < record'.attempt => ~Live(a)'
      BY DEF JobsOK
    <2>1. /\ a > c + 1 => a > c
          /\ a < c + 1 => a < c \/ a = c
      <3>1. a \in Nat BY Numbers
      <3>. QED BY <3>1, Typed
    <2>. QED BY <1>1, <1>2, <1>3, <1>4, <2>1 DEF IInv, JobsOK, workVars
  <1>10. SettledOK' BY <1>1, <1>2, <1>5 DEF SettledOK, execVars, Terminal, Success, Bad
  <1>11. InputOK'
    <2>. QED BY <1>1, <1>2, <1>5, <1>6, Typed DEF IInv, InputOK, workVars
  <1>12. RemoteRunIsAttempts' /\ SuccessIsBacked'
    BY <1>1, <1>2, <1>6 DEF RemoteRunIsAttempts, SuccessIsBacked, execVars
  <1>. QED BY <1>7, <1>8, <1>9, <1>10, <1>11, <1>12 DEF IInv

LEMMA SourceStep == ASSUME IInv, SourceChanges PROVE IInv'
  <1>. USE DEF storeVars, execVars, workVars
  <1>1. source' = source + 1 /\ source \in Versions /\ source' \in Versions
    BY Numbers DEF IInv, TypeOK, SourceChanges
  <1>2. /\ UNCHANGED <<platform, record, remoteId, planned, late, exec, watched, finding, job>>
        /\ UNCHANGED <<child, read, artifact>>
    BY DEF SourceChanges
  <1>3. \A a \in Attempts : Live(a)' <=> Live(a) BY <1>2 DEF Live, Alive
  <1>4. /\ record.attempt \in Attempts /\ planned \in Versions
        /\ read[record.attempt] \in Versions \cup {0}
    BY DEF IInv, TypeOK
  <1>5. TypeOK' BY <1>1, <1>2 DEF IInv, TypeOK
  <1>6. StoreOK' /\ RemoteRunIsAttempts' /\ SuccessIsBacked'
    BY <1>2 DEF IInv, StoreOK, RemoteRunIsAttempts, SuccessIsBacked
  <1>7. JobsOK' BY <1>2, <1>3 DEF IInv, JobsOK
  <1>8. SettledOK' BY <1>2, <1>3, <1>4 DEF IInv, SettledOK
  <1>9. InputOK' BY <1>1, <1>2, Typed DEF IInv, InputOK
  <1>. QED BY <1>5, <1>6, <1>7, <1>8, <1>9 DEF IInv

-----------------------------------------------------------------------------
LEMMA StepInvariant == IInv /\ [Next]_vars => IInv'
  <1>. SUFFICES ASSUME IInv, [Next]_vars PROVE IInv' OBVIOUS
  <1>. USE DEF storeVars, execVars, workVars, ThreadAlone
  <1>1. late \in BOOLEAN BY DEF IInv, TypeOK
  <1>2. CASE UNCHANGED vars
    BY <1>2 DEF vars, IInv, TypeOK, StoreOK, JobsOK, SettledOK, InputOK, RemoteRunIsAttempts,
       SuccessIsBacked, Live, Alive
  <1>3. CASE Dispatch \/ Reap \/ Deadline BY <1>1, <1>3, ThreadSteps DEF Still, Dispatch, Reap,
     Deadline
  <1>4. CASE SpawnFails \/ ProcessEnded \/ MissingCluster \/ Submitted
    BY <1>1, <1>4, ThreadSteps DEF Still, SpawnFails, ProcessEnded, MissingCluster, Submitted
  <1>5. CASE RecordRemote \/ PollFindsEnd \/ EndConfirmed \/ GraceElapses
    BY <1>1, <1>5, ThreadSteps DEF Still, RecordRemote, PollFindsEnd, EndConfirmed, GraceElapses
  <1>6. CASE SubmissionRaises \/ FabricReturns
    BY <1>1, <1>6, ThreadSteps DEF Still, SubmissionRaises, FabricReturns
  <1>7. CASE Spawn \/ Kill \/ Submit \/ RunMultiple BY <1>7, PlatformSteps
  <1>8. CASE Cancel \/ CallRaises BY <1>8, CancelSteps
  <1>9. CASE Settle \/ SettleRaises BY <1>9, SettleSteps
  <1>10. CASE Retry BY <1>10, RetryStep
  <1>11. CASE SourceChanges BY <1>11, SourceStep
  <1>12. ASSUME NEW a \in Attempts, Worker(a) PROVE IInv'
    <2>1. CASE TakesUp(a) \/ Drops(a) \/ JobEnds(a) BY <2>1, PlatformSteps
    <2>2. CASE Terminates(a) BY <2>2, CancelSteps
    <2>3. CASE Claims(a) BY <2>3, ClaimStep
    <2>4. CASE Reports(a) \/ ReportsFailure(a) BY <2>4, ReportSteps
    <2>5. CASE ChecksInput(a) \/ Reads(a) \/ Writes(a) \/ Verifies(a) \/ Raises(a) \/ GivesUp(a)
      BY <2>5, ChildWorks
    <2>. QED BY <1>12, <2>1, <2>2, <2>3, <2>4, <2>5 DEF Worker
  <1>. QED
    BY <1>2, <1>3, <1>4, <1>5, <1>6, <1>7, <1>8, <1>9, <1>10, <1>11, <1>12 DEF Next, Executor

(* The inductive invariant holds, whatever the platform answers and        *)
(* whatever the source does.                                               *)
THEOREM Invariant == Spec => []IInv
  BY InitInvariant, StepInvariant, PTL DEF Spec

(* Every variable keeps its type. *)
THEOREM TypeCorrect == Spec => []TypeOK
  <1>1. IInv => TypeOK BY DEF IInv
  <1>. QED BY <1>1, Invariant, PTL

(* No platform, no late answer and no failed call lets an executor record  *)
(* a certain failure, or a retry begin, over a worker that may still act   *)
(* (DatabricksExecutor._execute, FabricExecutor.execute_batch).            *)
THEOREM NoCertainFailureOverALivingWorker == Spec => []UncertainUnlessStopped
  <1>1. ASSUME IInv PROVE UncertainUnlessStopped
    <2>. SUFFICES ASSUME exec \in {"idle", "starting", "done"}, NEW a \in Attempts, Live(a)
                  PROVE  record.uncertain
      BY DEF UncertainUnlessStopped, Live
    <2>1. job[a] # "none" BY DEF Live, Alive
    <2>2. record.attempt \in Nat /\ a \in Nat BY <1>1, Typed, Numbers
    <2>3. a = record.attempt BY <1>1, <2>1, <2>2 DEF IInv, JobsOK
    <2>4. record.status \in Terminal BY <1>1, <2>1, <2>3 DEF IInv, SettledOK
    <2>. QED BY <1>1, <2>3, <2>4 DEF IInv, SettledOK
  <1>. QED BY <1>1, Invariant, PTL

(* A success on record was written by its own attempt from the input it    *)
(* was planned on, wherever a process died and whenever the source changed *)
(* (run_child).                                                            *)
THEOREM RecordedSuccessIsBacked == Spec => []SuccessIsBacked
  <1>1. IInv => SuccessIsBacked BY DEF IInv
  <1>. QED BY <1>1, Invariant, PTL

(* The remote run on record is never that of an earlier attempt            *)
(* (DatabricksExecutor._execute, record_remote).                           *)
THEOREM RecordedRunIsAttempts == Spec => []RemoteRunIsAttempts
  <1>1. IInv => RemoteRunIsAttempts BY DEF IInv
  <1>. QED BY <1>1, Invariant, PTL

-----------------------------------------------------------------------------
(* The attempts, seen from Scheduler.  An executor that is about to fail   *)
(* an attempt as uncertain is a remote one, and one that is certain has    *)
(* seen the job end, or has not begun it.                                  *)
SeenInv ==
    /\ exec \in {"submitting", "recording", "polling", "confirming", "running", "concluding"} =>
           platform # "local"
    /\ finding.uncertain => ~finding.retryable
    /\ exec = "settling" /\ finding.uncertain => platform # "local"
    /\ exec \in {"concluding", "settling"} /\ ~finding.uncertain =>
           job[record.attempt] \in {"none", "ended"}

LEMMA FindingIs ==
    ASSUME NEW status, NEW retryable
    PROVE  /\ Found(status, retryable).uncertain = FALSE
           /\ Unknown(status).uncertain = TRUE /\ Unknown(status).retryable = FALSE
  BY DEF Found, Unknown

LEMMA SeenInit == Init => SeenInv
  BY DEF Init, SeenInv, Found

LEMMA SeenStep == IInv /\ SeenInv /\ [Next]_vars => SeenInv'
  <1>. SUFFICES ASSUME IInv, SeenInv, [Next]_vars PROVE SeenInv' OBVIOUS
  <1>. USE DEF storeVars, execVars, workVars, ThreadAlone
  <1>. DEFINE c == record.attempt
  <1>1. c \in Attempts BY Typed
  <1>2. CASE UNCHANGED vars \/ Reap \/ Deadline \/ SourceChanges
    BY <1>2 DEF vars, Reap, Deadline, SourceChanges, SeenInv
  <1>3. CASE Dispatch \/ Retry \/ SpawnFails \/ Settle
    BY <1>3 DEF Dispatch, Retry, SpawnFails, Settle, SeenInv
  <1>4. CASE SettleRaises
    BY <1>4, FindingIs DEF SettleRaises, SeenInv
  <1>5. CASE Spawn \/ Submit \/ RunMultiple
    BY <1>5 DEF Spawn, Submit, RunMultiple, SeenInv
  <1>6. CASE ProcessEnded \/ MissingCluster
    BY <1>6, FindingIs DEF ProcessEnded, MissingCluster, Concludes, SeenInv, IInv, SettledOK
  <1>7. CASE Kill
    <2>1. job'[c] = "ended" BY <1>1, <1>7 DEF Kill, EndsJob, IInv, TypeOK
    <2>. QED BY <1>7, <2>1, FindingIs DEF Kill, Concludes, SeenInv
  <1>8. CASE Submitted \/ RecordRemote
    BY <1>8 DEF Submitted, RecordRemote, SeenInv
  <1>9. CASE PollFindsEnd \/ EndConfirmed
    BY <1>9, FindingIs DEF PollFindsEnd, EndConfirmed, Stopped, Concludes, SeenInv, IInv,
       RemoteRunIsAttempts
  <1>10. CASE GraceElapses \/ SubmissionRaises \/ CallRaises \/ FabricReturns
    BY <1>10, FindingIs DEF GraceElapses, SubmissionRaises, CallRaises, FabricReturns,
       FabricFinding, Concludes, SeenInv
  <1>11. CASE Cancel BY <1>11 DEF Cancel, SeenInv
  <1>12. ASSUME NEW a \in Attempts, Worker(a) PROVE SeenInv'
    <2>1. CASE TakesUp(a) \/ Drops(a) \/ Terminates(a) \/ JobEnds(a)
      <3>1. UNCHANGED <<platform, exec, finding, record>>
        BY <2>1 DEF TakesUp, Drops, Terminates, JobEnds, PlatformAlone
      <3>2. job[c] \in {"none", "ended"} => job'[c] \in {"none", "ended"}
        BY <1>1, <2>1 DEF TakesUp, Drops, Terminates, JobEnds, Starts, EndsJob, Alive, IInv, TypeOK
      <3>. QED BY <3>1, <3>2 DEF SeenInv
    <2>2. CASE ~(TakesUp(a) \/ Drops(a) \/ Terminates(a) \/ JobEnds(a))
      <3>1. UNCHANGED <<platform, exec, finding, job>>
        BY <1>12, <2>2 DEF Worker, Claims, ChecksInput, Reads, Writes, Verifies, Reports, Raises,
           ReportsFailure, GivesUp, ChildAlone
      <3>2. \/ record' = record \/ record' = Claimed(record)
            \/ \E status, retryable, output, missed :
                   record' = Finished(record, status, retryable, FALSE, output, missed)
        BY <1>12, <2>2 DEF Worker, Claims, ChecksInput, Reads, Writes, Verifies, Reports, Raises,
           ReportsFailure, GivesUp
      <3>3. record \in NodeRecord BY DEF IInv, TypeOK
      <3>4. record'.attempt = c BY <3>2, <3>3, ClaimedIs DEF Finished, NodeRecord
      <3>. QED BY <3>1, <3>4 DEF SeenInv
    <2>. QED BY <2>1, <2>2
  <1>. QED
    BY <1>2, <1>3, <1>4, <1>5, <1>6, <1>7, <1>8, <1>9, <1>10, <1>11, <1>12 DEF Next, Executor

(* What Scheduler sees of a child. *)
SeenAs(a) ==
    IF \/ exec = "starting" /\ a = record.attempt
       \/ job[a] = "sent"
       \/ Alive(a) /\ child[a] = "waiting"
    THEN "launched"
    ELSE IF Alive(a) /\ child[a] \in Working THEN "claimed"
    ELSE IF Alive(a) /\ child[a] = "reported" THEN "reported" ELSE "none"

LEMMA ChildSeenIs ==
    /\ IInv => \A a \in Attempts : ChildSeen(a) = SeenAs(a)
    /\ IInv' => \A a \in Attempts : ChildSeen(a)' = SeenAs(a)'
  <1>1. IInv => \A a \in Attempts : exec = "starting" /\ a = record.attempt => job[a] = "none"
    BY DEF IInv, SettledOK
  <1>2. IInv' =>
            \A a \in Attempts : exec' = "starting" /\ a = record'.attempt => job'[a] = "none"
    BY DEF IInv, SettledOK
  <1>. QED BY <1>1, <1>2 DEF ChildSeen, SeenAs, Alive, Working

Quiet == UNCHANGED <<record, ExecSeen, [a \in Attempts |-> ChildSeen(a)]>>

LEMMA QuietIf ==
    ASSUME IInv, IInv',
           record' = record, ExecSeen' = ExecSeen, \A a \in Attempts : SeenAs(a)' = SeenAs(a)
    PROVE  Quiet
  <1>1. \A a \in Attempts : ChildSeen(a)' = ChildSeen(a) BY ChildSeenIs
  <1>. QED BY <1>1 DEF Quiet

(* One node, one record: the functions of Scheduler as tuples of one.      *)
LEMMA OneNode ==
    ASSUME NEW x, NEW y
    PROVE  /\ <<x>>[1] = x
           /\ [<<x>> EXCEPT ![1] = y] = <<y>>
  <1>1. <<x>>[1] = x OBVIOUS
  <1>2. <<x>> = [i \in {1} |-> x] BY SMT
  <1>3. [<<x>> EXCEPT ![1] = y] = <<y>> BY <1>2
  <1>. QED BY <1>1, <1>3

LEMMA EndSeen ==
    ASSUME IInv, IInv', record' = record, ExecSeen' = ExecSeen, NEW a \in Attempts,
           SeenAs(a) # "none", SeenAs(a)' = "none",
           \A b \in Attempts : b # a => SeenAs(b)' = SeenAs(b)
    PROVE  Seen!Child(1, a)
  <1>. DEFINE f == [b \in Attempts |-> ChildSeen(b)]
  <1>1. f' = [f EXCEPT ![a] = "none"] BY ChildSeenIs
  <1>2. f[a] # "none" BY ChildSeenIs
  <1>3. <<f>>[1] = f /\ [<<f>> EXCEPT ![1][a] = "none"] = <<[f EXCEPT ![a] = "none"]>>
    BY OneNode
  <1>4. <<f>>[1][a] # "none" /\ <<f>>' = [<<f>> EXCEPT ![1][a] = "none"]
    BY <1>1, <1>2, <1>3
  <1>5. UNCHANGED <<<<<<record>>, "RUNNING">>, <<FALSE, <<TRUE>>>>, <<ExecSeen>>>>
    OBVIOUS
  <1>6. Seen!ChildEnds(1, a)
    BY <1>4, <1>5 DEF Seen!ChildEnds, Seen!SetChild, Seen!storeVars, Seen!timeVars, Seen!loopVars
  <1>. QED BY <1>6 DEF Seen!Child

(* The executor fails the attempt: for certain when its worker is gone,    *)
(* and otherwise as uncertain, which only a remote one does.               *)
LEMMA SettleSeen ==
    ASSUME IInv, IInv', SeenInv,
           exec \in {"concluding", "settling"}, exec' \in {"done", "repeating"},
           record' = FailedRecord, UNCHANGED <<job, child>>
    PROVE  Seen!ExecutorSettles(1) \/ (platform # "local" /\ Seen!ExecutorGivesUp(1))
  <1>. DEFINE c == record.attempt
              f == [b \in Attempts |-> ChildSeen(b)]
  <1>1. c \in Attempts BY Typed
  <1>2. finding \in Finding BY DEF IInv, TypeOK
  <1>3. \A a \in Attempts : SeenAs(a)' = SeenAs(a)
    BY FailedRecordIs DEF SeenAs, Alive
  <1>4. f' = f BY <1>3, ChildSeenIs
  <1>5. ExecSeen = "running" /\ ExecSeen' = "done" BY DEF ExecSeen
  <1>6. /\ <<ExecSeen>>[1] = "running"
        /\ <<ExecSeen>>' = [<<ExecSeen>> EXCEPT ![1] = "done"]
    BY <1>5, OneNode
  <1>7. UNCHANGED <<<<f>>, "RUNNING", FALSE, <<TRUE>>>> BY <1>4
  <1>8. <<record>>[1] = record BY OneNode
  <1>9. (record.status \in Seen!Terminal) <=> record.status \in Terminal
    BY DEF Seen!Terminal, Seen!Success, Seen!Bad, Terminal, Success, Bad
  <1>10. CASE record.status \in Terminal /\ finding.uncertain
    <2>1. UNCHANGED <<record>> BY <1>10 DEF FailedRecord
    <2>2. platform # "local" BY <1>10 DEF SeenInv
    <2>. QED
      BY <1>6, <1>7, <1>8, <1>9, <1>10, <2>1, <2>2 DEF Seen!ExecutorGivesUp, Seen!timeVars,
         Seen!loopVars
  <1>11. CASE record.status \notin Terminal /\ finding.uncertain
    <2>1. record' = Seen!Finished(record, finding.status, FALSE, TRUE, Seen!NoOutput, FALSE)
      BY <1>2, <1>11 DEF FailedRecord, Finished, Seen!Finished, Seen!NoOutput, NoOutput, SeenInv,
         Finding
    <2>2. <<record>>' = [<<record>> EXCEPT ![1] =
                            Seen!Finished(@, finding.status, FALSE, TRUE, Seen!NoOutput, FALSE)]
      BY <1>8, <2>1, OneNode
    <2>3. finding.status \in {"FAILED", "TIMED_OUT"} BY <1>2 DEF Finding
    <2>4. platform # "local" BY <1>11 DEF SeenInv
    <2>. QED
      BY <1>6, <1>7, <1>8, <1>9, <1>11, <2>2, <2>3, <2>4 DEF Seen!ExecutorGivesUp,
         Seen!timeVars, Seen!loopVars
  <1>12. CASE ~finding.uncertain
    <2>1. SeenAs(c) = "none" BY <1>1, <1>12 DEF SeenInv, SeenAs, Alive
    <2>2. <<f>>[1][<<record>>[1].attempt] = "none" BY <1>1, <1>8, <2>1, ChildSeenIs, OneNode
    <2>3. CASE record.status \in Terminal
      <3>1. UNCHANGED <<record>> BY <2>3 DEF FailedRecord
      <3>. QED
        BY <1>6, <1>7, <1>8, <1>9, <2>2, <2>3, <3>1 DEF Seen!ExecutorSettles, Seen!timeVars,
           Seen!loopVars
    <2>4. CASE record.status \notin Terminal
      <3>1. /\ finding.status \in {"FAILED", "TIMED_OUT"} /\ finding.retryable \in BOOLEAN
            /\ finding.uncertain = FALSE
        BY <1>2, <1>12 DEF Finding
      <3>2. record' = Seen!Finished(record, finding.status, finding.retryable, FALSE,
                                    Seen!NoOutput, FALSE)
        BY <2>4, <3>1 DEF FailedRecord, Finished, Seen!Finished, Seen!NoOutput, NoOutput
      <3>3. <<record>>' = [<<record>> EXCEPT ![1] =
                              Seen!Finished(@, finding.status, finding.retryable, FALSE,
                                            Seen!NoOutput, FALSE)]
        BY <1>8, <3>2, OneNode
      <3>. QED
        BY <1>6, <1>7, <1>8, <1>9, <2>2, <2>4, <3>1, <3>3 DEF Seen!ExecutorSettles,
           Seen!timeVars, Seen!loopVars
    <2>. QED BY <2>3, <2>4
  <1>13. finding.uncertain \in BOOLEAN BY <1>2 DEF Finding
  <1>. QED BY <1>10, <1>11, <1>12, <1>13

(* What Scheduler sees of a child that has moved.                          *)
LEMMA MovesSeen ==
    ASSUME IInv, IInv', record'.attempt = record.attempt, UNCHANGED <<exec, job>>,
           NEW a \in Attempts, Alive(a), NEW there, child' = [child EXCEPT ![a] = there]
    PROVE  /\ SeenAs(a) = IF child[a] = "waiting" THEN "launched"
                          ELSE IF child[a] \in Working THEN "claimed"
                          ELSE IF child[a] = "reported" THEN "reported" ELSE "none"
           /\ there \in Working \ {"waiting"} => SeenAs(a)' = "claimed"
           /\ there = "reported" => SeenAs(a)' = "reported"
           /\ there = "over" => SeenAs(a)' = "none"
           /\ \A b \in Attempts : b # a => SeenAs(b)' = SeenAs(b)
           /\ ExecSeen' = ExecSeen
  <1>1. \A b \in Attempts : child'[b] = IF b = a THEN there ELSE child[b]
    BY DEF IInv, TypeOK
  <1>2. ~(exec = "starting" /\ a = record.attempt) /\ job[a] # "sent"
    BY DEF IInv, SettledOK, Alive
  <1>. QED BY <1>1, <1>2 DEF SeenAs, Alive, ExecSeen, Working

LEMMA ClaimSeen ==
    ASSUME IInv, IInv', NEW a \in Attempts, Claims(a)
    PROVE  Seen!Child(1, a)
  <1>. USE DEF execVars
  <1>. DEFINE f == [b \in Attempts |-> ChildSeen(b)]
  <1>1. /\ UNCHANGED <<exec, job>> /\ Alive(a)
        /\ child[a] = "waiting" /\ child' = [child EXCEPT ![a] = "claimed"]
        /\ Claimable(record, a) /\ record' = Claimed(record)
    BY DEF Claims, From, ChildAlone
  <1>2. record'.attempt = record.attempt BY <1>1, ClaimedIs DEF IInv, TypeOK
  <1>3. /\ SeenAs(a) = "launched" /\ SeenAs(a)' = "claimed" /\ ExecSeen' = ExecSeen
        /\ \A b \in Attempts : b # a => SeenAs(b)' = SeenAs(b)
    <2>1. "claimed" \in Working \ {"waiting"} BY DEF Working
    <2>. QED BY <1>1, <1>2, <2>1, MovesSeen
  <1>4. f' = [f EXCEPT ![a] = "claimed"] /\ f[a] = "launched" BY <1>3, ChildSeenIs
  <1>5. <<f>>[1][a] = "launched" /\ <<f>>' = [<<f>> EXCEPT ![1][a] = "claimed"]
    <2>1. <<f>>[1] = f /\ [<<f>> EXCEPT ![1][a] = "claimed"] = <<[f EXCEPT ![a] = "claimed"]>>
      BY OneNode
    <2>. QED BY <1>4, <2>1
  <1>6. <<record>>[1] = record BY OneNode
  <1>7. <<record>>' = [<<record>> EXCEPT ![1] = Seen!Claimed(<<record>>[1])]
    BY <1>1, <1>6, OneNode DEF Claimed, Seen!Claimed
  <1>8. Seen!Claimable(<<record>>[1], a) BY <1>1, <1>6 DEF Claimable, Seen!Claimable
  <1>9. UNCHANGED <<<<ExecSeen>>, "RUNNING", FALSE, <<TRUE>>>> BY <1>3
  <1>10. Seen!ChildClaims(1, a)
    BY <1>5, <1>7, <1>8, <1>9 DEF Seen!ChildClaims, Seen!SetChild, Seen!timeVars, Seen!loopVars
  <1>. QED BY <1>10 DEF Seen!Child

LEMMA ReportSeen ==
    ASSUME IInv, IInv', NEW a \in Attempts, Reports(a) \/ ReportsFailure(a)
    PROVE  Seen!Child(1, a)
  <1>. USE DEF execVars
  <1>. DEFINE f == [b \in Attempts |-> ChildSeen(b)]
  <1>1. /\ UNCHANGED <<exec, job>> /\ Alive(a) /\ late \in BOOLEAN
        /\ child[a] \in {"verified", "failing"} /\ child' = [child EXCEPT ![a] = "reported"]
        /\ Finishable(record, a, FALSE)
    BY DEF Reports, ReportsFailure, From, ChildAlone, IInv, TypeOK
  <1>2. record'.attempt = record.attempt
    <2>1. PICK status, retryable, output, missed :
              record' = Finished(record, status, retryable, FALSE, output, missed)
      BY DEF Reports, ReportsFailure
    <2>2. record \in NodeRecord BY DEF IInv, TypeOK
    <2>. QED BY <2>1, <2>2 DEF Finished, NodeRecord
  <1>3. /\ SeenAs(a) = "claimed" /\ SeenAs(a)' = "reported" /\ ExecSeen' = ExecSeen
        /\ \A b \in Attempts : b # a => SeenAs(b)' = SeenAs(b)
    <2>1. child[a] \in Working \ {"waiting"} /\ "reported" \notin Working BY <1>1 DEF Working
    <2>. QED BY <1>1, <1>2, <2>1, MovesSeen
  <1>4. f' = [f EXCEPT ![a] = "reported"] /\ f[a] = "claimed" BY <1>3, ChildSeenIs
  <1>5. <<f>>[1][a] = "claimed" /\ <<f>>' = [<<f>> EXCEPT ![1][a] = "reported"]
    <2>1. <<f>>[1] = f /\ [<<f>> EXCEPT ![1][a] = "reported"] = <<[f EXCEPT ![a] = "reported"]>>
      BY OneNode
    <2>. QED BY <1>4, <2>1
  <1>6. <<record>>[1] = record BY OneNode
  <1>7. Seen!Finishable(<<record>>[1], a, FALSE) BY <1>1, <1>6 DEF Finishable, Seen!Finishable
  <1>8. UNCHANGED <<<<ExecSeen>>, "RUNNING", FALSE, <<TRUE>>>> BY <1>3
  <1>9. CASE Reports(a)
    <2>1. record' = Seen!Finished(record, "SUCCEEDED", FALSE, FALSE, <<1, a>>, late)
      BY <1>9 DEF Reports, Finished, Seen!Finished, NoOutput, Seen!NoOutput
    <2>2. <<record>>' = [<<record>> EXCEPT ![1] =
              Seen!Finished(<<record>>[1], "SUCCEEDED", FALSE, FALSE, <<1, a>>, late)]
      BY <1>6, <2>1, OneNode
    <2>3. Seen!ChildReports(1, a)
      BY <1>1, <1>5, <1>7, <1>8, <2>2 DEF Seen!ChildReports, Seen!SetChild, Seen!timeVars,
         Seen!loopVars
    <2>. QED BY <2>3 DEF Seen!Child
  <1>10. CASE ReportsFailure(a)
    <2>1. PICK status \in {"FAILED", "TIMED_OUT"}, retryable \in BOOLEAN :
              record' = Seen!Finished(record, status, retryable, FALSE, Seen!NoOutput, FALSE)
      BY <1>10 DEF ReportsFailure, Finished, Seen!Finished, NoOutput, Seen!NoOutput
    <2>2. <<record>>' = [<<record>> EXCEPT ![1] =
              Seen!Finished(<<record>>[1], status, retryable, FALSE, Seen!NoOutput, FALSE)]
      BY <1>6, <2>1, OneNode
    <2>3. Seen!ChildReports(1, a)
      BY <1>1, <1>5, <1>7, <1>8, <2>2 DEF Seen!ChildReports, Seen!SetChild, Seen!timeVars,
         Seen!loopVars
    <2>. QED BY <2>3 DEF Seen!Child
  <1>. QED BY <1>9, <1>10

(* A child that moves without writing to the store, or ends.               *)
LEMMA ChildSteps ==
    ASSUME IInv, IInv', NEW a \in Attempts,
           \/ ChecksInput(a) \/ Reads(a) \/ Writes(a) \/ Verifies(a) \/ Raises(a) \/ GivesUp(a)
    PROVE  Quiet \/ Seen!Child(1, a)
  <1>. USE DEF execVars, ChildAlone
  <1>1. UNCHANGED <<record, exec, job>> /\ Alive(a)
    BY DEF ChecksInput, Reads, Writes, Verifies, Raises, GivesUp, From, Working
  <1>2. CASE GivesUp(a)
    <2>1. /\ child[a] \in {"waiting", "failing"} /\ child' = [child EXCEPT ![a] = "over"]
          /\ record'.attempt = record.attempt /\ UNCHANGED <<exec, job>>
      BY <1>1, <1>2 DEF GivesUp, From
    <2>2. /\ SeenAs(a) # "none" /\ SeenAs(a)' = "none" /\ ExecSeen' = ExecSeen
          /\ \A b \in Attempts : b # a => SeenAs(b)' = SeenAs(b)
      <3>1. child[a] \in Working /\ "over" \notin Working BY <2>1 DEF Working
      <3>2. SeenAs(a) \in {"launched", "claimed"} BY <1>1, <2>1, <3>1, MovesSeen
      <3>3. SeenAs(a)' = "none" BY <1>1, <2>1, <3>1, MovesSeen
      <3>4. ExecSeen' = ExecSeen BY <1>1, <2>1, MovesSeen
      <3>5. \A b \in Attempts : b # a => SeenAs(b)' = SeenAs(b) BY <1>1, <2>1, MovesSeen
      <3>. QED BY <3>2, <3>3, <3>4, <3>5
    <2>. QED BY <1>1, <2>2, EndSeen
  <1>3. CASE ChecksInput(a) \/ Reads(a) \/ Writes(a) \/ Verifies(a) \/ Raises(a)
    <2>1. PICK there \in Working \ {"waiting"} :
              child[a] \in Working \ {"waiting"} /\ child' = [child EXCEPT ![a] = there]
      BY <1>3 DEF ChecksInput, Reads, Writes, Verifies, Raises, From, Working
    <2>2. SeenAs(a) = "claimed" /\ SeenAs(a)' = "claimed" /\ ExecSeen' = ExecSeen
      BY <1>1, <2>1, MovesSeen
    <2>3. \A b \in Attempts : b # a => SeenAs(b)' = SeenAs(b) BY <1>1, <2>1, MovesSeen
    <2>4. Quiet BY <1>1, <2>2, <2>3, QuietIf
    <2>. QED BY <2>4
  <1>. QED BY <1>2, <1>3

(* The platform, which the store does not see.                             *)
LEMMA PlatformSeen ==
    ASSUME IInv, IInv', NEW a \in Attempts,
           TakesUp(a) \/ Drops(a) \/ Terminates(a) \/ JobEnds(a)
    PROVE  Quiet \/ Seen!Child(1, a)
  <1>. USE DEF storeVars, execVars, PlatformAlone
  <1>1. UNCHANGED <<record, exec>> /\ ExecSeen' = ExecSeen
    BY DEF TakesUp, Drops, Terminates, JobEnds, ExecSeen
  <1>2. \A b \in Attempts : b # a => job'[b] = job[b] /\ child'[b] = child[b]
    BY DEF TakesUp, Drops, Terminates, JobEnds, Starts, EndsJob, IInv, TypeOK
  <1>3. \A b \in Attempts : b # a => SeenAs(b)' = SeenAs(b)
    BY <1>1, <1>2 DEF SeenAs, Alive
  <1>4. job[a] # "none" /\ ~(exec = "starting" /\ a = record.attempt)
    BY DEF TakesUp, Drops, Terminates, JobEnds, Alive, IInv, SettledOK
  <1>5. CASE TakesUp(a) \/ Terminates(a)
    <2>1. SeenAs(a)' = SeenAs(a)
      BY <1>1, <1>4, <1>5 DEF TakesUp, Terminates, Starts, SeenAs, Alive, IInv, TypeOK
    <2>. QED BY <1>1, <1>3, <2>1, QuietIf
  <1>6. CASE Drops(a) \/ JobEnds(a)
    <2>1. SeenAs(a)' = "none"
      BY <1>1, <1>4, <1>6 DEF Drops, JobEnds, EndsJob, SeenAs, Alive, IInv, TypeOK
    <2>2. CASE SeenAs(a) = "none" BY <1>1, <1>3, <2>1, <2>2, QuietIf
    <2>3. CASE SeenAs(a) # "none" BY <1>1, <1>3, <2>1, <2>3, EndSeen
    <2>. QED BY <2>2, <2>3
  <1>. QED BY <1>5, <1>6

(* The executor's thread.  What it starts was to be seen as launched, what *)
(* it does not start after all, or kills, is seen to end.                  *)
LEMMA BeginsSeen ==
    ASSUME IInv, IInv', Spawn \/ Submit \/ RunMultiple
    PROVE  Quiet
  <1>. USE DEF storeVars
  <1>. DEFINE c == record.attempt
  <1>1. c \in Attempts BY Typed
  <1>2. /\ record' = record /\ exec = "starting"
        /\ exec' \in {"communicating", "submitting", "running"}
    BY DEF Spawn, Submit, RunMultiple
  <1>3. ExecSeen' = ExecSeen BY <1>2 DEF ExecSeen
  <1>4. job[c] = "none" BY <1>1, <1>2 DEF IInv, SettledOK
  <1>5. /\ \A b \in Attempts : b # c => job'[b] = job[b] /\ child'[b] = child[b]
        /\ job'[c] = "sent" \/ (job'[c] = "active" /\ child'[c] = "waiting")
    BY <1>1, <1>4 DEF Spawn, Submit, RunMultiple, Starts, Requests, Token, workVars, IInv, TypeOK
  <1>6. \A b \in Attempts : SeenAs(b)' = SeenAs(b)
    BY <1>1, <1>2, <1>5 DEF SeenAs, Alive
  <1>. QED BY <1>2, <1>3, <1>6, QuietIf

LEMMA GoesOnSeen ==
    ASSUME IInv, IInv', record' = record, job' = job, child' = child,
           exec \notin {"idle", "repeating", "done"}, exec' \notin {"idle", "repeating", "done"},
           exec' # "starting"
    PROVE  Quiet \/ \E a \in Attempts : Seen!Child(1, a)
  <1>. DEFINE c == record.attempt
  <1>1. c \in Attempts BY Typed
  <1>2. ExecSeen' = ExecSeen BY DEF ExecSeen
  <1>3. \A b \in Attempts : b # c => SeenAs(b)' = SeenAs(b) BY DEF SeenAs, Alive
  <1>4. CASE exec # "starting"
    <2>1. SeenAs(c)' = SeenAs(c) BY <1>4 DEF SeenAs, Alive
    <2>. QED BY <1>1, <1>2, <1>3, <2>1, QuietIf
  <1>5. CASE exec = "starting"
    <2>1. SeenAs(c) = "launched" BY <1>5 DEF SeenAs
    <2>2. job[c] = "none" BY <1>1, <1>5 DEF IInv, SettledOK
    <2>3. SeenAs(c)' = "none" BY <2>2 DEF SeenAs, Alive
    <2>. QED BY <1>1, <1>2, <1>3, <2>1, <2>3, EndSeen
  <1>. QED BY <1>4, <1>5

LEMMA KillSeen ==
    ASSUME IInv, IInv', Kill
    PROVE  Quiet \/ \E a \in Attempts : Seen!Child(1, a)
  <1>. USE DEF storeVars
  <1>. DEFINE c == record.attempt
  <1>1. c \in Attempts BY Typed
  <1>2. record' = record /\ exec = "communicating" /\ exec' = "settling" /\ EndsJob(c)
    BY DEF Kill, Concludes
  <1>3. ExecSeen' = ExecSeen BY <1>2 DEF ExecSeen
  <1>4. \A b \in Attempts : b # c => SeenAs(b)' = SeenAs(b)
    BY <1>1, <1>2 DEF EndsJob, SeenAs, Alive, IInv, TypeOK
  <1>5. SeenAs(c)' = "none"
    BY <1>1, <1>2 DEF EndsJob, SeenAs, Alive, IInv, TypeOK
  <1>6. CASE SeenAs(c) = "none" BY <1>2, <1>3, <1>4, <1>5, <1>6, QuietIf
  <1>7. CASE SeenAs(c) # "none" BY <1>1, <1>2, <1>3, <1>4, <1>5, <1>7, EndSeen
  <1>. QED BY <1>6, <1>7

LEMMA CancelSeen ==
    ASSUME IInv, IInv', Cancel \/ CallRaises
    PROVE  Quiet
  <1>. USE DEF storeVars, workVars
  <1>1. /\ record' = record /\ child' = child
        /\ exec \in {"recording", "polling", "confirming"} /\ exec' \in {"confirming", "settling"}
    BY DEF Cancel, CallRaises, Concludes
  <1>2. ExecSeen' = ExecSeen BY <1>1 DEF ExecSeen
  <1>3. \A b \in Attempts : \/ job'[b] = job[b]
                            \/ job[b] = "active" /\ job'[b] = "terminating"
    <2>1. job' = job \/ Cancels(watched) BY DEF Cancel, CallRaises
    <2>2. watched \in Attempts BY <1>1, Typed DEF IInv, RemoteRunIsAttempts
    <2>. QED BY <2>1, <2>2 DEF Cancels, IInv, TypeOK
  <1>4. \A b \in Attempts : SeenAs(b)' = SeenAs(b) BY <1>1, <1>3 DEF SeenAs, Alive
  <1>. QED BY <1>1, <1>2, <1>4, QuietIf

LEMMA AsideSeen ==
    ASSUME IInv, IInv', UNCHANGED <<record, exec, job, child>>
    PROVE  Quiet
  <1>1. ExecSeen' = ExecSeen BY DEF ExecSeen
  <1>2. \A b \in Attempts : SeenAs(b)' = SeenAs(b) BY DEF SeenAs, Alive
  <1>. QED BY <1>1, <1>2, QuietIf

LEMMA StepSeen ==
    IInv /\ SeenInv /\ [Next]_vars =>
        [\/ Dispatch \/ Reap \/ Retry
         \/ exec' = "raised"
         \/ UNCHANGED <<record, ExecSeen, [a \in Attempts |-> ChildSeen(a)]>>
         \/ Seen!ExecutorSettles(1)
         \/ platform # "local" /\ Seen!ExecutorGivesUp(1)
         \/ \E a \in Attempts : Seen!Child(1, a)]_vars
  <1>. DEFINE Shown == \/ Quiet
                       \/ Seen!ExecutorSettles(1) \/ (platform # "local" /\ Seen!ExecutorGivesUp(1))
                       \/ \E a \in Attempts : Seen!Child(1, a)
  <1>. SUFFICES ASSUME IInv, SeenInv, Next, ~(Dispatch \/ Reap \/ Retry), exec' # "raised"
                PROVE  Shown
    BY DEF Quiet
  <1>. USE DEF storeVars, execVars, workVars, ThreadAlone
  <1>1. IInv' BY StepInvariant
  <1>. HIDE DEF Shown
  <1>2. CASE Deadline \/ SourceChanges
    BY <1>1, <1>2, AsideSeen DEF Deadline, SourceChanges, Shown
  <1>3. CASE Settle
    <2>1. CASE exec = "repeating"
      <3>1. record' = record /\ ExecSeen' = ExecSeen /\ UNCHANGED <<job, child>>
        BY <1>3, <2>1 DEF Settle, ExecSeen
      <3>2. \A b \in Attempts : SeenAs(b)' = SeenAs(b)
        BY <1>3, <2>1, <3>1 DEF Settle, SeenAs, Alive
      <3>. QED BY <1>1, <3>1, <3>2, QuietIf DEF Shown
    <2>2. CASE exec # "repeating"
      <3>1. /\ exec \in {"concluding", "settling"} /\ exec' = "done"
            /\ record' = FailedRecord /\ UNCHANGED <<job, child>>
        BY <1>3, <2>2 DEF Settle
      <3>. QED BY <1>1, <3>1, SettleSeen DEF Shown
    <2>. QED BY <2>1, <2>2
  <1>4. CASE SettleRaises
    <2>1. CASE exec' = "settling"
      <3>1. /\ exec = "concluding" /\ record' = record /\ UNCHANGED <<job, child>>
        BY <1>4, <2>1 DEF SettleRaises
      <3>. QED BY <1>1, <2>1, <3>1, GoesOnSeen DEF Shown
    <2>2. CASE exec' = "repeating"
      <3>1. exec = "concluding" /\ record' = FailedRecord /\ UNCHANGED <<job, child>>
        BY <1>4, <2>2 DEF SettleRaises
      <3>. QED BY <1>1, <2>2, <3>1, SettleSeen DEF Shown
    <2>. QED BY <1>4, <2>1, <2>2 DEF SettleRaises
  <1>5. CASE Spawn \/ Submit \/ RunMultiple BY <1>1, <1>5, BeginsSeen DEF Shown
  <1>6. CASE Kill BY <1>1, <1>6, KillSeen DEF Shown
  <1>7. CASE Cancel \/ CallRaises BY <1>1, <1>7, CancelSeen DEF Shown
  <1>8. CASE \/ ProcessEnded \/ MissingCluster \/ Submitted \/ SubmissionRaises \/ RecordRemote
             \/ PollFindsEnd \/ EndConfirmed \/ GraceElapses \/ FabricReturns
    <2>1. /\ UNCHANGED <<record, job, child>>
          /\ exec \in {"communicating", "starting", "submitting", "recording", "polling",
                       "confirming", "running"}
          /\ exec' \in {"settling", "recording", "polling", "concluding"}
      BY <1>8 DEF ProcessEnded, MissingCluster, Submitted, SubmissionRaises, RecordRemote,
         PollFindsEnd, EndConfirmed, GraceElapses, FabricReturns, Concludes
    <2>. QED BY <1>1, <2>1, GoesOnSeen DEF Shown
  <1>9. ASSUME NEW a \in Attempts, Worker(a) PROVE Shown
    <2>1. CASE TakesUp(a) \/ Drops(a) \/ Terminates(a) \/ JobEnds(a)
      BY <1>1, <2>1, PlatformSeen DEF Shown
    <2>2. CASE Claims(a) BY <1>1, <2>2, ClaimSeen DEF Shown
    <2>3. CASE Reports(a) \/ ReportsFailure(a) BY <1>1, <2>3, ReportSeen DEF Shown
    <2>4. CASE ChecksInput(a) \/ Reads(a) \/ Writes(a) \/ Verifies(a) \/ Raises(a) \/ GivesUp(a)
      BY <1>1, <2>4, ChildSteps DEF Shown
    <2>. QED BY <1>9, <2>1, <2>2, <2>3, <2>4 DEF Worker
  <1>10. CASE SpawnFails BY <1>10 DEF SpawnFails
  <1>. QED
    BY <1>2, <1>3, <1>4, <1>5, <1>6, <1>7, <1>8, <1>9, <1>10 DEF Next, Executor

(* Until a thread raises, the executors, their platforms and the children  *)
(* only take the steps of Scheduler: an executor settles for certain only  *)
(* an attempt whose child has stopped, and only a remote one gives up      *)
(* (executors.py, run_child).                                              *)
THEOREM AttemptsAreScheduled == Spec => OnlySchedulerSteps
  BY InitInvariant, StepInvariant, SeenInit, SeenStep, StepSeen, PTL DEF Spec, OnlySchedulerSteps
=============================================================================
