------------------------------ MODULE DeltaLog ------------------------------
(***************************************************************************)
(* The Delta event log of one scope (DeltaEvents in                        *)
(* src/spark_dag/control_store.py) and the control lease that serialises   *)
(* its transactions (DataLakeFileLease in src/spark_dag/leases.py).        *)
(*                                                                         *)
(* The table accepts any append: nothing in it keeps two rows from having  *)
(* one sequence number.  An append may land late, or land without its      *)
(* acknowledgement; a lease call may fail or lose its answer; a driver may *)
(* die anywhere.  Leases are infinite, so one that nobody can release any  *)
(* more is `Orphan' until an operator, having stopped every writer, breaks *)
(* it.                                                                     *)
(*                                                                         *)
(* ReadRemembered, RememberedEarly and UnacknowledgedReleases are faults a *)
(* change of the code could bring in; no action uses them.                 *)
(***************************************************************************)
EXTENDS Integers, Sequences

CONSTANTS Threads,   \* the threads that call the store
          Drivers,   \* the processes they run in, each with one DeltaEvents
          DriverOf,  \* thread -> its driver
          Batches,   \* the kinds of the events one transaction may put, in order
          MaxRows,   \* bound on the rows of the table
          Free, Orphan, Unread

ASSUME DriverAssumption == DriverOf \in [Threads -> Drivers]
ASSUME BatchAssumption ==
    \A batch \in Batches : batch \in Seq(STRING) /\ batch # << >>
ASSUME LeaseAssumption == Free # Orphan /\ Free \notin Threads /\ Orphan \notin Threads
ASSUME MaxRowsAssumption == MaxRows \in Nat

VARIABLES table,     \* the rows, in the order of their commits
          cache,     \* driver -> the history it remembers (_event_cache)
          lease,     \* Free, Orphan, or the thread whose guard holds the control lease
          phase,     \* thread -> where its transaction is
          history,   \* thread -> the events its transaction acts on
          pending,   \* thread -> the rows its transaction put
          write,     \* thread -> its append: "none", "sent", or "landed" (not yet answered)
          outcome    \* thread -> how its last transaction ended

logVars == <<table, cache, lease, phase, history, pending, write, outcome>>

Row == [sequence : Nat \ {0}, kind : STRING, by : Threads]

ASSUME UnreadAssumption == Unread \notin Seq(Row)

LogPhases == {"idle", "locked", "acting", "checking", "writing", "remembering", "leaving"}

LogTypeOK ==
    /\ table \in Seq(Row)
    /\ cache \in [Drivers -> Seq(Row)]
    /\ lease \in Threads \cup {Free, Orphan}
    /\ phase \in [Threads -> LogPhases]
    /\ history \in [Threads -> Seq(Row)]
    /\ pending \in [Threads -> Seq(Row)]
    /\ write \in [Threads -> {"none", "sent", "landed"}]
    /\ outcome \in [Threads -> {"none", "returned", "raised"}]

LogInit ==
    /\ table = << >>
    /\ cache = [d \in Drivers |-> << >>]
    /\ lease = Free
    /\ phase = [t \in Threads |-> "idle"]
    /\ history = [t \in Threads |-> << >>]
    /\ pending = [t \in Threads |-> << >>]
    /\ write = [t \in Threads |-> "none"]
    /\ outcome = [t \in Threads |-> "none"]

-----------------------------------------------------------------------------
RowsOf(rows) == {rows[i] : i \in DOMAIN rows}

(* _read_after: the rows past the last remembered sequence number. *)
ReadAfter(sequence) == {row \in RowsOf(table) : row.sequence > sequence}

(* _remember accepts rows that repeat what is remembered and rows that     *)
(* continue it; anything else is AUDIT_CORRUPTION.                         *)
Continues(cached, rows) ==
    /\ \A row \in rows : row.sequence <= Len(cached) => cached[row.sequence] = row
    /\ \A row, other \in rows : row.sequence = other.sequence => row = other
    /\ \A row \in rows : row.sequence > Len(cached) + 1 =>
           \E other \in rows : other.sequence = row.sequence - 1

Extent(cached, rows) ==
    LET ends == {Len(cached)} \cup {row.sequence : row \in rows}
    IN  CHOOSE last \in ends : \A other \in ends : other <= last

Remembered(cached, rows) ==
    [i \in 1..Extent(cached, rows) |->
        IF i <= Len(cached) THEN cached[i] ELSE CHOOSE row \in rows : row.sequence = i]

Numbered(t, batch, after) ==
    [i \in 1..Len(batch) |-> [sequence |-> after + i, kind |-> batch[i], by |-> t]]

Goto(t, to) == phase' = [phase EXCEPT ![t] = to]
Ends(t, how) == outcome' = [outcome EXCEPT ![t] = how]
Retained(t) == IF lease = t THEN Orphan ELSE lease

InProgress == {t \in Threads : phase[t] # "idle"}
Unsettled  == {t \in Threads : write[t] = "sent"}

(* What the transaction read and put matters until its append is settled. *)
Forgets(threads) ==
    /\ history' = [t \in Threads |-> IF t \in threads THEN << >> ELSE history[t]]
    /\ pending' = [t \in Threads |-> IF t \in threads THEN << >> ELSE pending[t]]

-----------------------------------------------------------------------------
(* The lease service answers one caller at a time; the answer may be lost. *)
Acquire(t) ==
    /\ phase[t] = "idle" /\ lease = Free
    /\ lease' = t
    /\ Goto(t, "locked") /\ Ends(t, "none")
    /\ UNCHANGED <<table, cache, history, pending, write>>

AcquireUnanswered(t) ==
    /\ phase[t] = "idle" /\ lease = Free
    /\ lease' = Orphan
    /\ Ends(t, "raised")
    /\ UNCHANGED <<table, cache, phase, history, pending, write>>

(* Another thread holds the lease until the wait is over: CollisionError.  *)
AcquireRefused(t) ==
    /\ phase[t] = "idle" /\ lease # Free
    /\ Ends(t, "raised")
    /\ UNCHANGED <<table, cache, lease, phase, history, pending, write>>

ReadRemembered(t) ==
    /\ phase[t] = "locked"
    /\ history' = [history EXCEPT ![t] = cache[DriverOf[t]]]
    /\ Goto(t, "acting")
    /\ UNCHANGED <<table, cache, lease, pending, write, outcome>>

(* events(): under the driver's cache lock, the suffix of the table is     *)
(* read and remembered, and the transaction acts on a copy of the cache.   *)
(* Corruption ends it before it acts.                                      *)
Read(t) ==
    LET d    == DriverOf[t]
        rows == ReadAfter(Len(cache[d]))
        now  == Remembered(cache[d], rows)
    IN  /\ phase[t] = "locked"
        /\ IF Continues(cache[d], rows)
             THEN /\ cache' = [cache EXCEPT ![d] = now]
                  /\ history' = [history EXCEPT ![t] = now]
                  /\ Goto(t, "acting")
                  /\ UNCHANGED outcome
             ELSE /\ Goto(t, "leaving") /\ Ends(t, "raised")
                  /\ UNCHANGED <<cache, history>>
        /\ UNCHANGED <<table, lease, pending, write>>

(* view(): a read outside any transaction takes no lease. *)
Look(t) ==
    LET d    == DriverOf[t]
        rows == ReadAfter(Len(cache[d]))
    IN  /\ phase[t] = "idle"
        /\ Continues(cache[d], rows)
        /\ cache' = [cache EXCEPT ![d] = Remembered(@, rows)]
        /\ UNCHANGED <<table, lease, phase, history, pending, write, outcome>>

(* The action puts nothing: it returns without a change, or it raises. *)
PutNothing(t, how) ==
    /\ phase[t] = "acting"
    /\ Goto(t, "leaving") /\ Ends(t, how)
    /\ UNCHANGED <<table, cache, lease, history, pending, write>>

Put(t, batch) ==
    /\ phase[t] = "acting"
    /\ Len(history[t]) + Len(batch) <= MaxRows
    /\ pending' = [pending EXCEPT ![t] = Numbered(t, batch, Len(history[t]))]
    /\ Goto(t, "checking")
    /\ UNCHANGED <<table, cache, lease, history, write, outcome>>

RememberedEarly(t) ==
    /\ phase[t] = "checking" /\ lease = t
    /\ write' = [write EXCEPT ![t] = "sent"]
    /\ cache' = [cache EXCEPT ![DriverOf[t]] = Remembered(@, RowsOf(pending[t]))]
    /\ Goto(t, "writing")
    /\ UNCHANGED <<table, lease, history, pending, outcome>>

(* guard.check() renews the lease; then the append is sent. *)
SendAppend(t) ==
    /\ phase[t] = "checking" /\ lease = t
    /\ write' = [write EXCEPT ![t] = "sent"]
    /\ Goto(t, "writing")
    /\ UNCHANGED <<table, cache, lease, history, pending, outcome>>

CheckFails(t) ==
    /\ phase[t] = "checking"
    /\ Goto(t, "leaving") /\ Ends(t, "raised")
    /\ UNCHANGED <<table, cache, lease, history, pending, write>>

(* The storage service commits the append, or it never will; the thread    *)
(* that sent it may have gone on, or its driver may have died.             *)
Lands(t) ==
    /\ write[t] = "sent"
    /\ table' = table \o pending[t]
    /\ write' = [write EXCEPT ![t] = IF phase[t] = "writing" THEN "landed" ELSE "none"]
    /\ Forgets({t} \ InProgress)
    /\ UNCHANGED <<cache, lease, phase, outcome>>

IsLost(t) ==
    /\ write[t] = "sent"
    /\ write' = [write EXCEPT ![t] = "none"]
    /\ Forgets({t} \ InProgress)
    /\ UNCHANGED <<table, cache, lease, phase, outcome>>

Acknowledged(t) ==
    /\ phase[t] = "writing" /\ write[t] = "landed"
    /\ write' = [write EXCEPT ![t] = "none"]
    /\ Goto(t, "remembering") /\ Ends(t, "returned")
    /\ UNCHANGED <<table, cache, lease, history, pending>>

UnacknowledgedReleases(t) ==
    /\ phase[t] = "writing"
    /\ lease' = IF lease = t THEN Free ELSE lease
    /\ write' = [write EXCEPT ![t] = IF @ = "sent" THEN @ ELSE "none"]
    /\ Goto(t, "idle") /\ Ends(t, "raised")
    /\ Forgets({t} \ Unsettled)
    /\ UNCHANGED <<table, cache>>

(* The call fails, whatever became of the append: the lease is retained.   *)
Unacknowledged(t) ==
    /\ phase[t] = "writing"
    /\ lease' = Retained(t)
    /\ write' = [write EXCEPT ![t] = IF @ = "sent" THEN @ ELSE "none"]
    /\ Goto(t, "idle") /\ Ends(t, "raised")
    /\ Forgets({t} \ Unsettled)
    /\ UNCHANGED <<table, cache>>

(* Another thread of the driver may have read the rows back already.       *)
(* Corruption found here comes after the write: the lease is retained.     *)
Remember(t) ==
    LET d == DriverOf[t]
    IN  /\ phase[t] = "remembering"
        /\ IF Continues(cache[d], RowsOf(pending[t]))
             THEN /\ cache' = [cache EXCEPT ![d] = Remembered(@, RowsOf(pending[t]))]
                  /\ Goto(t, "leaving")
                  /\ UNCHANGED <<lease, outcome>>
             ELSE /\ lease' = Retained(t)
                  /\ Goto(t, "idle") /\ Ends(t, "raised")
                  /\ UNCHANGED cache
        /\ UNCHANGED <<table, history, pending, write>>

Release(t) ==
    /\ phase[t] = "leaving"
    /\ lease' = IF lease = t THEN Free ELSE lease
    /\ Goto(t, "idle") /\ Forgets({t})
    /\ UNCHANGED <<table, cache, write, outcome>>

(* The caller sees the failure, although its events are committed. *)
ReleaseFails(t) ==
    /\ phase[t] = "leaving"
    /\ lease' = Retained(t)
    /\ Goto(t, "idle") /\ Ends(t, "raised") /\ Forgets({t})
    /\ UNCHANGED <<table, cache, write>>

(* clear_cache, when a run starts: its threads are new ones. *)
ClearCache(d) ==
    LET its == {t \in Threads : DriverOf[t] = d}
    IN  /\ \A t \in its : phase[t] = "idle"
        /\ cache' = [cache EXCEPT ![d] = << >>]
        /\ outcome' = [t \in Threads |-> IF t \in its THEN "none" ELSE outcome[t]]
        /\ UNCHANGED <<table, lease, phase, history, pending, write>>

(* The driver dies and another takes its place; what it sent is on its way.*)
DriverDies(d) ==
    LET its == {t \in Threads : DriverOf[t] = d}
    IN  /\ cache' = [cache EXCEPT ![d] = << >>]
        /\ lease' = IF lease \in its THEN Orphan ELSE lease
        /\ phase' = [t \in Threads |-> IF t \in its THEN "idle" ELSE phase[t]]
        /\ write' = [t \in Threads |->
                        IF t \in its /\ write[t] = "landed" THEN "none" ELSE write[t]]
        /\ outcome' = [t \in Threads |-> IF t \in its THEN "none" ELSE outcome[t]]
        /\ Forgets(its \ Unsettled)
        /\ UNCHANGED table

(* The operator has proved that no writer is left. *)
Quiet == InProgress = {} /\ Unsettled = {}

BreakLease ==
    /\ lease = Orphan /\ Quiet
    /\ lease' = Free
    /\ UNCHANGED <<table, cache, phase, history, pending, write, outcome>>

-----------------------------------------------------------------------------
(* What a thread does until its caller hears of the transaction, where the *)
(* caller has no say.                                                      *)
LogStep(t) ==
    \/ Read(t) \/ SendAppend(t) \/ CheckFails(t) \/ Acknowledged(t) \/ Unacknowledged(t)
    \/ Remember(t) \/ Release(t) \/ ReleaseFails(t)

Storage(t) == Lands(t) \/ IsLost(t)

LogNext ==
    \/ \E t \in Threads :
           \/ Acquire(t) \/ AcquireUnanswered(t) \/ AcquireRefused(t) \/ Look(t)
           \/ \E how \in {"returned", "raised"} : PutNothing(t, how)
           \/ \E batch \in Batches : Put(t, batch)
           \/ LogStep(t) \/ Storage(t)
    \/ \E d \in Drivers : ClearCache(d) \/ DriverDies(d)
    \/ BreakLease

LogSpec == LogInit /\ [][LogNext]_logVars

-----------------------------------------------------------------------------
(* The sequence numbers of the scope have no gap and no duplicate, although *)
(* nothing in the table enforces it and appends may land unacknowledged    *)
(* after their writer has died (DeltaEvents.transaction).                  *)
Gapless == \A i \in DOMAIN table : table[i].sequence = i

(* What a driver remembers is always a prefix of what is committed, though *)
(* its threads extend the cache in two places (a read, and their own       *)
(* append once it is acknowledged) and only one of them holds the lease    *)
(* (DeltaEvents.events, DeltaEvents._remember).                            *)
CachesArePrefixes ==
    \A d \in Drivers :
        /\ Len(cache[d]) <= Len(table)
        /\ \A i \in DOMAIN cache[d] : cache[d][i] = table[i]

-----------------------------------------------------------------------------
(* The refinement mapping: a transaction is open from its read until its   *)
(* caller is told, or until its append can no longer land.                 *)
InTransaction(t) == phase[t] \in {"acting", "checking", "writing"} \/ write[t] = "sent"

Log == INSTANCE EventLog WITH
           Clients <- Threads,
           log     <- table,
           basis   <- [t \in Threads |-> IF InTransaction(t) THEN history[t] ELSE Unread]

(* Every transaction appends, once, to exactly the history it has read     *)
(* (DeltaEvents.transaction).                                              *)
ImplementsEventLog == Log!Spec
=============================================================================
