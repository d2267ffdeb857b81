--------------------------- MODULE DeltaLogProofs ---------------------------
(***************************************************************************)
(* Theorems about DeltaLog, for every set of threads, drivers and batches. *)
(*                                                                         *)
(* The argument.  A thread in a transaction holds the control lease, and   *)
(* an append that may still land has its lease held or orphaned: so there  *)
(* is at most one, and what its transaction read is still the whole table  *)
(* when it lands.  A driver's cache is extended by a window of the table   *)
(* that begins no later than where the cache ends, which yields a prefix   *)
(* of the table again.                                                     *)
(***************************************************************************)
EXTENDS DeltaLog, SequenceTheorems, TLAPS

Inside == {"acting", "checking", "writing", "remembering"}

HolderInv == \A t \in Threads : phase[t] # "idle" => lease = t

WriterInv ==
    \A t \in Threads :
        /\ write[t] = "sent" => lease \in {t, Orphan} /\ phase[t] \in {"idle", "writing"}
        /\ write[t] = "landed" => phase[t] = "writing"

OneWriter ==
    \A t, u \in Threads : write[t] = "sent" /\ write[u] = "sent" => t = u

BasisInv ==
    \A t \in Threads :
        phase[t] \in {"acting", "checking"} \/ write[t] = "sent" => history[t] = table

PendingInv ==
    \A t \in Threads :
        phase[t] \in {"checking", "writing", "remembering"} \/ write[t] = "sent" =>
            \A i \in DOMAIN pending[t] : pending[t][i].sequence = Len(history[t]) + i

CommittedInv ==
    \A t \in Threads :
        phase[t] = "remembering" \/ write[t] = "landed" =>
            /\ Len(history[t]) + Len(pending[t]) <= Len(table)
            /\ \A i \in DOMAIN pending[t] : table[Len(history[t]) + i] = pending[t][i]

CachedInv ==
    \A t \in Threads : phase[t] \in Inside => Len(history[t]) <= Len(cache[DriverOf[t]])

IInv ==
    /\ LogTypeOK
    /\ HolderInv /\ WriterInv /\ OneWriter
    /\ BasisInv /\ PendingInv /\ CommittedInv /\ CachedInv
    /\ Gapless /\ CachesArePrefixes

-----------------------------------------------------------------------------
Prefix(n) == [i \in 1..n |-> table[i]]
Rows(a, b) == {table[j] : j \in (a + 1)..b}

IsLog == table \in Seq(Row) /\ Gapless

IsPrefix(c) ==
    c \in Seq(Row) /\ Len(c) <= Len(table) /\ \A i \in 1..Len(c) : c[i] = table[i]

LEMMA RowsOfLog ==
    ASSUME IsLog, NEW a \in Nat, NEW b \in Nat, b <= Len(table)
    PROVE  /\ \A j \in (a + 1)..b : table[j] \in Rows(a, b) /\ table[j].sequence = j
           /\ \A row \in Rows(a, b) :
                  row.sequence \in (a + 1)..b /\ row = table[row.sequence]
  <1>1. \A j \in (a + 1)..b : table[j].sequence = j BY DEF IsLog, Gapless
  <1>. QED BY <1>1 DEF Rows

(* Remembering rows of the table that begin no later than where the cache  *)
(* ends never finds corruption, and makes the cache a longer prefix.       *)
LEMMA WindowContinues ==
    ASSUME IsLog, NEW c, IsPrefix(c),
           NEW a \in Nat, a <= Len(c), NEW b \in Nat, b <= Len(table)
    PROVE  Continues(c, Rows(a, b))
  <1> DEFINE rows == Rows(a, b)
  <1>1. Len(c) \in Nat /\ Len(table) \in Nat BY DEF IsPrefix, IsLog
  <1>2. /\ \A j \in (a + 1)..b : table[j] \in rows /\ table[j].sequence = j
        /\ \A row \in rows : row.sequence \in (a + 1)..b /\ row = table[row.sequence]
    BY RowsOfLog
  <1> HIDE DEF rows
  <1>3. ASSUME NEW row \in rows, row.sequence <= Len(c) PROVE c[row.sequence] = row
    BY <1>1, <1>2, <1>3 DEF IsPrefix
  <1>4. ASSUME NEW row \in rows, NEW other \in rows, row.sequence = other.sequence
        PROVE  row = other
    BY <1>2, <1>4
  <1>5. ASSUME NEW row \in rows, row.sequence > Len(c) + 1
        PROVE  \E other \in rows : other.sequence = row.sequence - 1
    <2>1. row.sequence \in (a + 1)..b BY <1>2
    <2>2. row.sequence - 1 \in (a + 1)..b BY <1>1, <1>5, <2>1
    <2>. QED BY <1>2, <2>2
  <1>. QED BY <1>3, <1>4, <1>5 DEF Continues, rows

LEMMA WindowRemembered ==
    ASSUME IsLog, NEW c, IsPrefix(c),
           NEW a \in Nat, a <= Len(c), NEW b \in Nat, b <= Len(table)
    PROVE  \E last \in Nat :
               /\ last <= Len(table) /\ Len(c) <= last /\ b <= last
               /\ Remembered(c, Rows(a, b)) = Prefix(last)
  <1> DEFINE rows == Rows(a, b)
             ends == {Len(c)} \cup {row.sequence : row \in rows}
  <1>1. Len(c) \in Nat /\ Len(table) \in Nat /\ Len(c) <= Len(table)
    BY DEF IsPrefix, IsLog
  <1>2. /\ \A j \in (a + 1)..b : table[j] \in rows /\ table[j].sequence = j
        /\ \A row \in rows : row.sequence \in (a + 1)..b /\ row = table[row.sequence]
    BY RowsOfLog
  <1> HIDE DEF rows
  <1>3. PICK last \in Nat :
            /\ last <= Len(table) /\ Len(c) <= last /\ b <= last
            /\ last = b \/ last = Len(c)
    <2>1. CASE b <= Len(c) BY <1>1, <2>1
    <2>2. CASE Len(c) <= b BY <1>1, <2>2
    <2>. QED BY <1>1, <2>1, <2>2
  <1>4. Extent(c, rows) = last
    <2>1. \A e \in ends : e \in Nat /\ e <= last BY <1>1, <1>2, <1>3
    <2>2. last \in ends
      <3>1. CASE last = Len(c) BY <3>1
      <3>2. CASE last = b /\ last # Len(c)
        <4>1. b \in (a + 1)..b BY <1>1, <1>3, <3>2
        <4>. QED BY <1>2, <3>2, <4>1
      <3>. QED BY <1>3, <3>1, <3>2
    <2> HIDE DEF ends
    <2>3. ASSUME NEW e \in ends, \A other \in ends : other <= e
          PROVE  e = last
      <3>1. last <= e BY <2>2, <2>3
      <3>2. e <= last /\ e \in Nat BY <2>1
      <3>. QED BY <3>1, <3>2
    <2>4. (CHOOSE e \in ends : \A other \in ends : other <= e) = last
      BY <2>1, <2>2, <2>3
    <2>. QED BY <2>4 DEF Extent, ends
  <1> DEFINE entry(i) ==
                 IF i <= Len(c) THEN c[i] ELSE CHOOSE row \in rows : row.sequence = i
  <1>5. ASSUME NEW i \in 1..last PROVE entry(i) = table[i]
    <2>1. CASE i <= Len(c) BY <1>1, <2>1 DEF IsPrefix
    <2>2. CASE ~(i <= Len(c))
      <3>1. i \in (a + 1)..b BY <1>1, <1>3, <2>2
      <3>2. table[i] \in rows /\ table[i].sequence = i BY <1>2, <3>1
      <3>3. \A row \in rows : row.sequence = i => row = table[i] BY <1>2
      <3>. QED BY <2>2, <3>2, <3>3
    <2>. QED BY <2>1, <2>2
  <1>6. Remembered(c, rows) = [i \in 1..last |-> entry(i)]
    BY <1>4 DEF Remembered
  <1> HIDE DEF entry
  <1>7. Remembered(c, rows) = Prefix(last) BY <1>5, <1>6 DEF Prefix
  <1>. QED BY <1>3, <1>7 DEF rows

LEMMA PrefixIsPrefix ==
    ASSUME IsLog, NEW n \in Nat, n <= Len(table)
    PROVE  /\ IsPrefix(Prefix(n)) /\ Len(Prefix(n)) = n
           /\ n = Len(table) => Prefix(n) = table
  <1>1. \A i \in 1..n : table[i] \in Row BY DEF IsLog
  <1>2. Prefix(n) \in Seq(Row) /\ Len(Prefix(n)) = n BY <1>1 DEF Prefix
  <1>3. \A i \in 1..n : Prefix(n)[i] = table[i] BY DEF Prefix
  <1>4. n = Len(table) => Prefix(n) = table BY <1>2, <1>3, SeqEqual DEF IsLog
  <1>. QED BY <1>2, <1>3, <1>4 DEF IsPrefix

-----------------------------------------------------------------------------
LEMMA InitInvariant == LogInit => IInv
  BY DriverAssumption DEF LogInit, IInv, LogTypeOK, LogPhases, HolderInv, WriterInv, OneWriter,
     BasisInv, PendingInv, CommittedInv, CachedInv, Inside, Gapless, CachesArePrefixes

(* A step of the lease, or one that ends a transaction before its append. *)
LEMMA QuietStep ==
    ASSUME IInv,
           \/ \E t \in Threads :
                  \/ Acquire(t) \/ AcquireUnanswered(t) \/ AcquireRefused(t)
                  \/ PutNothing(t, "returned") \/ PutNothing(t, "raised") \/ CheckFails(t)
           \/ BreakLease
    PROVE  IInv'
  <1> USE DEF IInv, Acquire, AcquireUnanswered, AcquireRefused, PutNothing, CheckFails,
          BreakLease, Goto, Ends, Quiet, InProgress, Unsettled
  <1>1. LogTypeOK' BY LeaseAssumption DEF LogTypeOK, LogPhases
  <1>2. HolderInv' BY LeaseAssumption DEF LogTypeOK, HolderInv
  <1>3. WriterInv' BY LeaseAssumption DEF LogTypeOK, WriterInv
  <1>4. UNCHANGED <<table, cache, history, pending, write>> OBVIOUS
  <1>5. \A u \in Threads : phase'[u] = phase[u] \/ phase'[u] \in {"locked", "leaving"}
    BY DEF LogTypeOK
  <1>6. BasisInv' BY <1>4, <1>5 DEF BasisInv
  <1>7. PendingInv' BY <1>4, <1>5 DEF PendingInv
  <1>8. CommittedInv' BY <1>4, <1>5, Zenon DEF CommittedInv
  <1>9. CachedInv' BY <1>4, <1>5 DEF CachedInv, Inside
  <1>10. OneWriter' /\ Gapless' /\ CachesArePrefixes'
    BY <1>4 DEF OneWriter, Gapless, CachesArePrefixes
  <1>. QED BY <1>1, <1>2, <1>3, <1>6, <1>7, <1>8, <1>9, <1>10

(* What is remembered after such rows becomes a longer prefix, which no    *)
(* transaction that is under way minds.                                    *)
LEMMA CacheStep ==
    ASSUME IInv, NEW d \in Drivers, NEW a \in Nat, a <= Len(cache[d]),
           NEW b \in Nat, b <= Len(table),
           UNCHANGED table, cache' = [cache EXCEPT ![d] = Remembered(@, Rows(a, b))]
    PROVE  /\ Continues(cache[d], Rows(a, b))
           /\ cache' \in [Drivers -> Seq(Row)]
           /\ CachesArePrefixes'
           /\ \A e \in Drivers : Len(cache[e]) <= Len(cache'[e])
           /\ b <= Len(cache'[d])
           /\ b = Len(table) => cache'[d] = table
  <1>1. /\ IsLog /\ cache \in [Drivers -> Seq(Row)]
        /\ \A e \in Drivers : IsPrefix(cache[e]) /\ Len(cache[e]) \in Nat
    BY DEF IInv, LogTypeOK, CachesArePrefixes, IsLog, IsPrefix
  <1>2. Len(table) \in Nat BY DEF IInv, LogTypeOK
  <1>3. Continues(cache[d], Rows(a, b)) BY <1>1, WindowContinues
  <1>4. PICK last \in Nat :
            /\ last <= Len(table) /\ Len(cache[d]) <= last /\ b <= last
            /\ Remembered(cache[d], Rows(a, b)) = Prefix(last)
    BY <1>1, WindowRemembered
  <1>5. /\ IsPrefix(Prefix(last)) /\ Len(Prefix(last)) = last
        /\ last = Len(table) => Prefix(last) = table
    BY <1>1, <1>4, PrefixIsPrefix
  <1>6. cache' = [cache EXCEPT ![d] = Prefix(last)] BY <1>4
  <1>7. Prefix(last) \in Seq(Row) BY <1>5 DEF IsPrefix
  <1>8. cache' \in [Drivers -> Seq(Row)] BY <1>1, <1>6, <1>7
  <1>9. \A e \in Drivers : cache'[e] = IF e = d THEN Prefix(last) ELSE cache[e]
    BY <1>1, <1>6
  <1>10. \A e \in Drivers : IsPrefix(cache'[e]) BY <1>1, <1>5, <1>9
  <1>11. CachesArePrefixes'
    <2>1. \A e \in Drivers : DOMAIN cache'[e] = 1..Len(cache'[e]) BY <1>8
    <2>2. \A e \in Drivers : /\ Len(cache'[e]) <= Len(table)
                             /\ \A i \in 1..Len(cache'[e]) : cache'[e][i] = table[i]
      BY <1>10 DEF IsPrefix
    <2>. QED BY <2>1, <2>2 DEF CachesArePrefixes
  <1>12. \A e \in Drivers : Len(cache[e]) <= Len(cache'[e])
    BY <1>1, <1>4, <1>5, <1>9
  <1>13. b <= Len(cache'[d]) BY <1>4, <1>5, <1>9
  <1>14. b = Len(table) => last = Len(table) BY <1>2, <1>4
  <1>. QED BY <1>3, <1>5, <1>8, <1>9, <1>11, <1>12, <1>13, <1>14

(* What a reader fetches are such rows. *)
LEMMA Suffix ==
    ASSUME IsLog, NEW n \in Nat
    PROVE  ReadAfter(n) = Rows(n, Len(table))
  BY DEF ReadAfter, RowsOf, Gapless, IsLog, Rows

LEMMA ReadStep ==
    ASSUME IInv, NEW t \in Threads, Read(t)
    PROVE  IInv'
  <1> DEFINE d == DriverOf[t]
             rows == ReadAfter(Len(cache[d]))
  <1>1. d \in Drivers /\ Len(cache[d]) \in Nat /\ Len(table) \in Nat
    BY DriverAssumption DEF IInv, LogTypeOK
  <1>2. rows = Rows(Len(cache[d]), Len(table))
    BY <1>1, Suffix DEF IsLog, IInv, LogTypeOK
  <1>3. /\ phase[t] = "locked"
        /\ UNCHANGED <<table, lease, pending, write>>
    BY DEF Read
  <1>4. CASE Continues(cache[d], rows)
    <2>1. /\ cache' = [cache EXCEPT ![d] = Remembered(@, rows)]
          /\ history' = [history EXCEPT ![t] = Remembered(cache[d], rows)]
          /\ phase' = [phase EXCEPT ![t] = "acting"] /\ UNCHANGED outcome
      BY <1>4, Zenon DEF Read, Goto
    <2> HIDE DEF d, rows
    <2>2. /\ cache' \in [Drivers -> Seq(Row)] /\ CachesArePrefixes'
          /\ \A e \in Drivers : Len(cache[e]) <= Len(cache'[e])
          /\ cache'[d] = table
      <3> DEFINE n == Len(cache[d])
                 b == Len(table)
      <3>1. cache' = [cache EXCEPT ![d] = Remembered(@, Rows(n, b))] BY <1>2, <2>1
      <3>2. n \in Nat /\ b \in Nat /\ n <= Len(cache[d]) /\ b <= Len(table) /\ b = Len(table)
        BY <1>1
      <3>3. UNCHANGED table BY <1>3
      <3> HIDE DEF n, b
      <3>. QED BY <1>1, <3>1, <3>2, <3>3, CacheStep
    <2>3. history' = [history EXCEPT ![t] = table]
      BY <1>1, <2>1, <2>2 DEF IInv, LogTypeOK
    <2>4. LogTypeOK'
      BY <1>3, <2>1, <2>2, <2>3 DEF IInv, LogTypeOK, LogPhases
    <2>5. HolderInv' /\ WriterInv' /\ OneWriter'
      BY <1>3, <2>1, LeaseAssumption DEF IInv, LogTypeOK, HolderInv, WriterInv, OneWriter
    <2>6. write[t] = "none"
      BY <1>3 DEF IInv, LogTypeOK, WriterInv
    <2>7. BasisInv' BY <1>3, <2>1, <2>3 DEF IInv, LogTypeOK, BasisInv
    <2>8. PendingInv' BY <1>3, <2>1, <2>3, <2>6 DEF IInv, LogTypeOK, PendingInv
    <2>9. CommittedInv' BY <1>3, <2>1, <2>3, <2>6 DEF IInv, LogTypeOK, CommittedInv
    <2>10. CachedInv'
      <3>. SUFFICES ASSUME NEW u \in Threads, phase'[u] \in Inside
                    PROVE  Len(history'[u]) <= Len(cache'[DriverOf[u]])
        BY DEF CachedInv
      <3>1. CASE u = t BY <3>1, <1>1, <2>2, <2>3 DEF IInv, LogTypeOK, d
      <3>2. CASE u # t
        <4>1. phase[u] = phase'[u] /\ history'[u] = history[u]
          BY <3>2, <2>1, <2>3 DEF IInv, LogTypeOK
        <4>2. Len(history[u]) <= Len(cache[DriverOf[u]]) BY <4>1 DEF IInv, CachedInv
        <4>3. DriverOf[u] \in Drivers BY DriverAssumption
        <4>4. Len(cache[DriverOf[u]]) <= Len(cache'[DriverOf[u]]) BY <2>2, <4>3
        <4>5. /\ Len(cache[DriverOf[u]]) \in Nat /\ Len(cache'[DriverOf[u]]) \in Nat
              /\ Len(history[u]) \in Nat
          BY <2>2, <4>3 DEF IInv, LogTypeOK
        <4>. QED BY <4>1, <4>2, <4>4, <4>5
      <3>. QED BY <3>1, <3>2
    <2>11. Gapless' BY <1>3 DEF IInv, Gapless
    <2>. QED BY <2>2, <2>4, <2>5, <2>7, <2>8, <2>9, <2>10, <2>11 DEF IInv
  <1>5. CASE ~Continues(cache[d], rows)
    <2>1. Continues(cache[d], rows)
      <3> HIDE DEF d, rows
      <3>1. IsLog /\ IsPrefix(cache[d])
        BY <1>1 DEF IInv, LogTypeOK, CachesArePrefixes, IsLog, IsPrefix
      <3>. QED BY <1>1, <1>2, <3>1, WindowContinues
    <2>. QED BY <1>5, <2>1
  <1>. QED BY <1>4, <1>5

(* Caches that only grow disturb no transaction.                           *)
LEMMA CachedKept ==
    ASSUME IInv, cache' \in [Drivers -> Seq(Row)],
           \A e \in Drivers : Len(cache[e]) <= Len(cache'[e]),
           NEW u \in Threads, phase[u] \in Inside, history'[u] = history[u]
    PROVE  Len(history'[u]) <= Len(cache'[DriverOf[u]])
  <1>1. DriverOf[u] \in Drivers BY DriverAssumption
  <1>2. Len(history[u]) <= Len(cache[DriverOf[u]]) BY DEF IInv, CachedInv
  <1>3. Len(cache[DriverOf[u]]) <= Len(cache'[DriverOf[u]]) BY <1>1
  <1>4. /\ Len(cache[DriverOf[u]]) \in Nat /\ Len(cache'[DriverOf[u]]) \in Nat
        /\ Len(history[u]) \in Nat
    BY <1>1 DEF IInv, LogTypeOK
  <1>. QED BY <1>2, <1>3, <1>4

LEMMA LookStep ==
    ASSUME IInv, NEW t \in Threads, Look(t)
    PROVE  IInv'
  <1> DEFINE d == DriverOf[t]
             n == Len(cache[d])
             b == Len(table)
  <1>1. /\ d \in Drivers /\ n \in Nat /\ b \in Nat
        /\ n <= Len(cache[d]) /\ b <= Len(table)
    BY DriverAssumption DEF IInv, LogTypeOK
  <1>2. UNCHANGED <<table, lease, phase, history, pending, write, outcome>> BY DEF Look
  <1>3. cache' = [cache EXCEPT ![d] = Remembered(@, Rows(n, b))]
    BY <1>1, Suffix DEF Look, IsLog, IInv, LogTypeOK
  <1> HIDE DEF d, n, b
  <1>4. /\ cache' \in [Drivers -> Seq(Row)] /\ CachesArePrefixes'
        /\ \A e \in Drivers : Len(cache[e]) <= Len(cache'[e])
    BY <1>1, <1>2, <1>3, CacheStep
  <1>5. CachedInv' BY <1>2, <1>4, CachedKept DEF CachedInv
  <1>6. LogTypeOK' /\ HolderInv' /\ WriterInv' /\ OneWriter'
    BY <1>2, <1>4 DEF IInv, LogTypeOK, HolderInv, WriterInv, OneWriter
  <1>7. BasisInv' /\ PendingInv' BY <1>2 DEF IInv, BasisInv, PendingInv
  <1>8. CommittedInv' /\ Gapless'
    BY <1>2 DEF IInv, CommittedInv, Gapless
  <1>. QED BY <1>4, <1>5, <1>6, <1>7, <1>8 DEF IInv

LEMMA CommittedRows ==
    ASSUME NEW put \in Seq(Row), NEW a \in Nat,
           \A i \in 1..Len(put) : table[a + i] = put[i]
    PROVE  RowsOf(put) = Rows(a, a + Len(put))
  <1>1. PICK k \in Nat : k = Len(put) OBVIOUS
  <1>2. RowsOf(put) = {put[i] : i \in 1..k} BY <1>1 DEF RowsOf
  <1>3. \A i \in 1..k : a + i \in (a + 1)..(a + k) OBVIOUS
  <1>4. \A j \in (a + 1)..(a + k) : j - a \in 1..k /\ a + (j - a) = j OBVIOUS
  <1>5. \A i \in 1..k : table[a + i] = put[i] BY <1>1
  <1>6. \A j \in (a + 1)..(a + k) : table[j] = put[j - a] BY <1>4, <1>5
  <1>7. {put[i] : i \in 1..k} = {table[j] : j \in (a + 1)..(a + k)}
    BY <1>3, <1>4, <1>5, <1>6
  <1>. QED BY <1>1, <1>2, <1>7 DEF Rows

LEMMA RememberStep ==
    ASSUME IInv, NEW t \in Threads, Remember(t)
    PROVE  IInv'
  <1> DEFINE d == DriverOf[t]
             a == Len(history[t])
             b == a + Len(pending[t])
  <1>1. /\ phase[t] = "remembering"
        /\ UNCHANGED <<table, history, pending, write>>
    BY DEF Remember
  <1>2. d \in Drivers /\ a \in Nat /\ Len(pending[t]) \in Nat /\ b \in Nat
    BY DriverAssumption DEF IInv, LogTypeOK
  <1>3. a <= Len(cache[d]) BY <1>1 DEF IInv, CachedInv, Inside
  <1>4. /\ b <= Len(table)
        /\ \A i \in 1..Len(pending[t]) : table[a + i] = pending[t][i]
    BY <1>1 DEF IInv, LogTypeOK, CommittedInv
  <1>5. RowsOf(pending[t]) = Rows(a, b)
    BY <1>2, <1>4, CommittedRows DEF IInv, LogTypeOK
  <1>6. IsLog /\ IsPrefix(cache[d])
    BY <1>2 DEF IInv, LogTypeOK, CachesArePrefixes, IsLog, IsPrefix
  <1>7. Continues(cache[d], RowsOf(pending[t]))
    <2> HIDE DEF a, b, d
    <2>. QED BY <1>2, <1>3, <1>4, <1>5, <1>6, WindowContinues
  <1>8. /\ cache' = [cache EXCEPT ![d] = Remembered(@, RowsOf(pending[t]))]
        /\ phase' = [phase EXCEPT ![t] = "leaving"] /\ UNCHANGED <<lease, outcome>>
    BY <1>7 DEF Remember, Goto
  <1> HIDE DEF a, b, d
  <1>9. /\ cache' \in [Drivers -> Seq(Row)] /\ CachesArePrefixes'
        /\ \A e \in Drivers : Len(cache[e]) <= Len(cache'[e])
    BY <1>1, <1>2, <1>3, <1>4, <1>5, <1>8, CacheStep
  <1>10. \A u \in Threads : phase'[u] = phase[u] \/ phase'[u] = "leaving"
    BY <1>8 DEF IInv, LogTypeOK
  <1>11. CachedInv' BY <1>1, <1>9, <1>10, CachedKept DEF CachedInv, Inside
  <1>12. LogTypeOK' /\ HolderInv' /\ OneWriter'
    BY <1>1, <1>8, <1>9 DEF IInv, LogTypeOK, LogPhases, HolderInv, OneWriter
  <1>13. WriterInv' BY <1>1, <1>8 DEF IInv, LogTypeOK, WriterInv
  <1>14. BasisInv' /\ PendingInv' BY <1>1, <1>10 DEF IInv, BasisInv, PendingInv
  <1>15. CommittedInv' BY <1>1, <1>10, Zenon DEF IInv, CommittedInv
  <1>16. Gapless' BY <1>1 DEF IInv, Gapless
  <1>. QED BY <1>9, <1>11, <1>12, <1>13, <1>14, <1>15, <1>16 DEF IInv

LEMMA PutStep ==
    ASSUME IInv, NEW t \in Threads, NEW batch \in Batches, Put(t, batch)
    PROVE  IInv'
  <1> DEFINE put == Numbered(t, batch, Len(history[t]))
  <1>1. /\ phase[t] = "acting"
        /\ pending' = [pending EXCEPT ![t] = put]
        /\ phase' = [phase EXCEPT ![t] = "checking"]
        /\ UNCHANGED <<table, cache, lease, history, write, outcome>>
    BY DEF Put, Goto
  <1>2. batch \in Seq(STRING) BY BatchAssumption
  <1>3. Len(history[t]) \in Nat /\ Len(batch) \in Nat BY <1>2 DEF IInv, LogTypeOK
  <1>4. /\ put \in Seq(Row) /\ DOMAIN put = 1..Len(batch)
        /\ \A i \in DOMAIN put : put[i].sequence = Len(history[t]) + i
    <2>1. \A i \in 1..Len(batch) :
             [sequence |-> Len(history[t]) + i, kind |-> batch[i], by |-> t] \in Row
      BY <1>2, <1>3 DEF Row
    <2>2. put \in Seq(Row) BY <1>3, <2>1 DEF Numbered
    <2>. QED BY <2>2 DEF Numbered
  <1> HIDE DEF put
  <1>5. LogTypeOK' /\ HolderInv' /\ OneWriter'
    BY <1>1, <1>4 DEF IInv, LogTypeOK, LogPhases, HolderInv, OneWriter
  <1>6. WriterInv' BY <1>1 DEF IInv, LogTypeOK, WriterInv
  <1>7. write[t] = "none" BY <1>1 DEF IInv, LogTypeOK, WriterInv
  <1>8. BasisInv' BY <1>1 DEF IInv, LogTypeOK, BasisInv
  <1>9. PendingInv' BY <1>1, <1>4 DEF IInv, LogTypeOK, PendingInv
  <1>10. \A u \in Threads : u # t => pending'[u] = pending[u] /\ phase'[u] = phase[u]
    BY <1>1 DEF IInv, LogTypeOK
  <1>11. CommittedInv'
    <2>. SUFFICES ASSUME NEW u \in Threads, phase'[u] = "remembering" \/ write'[u] = "landed"
                  PROVE  /\ Len(history[u]) + Len(pending'[u]) <= Len(table)
                         /\ \A i \in DOMAIN pending'[u] :
                                table[Len(history[u]) + i] = pending'[u][i]
      BY <1>1 DEF CommittedInv
    <2>1. u # t BY <1>1, <1>7 DEF IInv, LogTypeOK
    <2>2. phase[u] = "remembering" \/ write[u] = "landed" BY <1>1, <1>10, <2>1
    <2>3. /\ Len(history[u]) + Len(pending[u]) <= Len(table)
          /\ \A i \in DOMAIN pending[u] : table[Len(history[u]) + i] = pending[u][i]
      BY <2>2, Zenon DEF IInv, CommittedInv
    <2>. QED BY <1>10, <2>1, <2>3
  <1>12. CachedInv' BY <1>1 DEF IInv, LogTypeOK, CachedInv, Inside
  <1>13. Gapless' /\ CachesArePrefixes' BY <1>1 DEF IInv, Gapless, CachesArePrefixes
  <1>. QED BY <1>5, <1>6, <1>8, <1>9, <1>11, <1>12, <1>13 DEF IInv

LEMMA SendAppendStep ==
    ASSUME IInv, NEW t \in Threads, SendAppend(t)
    PROVE  IInv'
  <1>1. /\ phase[t] = "checking" /\ lease = t
        /\ write' = [write EXCEPT ![t] = "sent"]
        /\ phase' = [phase EXCEPT ![t] = "writing"]
        /\ UNCHANGED <<table, cache, lease, history, pending, outcome>>
    BY DEF SendAppend, Goto
  <1>2. \A u \in Threads : u # t => write[u] # "sent"
    BY <1>1, LeaseAssumption DEF IInv, WriterInv
  <1>3. \A u \in Threads : u # t => phase'[u] = phase[u] /\ write'[u] = write[u]
    BY <1>1 DEF IInv, LogTypeOK
  <1>4. phase'[t] = "writing" /\ write'[t] = "sent" BY <1>1 DEF IInv, LogTypeOK
  <1>5. LogTypeOK' BY <1>1 DEF IInv, LogTypeOK, LogPhases
  <1>6. HolderInv' BY <1>1, <1>3 DEF IInv, HolderInv
  <1>7. WriterInv' BY <1>1, <1>3, <1>4 DEF IInv, WriterInv
  <1>8. OneWriter' BY <1>2, <1>3 DEF OneWriter
  <1>9. BasisInv' BY <1>1, <1>3 DEF IInv, BasisInv
  <1>10. PendingInv' BY <1>1, <1>3 DEF IInv, PendingInv
  <1>11. CommittedInv' BY <1>1, <1>3, <1>4, Zenon DEF IInv, CommittedInv
  <1>12. CachedInv' BY <1>1, <1>3 DEF IInv, CachedInv, Inside
  <1>13. Gapless' /\ CachesArePrefixes' BY <1>1 DEF IInv, Gapless, CachesArePrefixes
  <1>. QED BY <1>5, <1>6, <1>7, <1>8, <1>9, <1>10, <1>11, <1>12, <1>13 DEF IInv

LEMMA AcknowledgedStep ==
    ASSUME IInv, NEW t \in Threads, Acknowledged(t)
    PROVE  IInv'
  <1>1. /\ phase[t] = "writing" /\ write[t] = "landed"
        /\ write' = [write EXCEPT ![t] = "none"]
        /\ phase' = [phase EXCEPT ![t] = "remembering"]
        /\ outcome' = [outcome EXCEPT ![t] = "returned"]
        /\ UNCHANGED <<table, cache, lease, history, pending>>
    BY DEF Acknowledged, Goto, Ends
  <1>2. \A u \in Threads : u # t => phase'[u] = phase[u] /\ write'[u] = write[u]
    BY <1>1 DEF IInv, LogTypeOK
  <1>3. phase'[t] = "remembering" /\ write'[t] = "none" BY <1>1 DEF IInv, LogTypeOK
  <1>4. LogTypeOK' BY <1>1 DEF IInv, LogTypeOK, LogPhases
  <1>5. HolderInv' BY <1>1, <1>2 DEF IInv, HolderInv
  <1>6. WriterInv' BY <1>1, <1>2, <1>3 DEF IInv, WriterInv
  <1>7. OneWriter' BY <1>2, <1>3 DEF IInv, OneWriter
  <1>8. BasisInv' BY <1>1, <1>2, <1>3 DEF IInv, BasisInv
  <1>9. PendingInv' BY <1>1, <1>2 DEF IInv, PendingInv
  <1>10. CommittedInv' BY <1>1, <1>2, Zenon DEF IInv, CommittedInv
  <1>11. CachedInv' BY <1>1, <1>2 DEF IInv, CachedInv, Inside
  <1>12. Gapless' /\ CachesArePrefixes' BY <1>1 DEF IInv, Gapless, CachesArePrefixes
  <1>. QED BY <1>4, <1>5, <1>6, <1>7, <1>8, <1>9, <1>10, <1>11, <1>12 DEF IInv

LEMMA LandsStep ==
    ASSUME IInv, NEW t \in Threads, Lands(t)
    PROVE  IInv'
  <1> DEFINE put == pending[t]
  <1>1. /\ write[t] = "sent" /\ table' = table \o put
        /\ write' = [write EXCEPT ![t] = IF phase[t] = "writing" THEN "landed" ELSE "none"]
        /\ UNCHANGED <<cache, lease, phase, outcome>>
    BY DEF Lands
  <1>2. \A u \in Threads : u # t => phase[u] = "idle" /\ write[u] = "none"
    BY <1>1, LeaseAssumption DEF IInv, LogTypeOK, HolderInv, WriterInv, OneWriter
  <1>3. phase[t] \in {"idle", "writing"} BY <1>1 DEF IInv, WriterInv
  <1>4. /\ table \in Seq(Row) /\ put \in Seq(Row) /\ history[t] = table
        /\ \A i \in 1..Len(put) : put[i].sequence = Len(table) + i
    BY <1>1 DEF IInv, LogTypeOK, BasisInv, PendingInv
  <1> HIDE DEF put
  <1>5. /\ table' \in Seq(Row) /\ Len(table') = Len(table) + Len(put)
        /\ \A i \in 1..Len(table) : table'[i] = table[i]
        /\ \A i \in 1..Len(put) : table'[Len(table) + i] = put[i]
    BY <1>1, <1>4
  <1>6. /\ history' \in [Threads -> Seq(Row)] /\ pending' \in [Threads -> Seq(Row)]
        /\ phase[t] = "writing" => history'[t] = history[t] /\ pending'[t] = put
    BY DEF Lands, Forgets, InProgress, IInv, LogTypeOK, put
  <1>7. Len(table) \in Nat /\ Len(put) \in Nat BY <1>4
  <1>8. Gapless'
    <2>. SUFFICES ASSUME NEW i \in 1..(Len(table) + Len(put))
                  PROVE  table'[i].sequence = i
      BY <1>5 DEF Gapless
    <2>1. CASE i \in 1..Len(table) BY <1>4, <1>5, <2>1 DEF IInv, Gapless
    <2>2. CASE i \notin 1..Len(table)
      <3>1. PICK j \in 1..Len(put) : i = Len(table) + j
        <4>1. i - Len(table) \in 1..Len(put) /\ i = Len(table) + (i - Len(table))
          BY <1>7, <2>2
        <4>. QED BY <4>1
      <3>. QED BY <1>4, <1>5, <3>1
    <2>. QED BY <2>1, <2>2
  <1>9. CachesArePrefixes'
    <2>. SUFFICES ASSUME NEW e \in Drivers
                  PROVE  /\ Len(cache[e]) <= Len(table')
                         /\ \A i \in DOMAIN cache[e] : cache[e][i] = table'[i]
      BY <1>1 DEF CachesArePrefixes
    <2>1. /\ Len(cache[e]) \in Nat /\ DOMAIN cache[e] = 1..Len(cache[e])
          /\ Len(cache[e]) <= Len(table)
          /\ \A i \in 1..Len(cache[e]) : cache[e][i] = table[i]
      BY DEF IInv, LogTypeOK, CachesArePrefixes
    <2>2. Len(cache[e]) <= Len(table') BY <1>5, <1>7, <2>1
    <2>3. \A i \in 1..Len(cache[e]) : i \in 1..Len(table) BY <1>7, <2>1
    <2>. QED BY <1>5, <2>1, <2>2, <2>3
  <1>10. LogTypeOK' BY <1>1, <1>5, <1>6 DEF IInv, LogTypeOK
  <1>11. HolderInv' BY <1>1 DEF IInv, HolderInv
  <1>12. \A u \in Threads :
             write'[u] # "sent" /\ (write'[u] = "landed" => u = t /\ phase[t] = "writing")
    BY <1>1, <1>2 DEF IInv, LogTypeOK
  <1>13. WriterInv' /\ OneWriter' BY <1>1, <1>12 DEF WriterInv, OneWriter
  <1>14. BasisInv' BY <1>1, <1>2, <1>3, <1>12 DEF BasisInv
  <1>15. PendingInv'
    <2>. SUFFICES ASSUME NEW u \in Threads,
                         phase[u] \in {"checking", "writing", "remembering"}
                  PROVE  \A i \in DOMAIN pending'[u] :
                             pending'[u][i].sequence = Len(history'[u]) + i
      BY <1>1, <1>12 DEF PendingInv
    <2>1. u = t /\ phase[t] = "writing" BY <1>2, <1>3
    <2>2. history'[u] = table /\ pending'[u] = put BY <1>4, <1>6, <2>1
    <2>3. DOMAIN put = 1..Len(put) BY <1>4
    <2>. QED BY <1>4, <2>2, <2>3
  <1>16. CommittedInv'
    <2>. SUFFICES ASSUME NEW u \in Threads, phase[u] = "remembering" \/ write'[u] = "landed"
                  PROVE  /\ Len(history'[u]) + Len(pending'[u]) <= Len(table')
                         /\ \A i \in DOMAIN pending'[u] :
                                table'[Len(history'[u]) + i] = pending'[u][i]
      BY <1>1 DEF CommittedInv
    <2>1. u = t /\ phase[t] = "writing" BY <1>2, <1>3, <1>12
    <2>2. history'[u] = table /\ pending'[u] = put BY <1>4, <1>6, <2>1
    <2>3. DOMAIN put = 1..Len(put) BY <1>4
    <2>. QED BY <1>5, <1>7, <2>2, <2>3
  <1>17. CachedInv'
    <2>. SUFFICES ASSUME NEW u \in Threads, phase[u] \in Inside
                  PROVE  Len(history'[u]) <= Len(cache[DriverOf[u]])
      BY <1>1 DEF CachedInv
    <2>1. u = t /\ phase[t] = "writing" BY <1>2, <1>3 DEF Inside
    <2>. QED BY <1>6, <2>1 DEF IInv, CachedInv
  <1>. QED BY <1>8, <1>9, <1>10, <1>11, <1>13, <1>14, <1>15, <1>16, <1>17 DEF IInv

(* Every other step ends a transaction or an append, or empties a cache:   *)
(* what is left of either was there before.                                *)
LEMMA EndingStep ==
    ASSUME IInv, UNCHANGED table, LogTypeOK', HolderInv', WriterInv', CachesArePrefixes',
           \A u \in Threads :
               \/ phase'[u] = "idle" /\ write'[u] = "none"
               \/ /\ \/ phase'[u] = phase[u]
                      \/ phase'[u] = "idle"
                  /\ write'[u] \in {write[u], "none"}
                  /\ history'[u] = history[u] /\ pending'[u] = pending[u]
                  /\ phase'[u] \in Inside => cache'[DriverOf[u]] = cache[DriverOf[u]]
    PROVE  IInv'
  <1>1. OneWriter' BY DEF IInv, OneWriter
  <1>2. BasisInv' BY DEF IInv, BasisInv
  <1>3. PendingInv' BY DEF IInv, PendingInv
  <1>4. CommittedInv'
    <2>. SUFFICES ASSUME NEW u \in Threads, phase'[u] = "remembering" \/ write'[u] = "landed"
                  PROVE  /\ Len(history'[u]) + Len(pending'[u]) <= Len(table)
                         /\ \A i \in DOMAIN pending'[u] :
                                table[Len(history'[u]) + i] = pending'[u][i]
      BY DEF CommittedInv
    <2>1. /\ phase[u] = "remembering" \/ write[u] = "landed"
          /\ history'[u] = history[u] /\ pending'[u] = pending[u]
      OBVIOUS
    <2>2. /\ Len(history[u]) + Len(pending[u]) <= Len(table)
          /\ \A i \in DOMAIN pending[u] : table[Len(history[u]) + i] = pending[u][i]
      BY <2>1, Zenon DEF IInv, CommittedInv
    <2>. QED BY <2>1, <2>2
  <1>5. CachedInv'
    <2>. SUFFICES ASSUME NEW u \in Threads, phase'[u] \in Inside
                  PROVE  Len(history'[u]) <= Len(cache'[DriverOf[u]])
      BY DEF CachedInv
    <2>1. /\ phase[u] \in Inside /\ history'[u] = history[u]
          /\ cache'[DriverOf[u]] = cache[DriverOf[u]]
      BY DEF Inside
    <2>2. Len(history[u]) <= Len(cache[DriverOf[u]]) BY <2>1 DEF IInv, CachedInv
    <2>. QED BY <2>1, <2>2
  <1>6. Gapless' BY DEF IInv, Gapless
  <1>. QED BY <1>1, <1>2, <1>3, <1>4, <1>5, <1>6 DEF IInv
LEMMA EndingSteps ==
    ASSUME IInv,
           \/ \E t \in Threads : IsLost(t) \/ Unacknowledged(t) \/ Release(t) \/ ReleaseFails(t)
           \/ \E d \in Drivers : ClearCache(d) \/ DriverDies(d)
    PROVE  IInv'
  <1>1. ASSUME NEW t \in Threads, IsLost(t) PROVE IInv'
    <2>1. /\ write[t] = "sent" /\ write' = [write EXCEPT ![t] = "none"]
          /\ UNCHANGED <<table, cache, lease, phase, outcome>>
      BY <1>1 DEF IsLost
    <2>2. /\ history' \in [Threads -> Seq(Row)] /\ pending' \in [Threads -> Seq(Row)]
          /\ \A u \in Threads : phase[u] # "idle" \/ u # t =>
                 history'[u] = history[u] /\ pending'[u] = pending[u]
      BY <1>1 DEF IsLost, Forgets, InProgress, IInv, LogTypeOK
    <2>3. LogTypeOK' BY <2>1, <2>2 DEF IInv, LogTypeOK
    <2>4. HolderInv' /\ WriterInv' /\ CachesArePrefixes'
      BY <2>1 DEF IInv, LogTypeOK, HolderInv, WriterInv, CachesArePrefixes
    <2>5. \A u \in Threads :
              \/ phase'[u] = "idle" /\ write'[u] = "none"
              \/ /\ phase'[u] = phase[u] /\ write'[u] \in {write[u], "none"}
                 /\ history'[u] = history[u] /\ pending'[u] = pending[u]
                 /\ cache'[DriverOf[u]] = cache[DriverOf[u]]
      BY <2>1, <2>2 DEF IInv, LogTypeOK
    <2>. QED BY <2>1, <2>3, <2>4, <2>5, EndingStep
  <1>2. ASSUME NEW t \in Threads, Unacknowledged(t) \/ Release(t) \/ ReleaseFails(t)
        PROVE  IInv'
    <2>1. /\ phase[t] # "idle" /\ lease = t
          /\ phase' = [phase EXCEPT ![t] = "idle"]
          /\ write' \in {write, [write EXCEPT ![t] = IF @ = "sent" THEN @ ELSE "none"]}
          /\ write[t] = "sent" => phase[t] = "writing" /\ lease' = Orphan
          /\ write'[t] \in {"sent", "none"} /\ (write'[t] = "sent" => write[t] = "sent")
          /\ lease' \in {Free, Orphan}
          /\ outcome' \in [Threads -> {"none", "returned", "raised"}]
          /\ UNCHANGED <<table, cache>>
      BY <1>2 DEF Unacknowledged, Release, ReleaseFails, Goto, Ends, Retained, IInv,
                  LogTypeOK, HolderInv, WriterInv
    <2>2. /\ history' \in [Threads -> Seq(Row)] /\ pending' \in [Threads -> Seq(Row)]
          /\ \A u \in Threads : write[u] = "sent" \/ u # t =>
                 history'[u] = history[u] /\ pending'[u] = pending[u]
      <3> DEFINE done == IF write[t] = "sent" THEN {} ELSE {t}
      <3>1. Forgets(done)
        <4>1. CASE Unacknowledged(t)
          <5>1. {t} \ Unsettled = done BY DEF Unsettled
          <5>. QED BY <4>1, <5>1 DEF Unacknowledged
        <4>2. CASE Release(t) \/ ReleaseFails(t)
          <5>1. write[t] # "sent" BY <4>2 DEF Release, ReleaseFails, IInv, WriterInv
          <5>. QED BY <4>2, <5>1 DEF Release, ReleaseFails
        <4>. QED BY <1>2, <4>1, <4>2
      <3>. QED BY <3>1 DEF Forgets, IInv, LogTypeOK
    <2>3. LogTypeOK'
      <3>1. phase' \in [Threads -> LogPhases] BY <2>1 DEF IInv, LogTypeOK, LogPhases
      <3>2. write' \in [Threads -> {"none", "sent", "landed"}]
        BY <2>1 DEF IInv, LogTypeOK
      <3>. QED BY <2>1, <2>2, <3>1, <3>2 DEF IInv, LogTypeOK
    <2>4. \A u \in Threads : u # t => phase[u] = "idle" /\ write[u] = "none"
      BY <2>1, LeaseAssumption DEF IInv, LogTypeOK, HolderInv, WriterInv
    <2>5. HolderInv' /\ WriterInv' /\ CachesArePrefixes'
      BY <2>1, <2>4 DEF IInv, LogTypeOK, HolderInv, WriterInv, CachesArePrefixes
    <2>6. \A u \in Threads :
              \/ phase'[u] = "idle" /\ write'[u] = "none"
              \/ /\ phase'[u] \in {phase[u], "idle"} /\ write'[u] \in {write[u], "none"}
                 /\ history'[u] = history[u] /\ pending'[u] = pending[u]
                 /\ cache'[DriverOf[u]] = cache[DriverOf[u]]
      BY <2>1, <2>2, <2>4 DEF IInv, LogTypeOK
    <2>. QED BY <2>1, <2>3, <2>5, <2>6, EndingStep
  <1>3. ASSUME NEW d \in Drivers, ClearCache(d) PROVE IInv'
    <2>1. /\ \A u \in Threads : DriverOf[u] = d => phase[u] = "idle"
          /\ cache' = [cache EXCEPT ![d] = << >>]
          /\ outcome' \in [Threads -> {"none", "returned", "raised"}]
          /\ UNCHANGED <<table, lease, phase, history, pending, write>>
      BY <1>3 DEF ClearCache, IInv, LogTypeOK
    <2>2. LogTypeOK' BY <2>1 DEF IInv, LogTypeOK
    <2>3. HolderInv' /\ WriterInv' BY <2>1 DEF IInv, HolderInv, WriterInv
    <2>4. CachesArePrefixes' BY <2>1 DEF IInv, LogTypeOK, CachesArePrefixes
    <2>5. \A u \in Threads :
              /\ phase'[u] = phase[u] /\ write'[u] = write[u]
              /\ history'[u] = history[u] /\ pending'[u] = pending[u]
              /\ phase'[u] \in Inside => cache'[DriverOf[u]] = cache[DriverOf[u]]
      BY <2>1, DriverAssumption DEF IInv, LogTypeOK, Inside
    <2>. QED BY <2>1, <2>2, <2>3, <2>4, <2>5, EndingStep
  <1>4. ASSUME NEW d \in Drivers, DriverDies(d) PROVE IInv'
    <2>1. /\ cache' = [cache EXCEPT ![d] = << >>] /\ UNCHANGED table
          /\ lease' \in {lease, Orphan}
          /\ \A u \in Threads : DriverOf[u] # d => (lease = u => lease' = u)
          /\ \A u \in Threads : DriverOf[u] = d => lease' # u
          /\ phase' = [u \in Threads |-> IF DriverOf[u] = d THEN "idle" ELSE phase[u]]
          /\ write' = [u \in Threads |->
                          IF DriverOf[u] = d /\ write[u] = "landed" THEN "none" ELSE write[u]]
          /\ outcome' \in [Threads -> {"none", "returned", "raised"}]
      BY <1>4, LeaseAssumption DEF DriverDies, IInv, LogTypeOK
    <2>2. /\ history' \in [Threads -> Seq(Row)] /\ pending' \in [Threads -> Seq(Row)]
          /\ \A u \in Threads : write[u] = "sent" \/ DriverOf[u] # d =>
                 history'[u] = history[u] /\ pending'[u] = pending[u]
      BY <1>4 DEF DriverDies, Forgets, Unsettled, IInv, LogTypeOK
    <2>3. LogTypeOK' BY <2>1, <2>2 DEF IInv, LogTypeOK, LogPhases
    <2>4. HolderInv' BY <2>1 DEF IInv, HolderInv
    <2>5. WriterInv' BY <2>1 DEF IInv, WriterInv
    <2>6. CachesArePrefixes' BY <2>1 DEF IInv, LogTypeOK, CachesArePrefixes
    <2>7. \A u \in Threads :
              \/ phase'[u] = "idle" /\ write'[u] = "none"
              \/ /\ phase'[u] \in {phase[u], "idle"} /\ write'[u] \in {write[u], "none"}
                 /\ history'[u] = history[u] /\ pending'[u] = pending[u]
                 /\ phase'[u] \in Inside => cache'[DriverOf[u]] = cache[DriverOf[u]]
      BY <2>1, <2>2, DriverAssumption DEF IInv, LogTypeOK, Inside
    <2>. QED BY <2>1, <2>3, <2>4, <2>5, <2>6, <2>7, EndingStep
  <1>. QED BY <1>1, <1>2, <1>3, <1>4
LEMMA StepInvariant == IInv /\ [LogNext]_logVars => IInv'
  <1>. SUFFICES ASSUME IInv, [LogNext]_logVars PROVE IInv' OBVIOUS
  <1>1. CASE UNCHANGED logVars
    BY <1>1 DEF logVars, IInv, LogTypeOK, HolderInv, WriterInv, OneWriter, BasisInv, PendingInv,
                CommittedInv, CachedInv, Gapless, CachesArePrefixes
  <1>2. ASSUME NEW t \in Threads, Read(t) \/ Look(t) \/ Remember(t) PROVE IInv'
    BY <1>2, ReadStep, LookStep, RememberStep
  <1>3. ASSUME NEW t \in Threads, NEW batch \in Batches, Put(t, batch) PROVE IInv'
    BY <1>3, PutStep
  <1>4. ASSUME NEW t \in Threads, SendAppend(t) \/ Lands(t) \/ Acknowledged(t) PROVE IInv'
    BY <1>4, SendAppendStep, LandsStep, AcknowledgedStep
  <1>5. ASSUME \/ \E t \in Threads :
                      \/ Acquire(t) \/ AcquireUnanswered(t) \/ AcquireRefused(t)
                      \/ PutNothing(t, "returned") \/ PutNothing(t, "raised")
                      \/ CheckFails(t)
               \/ BreakLease
        PROVE  IInv'
    BY <1>5, QuietStep
  <1>6. ASSUME \/ \E t \in Threads :
                      IsLost(t) \/ Unacknowledged(t) \/ Release(t) \/ ReleaseFails(t)
               \/ \E d \in Drivers : ClearCache(d) \/ DriverDies(d)
        PROVE  IInv'
    BY <1>6, EndingSteps
  <1>. QED BY <1>1, <1>2, <1>3, <1>4, <1>5, <1>6 DEF LogNext, LogStep, Storage

(* The inductive invariant of the log and its lease. *)
THEOREM Invariant == LogSpec => []IInv
  BY InitInvariant, StepInvariant, PTL DEF LogSpec

(* Every step keeps the log's state well-typed. *)
THEOREM LogTypeCorrect == LogSpec => []LogTypeOK
  BY Invariant, PTL DEF IInv

(* The sequence numbers of the log have neither gap nor duplicate, for any *)
(* number of threads and drivers that fail in any of the modelled ways     *)
(* (DeltaEvents.transaction).                                              *)
THEOREM LogIsGapless == LogSpec => []Gapless
  BY Invariant, PTL DEF IInv

(* Every driver remembers a prefix of the committed history                *)
(* (DeltaEvents.events, DeltaEvents._remember).                            *)
THEOREM CachesFollowTheLog == LogSpec => []CachesArePrefixes
  BY Invariant, PTL DEF IInv
(* No read of the history, by whichever thread of whichever driver, ever    *)
(* raises AUDIT_CORRUPTION (DeltaEvents._remember).                        *)
ReadsAreClean ==
    \A d \in Drivers : Continues(cache[d], ReadAfter(Len(cache[d])))

THEOREM NoCorruptionFound == LogSpec => []ReadsAreClean
  <1>1. IInv => ReadsAreClean
    <2>. SUFFICES ASSUME IInv, NEW d \in Drivers
                  PROVE  Continues(cache[d], ReadAfter(Len(cache[d])))
      BY DEF ReadsAreClean
    <2>1. IsLog /\ IsPrefix(cache[d]) /\ Len(cache[d]) \in Nat /\ Len(table) \in Nat
      BY DEF IInv, LogTypeOK, CachesArePrefixes, IsLog, IsPrefix
    <2>2. ReadAfter(Len(cache[d])) = Rows(Len(cache[d]), Len(table)) BY <2>1, Suffix
    <2>. QED BY <2>1, <2>2, WindowContinues
  <1>. QED BY <1>1, Invariant, PTL

-----------------------------------------------------------------------------
(* The refinement: what is committed is one transaction's rows, appended to *)
(* what it has read.                                                       *)
PutInv ==
    \A t \in Threads :
        phase[t] \in {"checking", "writing"} \/ write[t] = "sent" => Len(pending[t]) > 0

Basis(t) == IF InTransaction(t) THEN history[t] ELSE Unread

LEMMA PutInvInductive ==
    /\ LogInit => PutInv
    /\ IInv /\ PutInv /\ [LogNext]_logVars => PutInv'
  <1>1. LogInit => PutInv BY DEF LogInit, PutInv
  <1>. SUFFICES ASSUME IInv, PutInv, [LogNext]_logVars PROVE PutInv' BY <1>1
  <1>2. CASE UNCHANGED logVars BY <1>2 DEF logVars, PutInv
  <1>3. ASSUME NEW t \in Threads, NEW batch \in Batches, Put(t, batch) PROVE PutInv'
    <2>1. Len(Numbered(t, batch, Len(history[t]))) > 0
      <3>1. Len(batch) \in Nat /\ Len(batch) > 0 BY BatchAssumption
      <3>2. Len(Numbered(t, batch, Len(history[t]))) = Len(batch) BY <3>1 DEF Numbered
      <3>. QED BY <3>1, <3>2
    <2>2. /\ pending' = [pending EXCEPT ![t] = Numbered(t, batch, Len(history[t]))]
          /\ phase' = [phase EXCEPT ![t] = "checking"]
          /\ UNCHANGED write
      BY <1>3 DEF Put, Goto
    <2>. HIDE DEF Numbered
    <2>. QED BY <2>1, <2>2 DEF PutInv, IInv, LogTypeOK
  <1>4. ASSUME NEW t \in Threads,
               \/ Acquire(t) \/ AcquireUnanswered(t) \/ AcquireRefused(t) \/ Look(t)
               \/ PutNothing(t, "returned") \/ PutNothing(t, "raised")
               \/ Read(t) \/ SendAppend(t) \/ CheckFails(t) \/ Acknowledged(t) \/ Remember(t)
        PROVE  PutInv'
    <2>1. /\ UNCHANGED pending
          /\ \A u \in Threads :
                 phase'[u] \in {"checking", "writing"} \/ write'[u] = "sent" =>
                     phase[u] \in {"checking", "writing"} \/ write[u] = "sent"
      BY <1>4 DEF Acquire, AcquireUnanswered, AcquireRefused, Look, PutNothing, Read, SendAppend,
                  CheckFails, Acknowledged, Remember, Goto, IInv, LogTypeOK
    <2>. QED BY <2>1 DEF PutInv
  <1>5. ASSUME NEW t \in Threads, Lands(t) \/ IsLost(t) PROVE PutInv'
    BY <1>5 DEF Lands, IsLost, Forgets, InProgress, PutInv, IInv, LogTypeOK
  <1>6. ASSUME NEW t \in Threads, Unacknowledged(t) \/ Release(t) \/ ReleaseFails(t)
        PROVE  PutInv'
    BY <1>6 DEF Unacknowledged, Release, ReleaseFails, Forgets, Unsettled, Goto, PutInv, IInv,
                LogTypeOK, WriterInv
  <1>7. ASSUME NEW d \in Drivers, ClearCache(d) \/ DriverDies(d) PROVE PutInv'
    BY <1>7 DEF ClearCache, DriverDies, Forgets, Unsettled, PutInv, IInv, LogTypeOK
  <1>8. CASE BreakLease BY <1>8 DEF BreakLease, PutInv
  <1>. QED BY <1>2, <1>3, <1>4, <1>5, <1>6, <1>7, <1>8 DEF LogNext, LogStep, Storage
(* A client is in a transaction exactly when it has a basis to append to.  *)
LEMMA BasisOpen ==
    ASSUME IInv, NEW t \in Threads
    PROVE  InTransaction(t) <=> Basis(t) # Unread
  BY UnreadAssumption DEF IInv, LogTypeOK, Basis

LEMMA MappedStutter ==
    ASSUME UNCHANGED table, \A u \in Threads : Basis(u)' = Basis(u)
    PROVE  UNCHANGED Log!vars
  BY DEF Log!vars, Basis

LEMMA MappedEnd ==
    ASSUME IInv, NEW t \in Threads, InTransaction(t), ~InTransaction(t)',
           UNCHANGED table, \A u \in Threads \ {t} : Basis(u)' = Basis(u)
    PROVE  Log!Next
  <1>1. Basis(t) # Unread /\ Basis(t)' = Unread BY BasisOpen DEF Basis
  <1>2. Log!End(t) BY <1>1 DEF Log!End, Basis
  <1>. QED BY <1>2 DEF Log!Next

LEMMA MappedStep == IInv /\ PutInv /\ [LogNext]_logVars /\ IInv' => [Log!Next]_(Log!vars)
  <1>. SUFFICES ASSUME IInv, PutInv, [LogNext]_logVars, IInv'
                PROVE  Log!Next \/ UNCHANGED Log!vars
    OBVIOUS
  <1>1. CASE UNCHANGED logVars
    BY <1>1, MappedStutter DEF logVars, Basis, InTransaction
  <1>2. ASSUME NEW t \in Threads, Read(t) PROVE Log!Next \/ UNCHANGED Log!vars
    <2>1. /\ phase[t] = "locked" /\ phase' \in {[phase EXCEPT ![t] = "acting"],
                                                [phase EXCEPT ![t] = "leaving"]}
          /\ history' # history => phase' = [phase EXCEPT ![t] = "acting"]
          /\ \A u \in Threads \ {t} : history'[u] = history[u]
          /\ UNCHANGED <<table, write>>
      BY <1>2 DEF Read, Goto, IInv, LogTypeOK
    <2>2. write[t] # "sent" /\ ~InTransaction(t)
      BY <2>1 DEF IInv, WriterInv, InTransaction
    <2>3. \A u \in Threads \ {t} : Basis(u)' = Basis(u)
      BY <2>1 DEF Basis, InTransaction, IInv, LogTypeOK
    <2>4. CASE phase' = [phase EXCEPT ![t] = "acting"]
      <3>1. InTransaction(t)' /\ history'[t] = table
        BY <2>1, <2>4 DEF InTransaction, IInv, LogTypeOK, BasisInv
      <3>2. Basis(t) = Unread /\ Basis(t)' = table BY <2>2, <3>1 DEF Basis
      <3>3. Log!Begin(t) BY <2>1, <2>3, <3>2 DEF Log!Begin, Basis
      <3>. QED BY <3>3 DEF Log!Next
    <2>5. CASE phase' = [phase EXCEPT ![t] = "leaving"]
      <3>1. ~InTransaction(t)'
        BY <2>1, <2>2, <2>5 DEF InTransaction, IInv, LogTypeOK
      <3>2. Basis(t)' = Basis(t) BY <2>2, <3>1 DEF Basis
      <3>. QED BY <2>1, <2>3, <3>2, MappedStutter
    <2>. QED BY <2>1, <2>4, <2>5
  <1>3. ASSUME NEW t \in Threads, Lands(t) PROVE Log!Next
    <2>1. /\ write[t] = "sent" /\ table' = table \o pending[t] /\ UNCHANGED phase
          /\ write' = [write EXCEPT ![t] = IF phase[t] = "writing" THEN "landed" ELSE "none"]
          /\ history' = [u \in Threads |-> IF u \in {t} \ InProgress THEN << >> ELSE history[u]]
      BY <1>3 DEF Lands, Forgets
    <2>2. /\ table \in Seq(Row) /\ pending[t] \in Seq(Row) /\ Len(pending[t]) > 0
          /\ history[t] = table /\ InTransaction(t)
      BY <2>1 DEF IInv, LogTypeOK, BasisInv, PutInv, InTransaction
    <2>3. Len(table') > Len(table) /\ SubSeq(table', 1, Len(table)) = table
      <3>1. /\ table' \in Seq(Row) /\ Len(table') = Len(table) + Len(pending[t])
            /\ \A i \in 1..Len(table) : table'[i] = table[i]
            /\ Len(table) \in Nat /\ Len(pending[t]) \in Nat
        BY <2>1, <2>2
      <3>. HIDE DEF IInv
      <3>2. /\ SubSeq(table', 1, Len(table)) \in Seq(Row)
            /\ Len(SubSeq(table', 1, Len(table))) = Len(table)
            /\ \A i \in 1..Len(table) : SubSeq(table', 1, Len(table))[i] = table'[i]
        BY <2>2, <3>1, SubSeqProperties
      <3>3. SubSeq(table', 1, Len(table)) = table BY <2>2, <3>1, <3>2, SeqEqual
      <3>. QED BY <2>2, <3>1, <3>3
    <2>4. \A u \in Threads \ {t} : Basis(u)' = Basis(u)
      BY <2>1 DEF Basis, InTransaction, IInv, LogTypeOK
    <2>5. Basis(t)' \in {Basis(t), Unread}
      <3>1. CASE phase[t] = "writing"
        BY <2>1, <2>2, <3>1 DEF Basis, InTransaction, InProgress
      <3>2. CASE phase[t] = "idle"
        BY <2>1, <3>2 DEF Basis, InTransaction, IInv, LogTypeOK
      <3>. QED BY <2>1, <3>1, <3>2 DEF IInv, WriterInv
    <2>6. Basis(t) = table BY <2>2 DEF Basis
    <2>7. Log!Commit(t)
      <3> DEFINE old == [u \in Threads |-> Basis(u)]
                 new == [u \in Threads |-> Basis(u)']
      <3>1. new \in {old, [old EXCEPT ![t] = Unread]} BY <2>4, <2>5
      <3>. QED BY <2>3, <2>6, <3>1 DEF Log!Commit, Basis
    <2>. QED BY <2>7 DEF Log!Next
  <1>4. ASSUME NEW t \in Threads,
               \/ IsLost(t) \/ Acknowledged(t) \/ Unacknowledged(t) \/ CheckFails(t)
               \/ PutNothing(t, "returned") \/ PutNothing(t, "raised")
        PROVE  Log!Next \/ UNCHANGED Log!vars
    <2>1. InTransaction(t) /\ UNCHANGED table
      BY <1>4 DEF IsLost, Acknowledged, Unacknowledged, CheckFails, PutNothing, InTransaction
    <2>4. \A u \in Threads \ {t} :
              phase'[u] = phase[u] /\ write'[u] = write[u] /\ history'[u] = history[u]
      <3>1. CASE IsLost(t) BY <3>1 DEF IsLost, Forgets, IInv, LogTypeOK
      <3>2. CASE Unacknowledged(t) BY <3>2 DEF Unacknowledged, Goto, Forgets, IInv, LogTypeOK
      <3>3. CASE Acknowledged(t) BY <3>3 DEF Acknowledged, Goto, IInv, LogTypeOK
      <3>4. CASE CheckFails(t) BY <3>4 DEF CheckFails, Goto, IInv, LogTypeOK
      <3>5. CASE PutNothing(t, "returned") \/ PutNothing(t, "raised")
        BY <3>5 DEF PutNothing, Goto, IInv, LogTypeOK
      <3>. QED BY <1>4, <3>1, <3>2, <3>3, <3>4, <3>5
    <2>5. \A u \in Threads \ {t} : Basis(u)' = Basis(u) BY <2>4 DEF Basis, InTransaction
    <2>6. InTransaction(t)' => history'[t] = history[t]
      <3>1. CASE IsLost(t)
        BY <3>1 DEF IsLost, Forgets, InProgress, InTransaction, IInv, LogTypeOK
      <3>2. CASE Unacknowledged(t)
        BY <3>2 DEF Unacknowledged, Goto, Forgets, Unsettled, InTransaction, IInv, LogTypeOK
      <3>3. CASE Acknowledged(t) \/ CheckFails(t) \/ PutNothing(t, "returned")
                 \/ PutNothing(t, "raised")
        BY <3>3 DEF Acknowledged, CheckFails, PutNothing
      <3>. QED BY <1>4, <3>1, <3>2, <3>3
    <2>7. InTransaction(t)' => Basis(t)' = Basis(t) BY <2>1, <2>6 DEF Basis
    <2>2. CASE InTransaction(t)' BY <2>1, <2>2, <2>5, <2>7, MappedStutter
    <2>3. CASE ~InTransaction(t)' BY <2>1, <2>3, <2>5, MappedEnd
    <2>. QED BY <2>2, <2>3
  <1>5. ASSUME NEW t \in Threads,
               \/ Acquire(t) \/ AcquireUnanswered(t) \/ AcquireRefused(t) \/ Look(t)
               \/ SendAppend(t) \/ Remember(t) \/ Release(t) \/ ReleaseFails(t)
               \/ \E batch \in Batches : Put(t, batch)
        PROVE  UNCHANGED Log!vars
    <2>1. UNCHANGED table /\ \A u \in Threads : Basis(u)' = Basis(u)
      <3>1. CASE \/ Acquire(t) \/ AcquireUnanswered(t) \/ AcquireRefused(t) \/ Look(t)
                 \/ Remember(t)
        <4>1. /\ UNCHANGED <<table, history, write>>
              /\ \A u \in Threads : \/ phase'[u] = phase[u]
                                    \/ phase[u] \in {"idle", "remembering"}
                                       /\ phase'[u] \in {"idle", "locked", "leaving"}
          BY <3>1 DEF Acquire, AcquireUnanswered, AcquireRefused, Look, Remember, Goto, IInv,
                      LogTypeOK
        <4>. QED BY <4>1 DEF Basis, InTransaction
      <3>2. CASE SendAppend(t) \/ \E batch \in Batches : Put(t, batch)
        <4>1. /\ UNCHANGED <<table, history>>
              /\ \A u \in Threads \ {t} : phase'[u] = phase[u] /\ write'[u] = write[u]
              /\ InTransaction(t) /\ InTransaction(t)'
          BY <3>2 DEF SendAppend, Put, Goto, InTransaction, IInv, LogTypeOK
        <4>. QED BY <4>1 DEF Basis, InTransaction
      <3>3. CASE Release(t) \/ ReleaseFails(t)
        <4>1. /\ UNCHANGED <<table, write>> /\ phase[t] = "leaving"
              /\ phase' = [phase EXCEPT ![t] = "idle"] /\ Forgets({t})
          BY <3>3 DEF Release, ReleaseFails, Goto
        <4>2. write[t] # "sent" BY <4>1 DEF IInv, WriterInv
        <4>3. \A u \in Threads \ {t} : history'[u] = history[u] BY <4>1 DEF Forgets
        <4>. QED BY <4>1, <4>2, <4>3 DEF Basis, InTransaction, IInv, LogTypeOK
      <3>. QED BY <1>5, <3>1, <3>2, <3>3
    <2>. QED BY <2>1, MappedStutter
  <1>6. ASSUME NEW d \in Drivers, ClearCache(d) PROVE UNCHANGED Log!vars
    <2>1. UNCHANGED table /\ \A u \in Threads : Basis(u)' = Basis(u)
      BY <1>6 DEF ClearCache, Basis, InTransaction
    <2>. QED BY <2>1, MappedStutter
  <1>7. ASSUME NEW d \in Drivers, DriverDies(d) PROVE Log!Next \/ UNCHANGED Log!vars
    <2>1. /\ UNCHANGED table
          /\ \A u \in Threads :
                 \/ Basis(u)' = Basis(u)
                 \/ DriverOf[u] = d /\ phase[u] # "idle" /\ ~InTransaction(u)'
      BY <1>7 DEF DriverDies, Forgets, Unsettled, Basis, InTransaction, IInv, LogTypeOK
    <2>2. CASE \A u \in Threads : Basis(u)' = Basis(u) BY <2>1, <2>2, MappedStutter
    <2>3. ASSUME NEW t \in Threads, Basis(t)' # Basis(t) PROVE Log!Next
      <3>1. phase[t] # "idle" /\ ~InTransaction(t)' BY <2>1, <2>3
      <3>2. InTransaction(t) BY <2>3, <3>1 DEF Basis
      <3>3. \A u \in Threads \ {t} : Basis(u)' = Basis(u)
        BY <2>1, <3>1 DEF IInv, HolderInv
      <3>. QED BY <2>1, <3>1, <3>2, <3>3, MappedEnd
    <2>. QED BY <2>2, <2>3
  <1>8. CASE BreakLease
    BY <1>8, MappedStutter DEF BreakLease, Basis, InTransaction
  <1>. QED BY <1>1, <1>2, <1>3, <1>4, <1>5, <1>6, <1>7, <1>8 DEF LogNext, LogStep, Storage

(* The Delta log, whose appends may land late, unacknowledged or never,    *)
(* implements the log the control store is written against: every commit   *)
(* extends exactly the history its transaction read                        *)
(* (DeltaEvents.transaction).                                              *)
THEOREM LogRefines == LogSpec => ImplementsEventLog
  <1>1. LogInit => Log!Init BY DEF LogInit, Log!Init, InTransaction
  <1>2. LogSpec => [](IInv /\ PutInv)
    BY InitInvariant, StepInvariant, PutInvInductive, PTL DEF LogSpec
  <1>. QED BY <1>1, <1>2, MappedStep, PTL DEF LogSpec, ImplementsEventLog, Log!Spec
=============================================================================
