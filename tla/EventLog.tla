------------------------------ MODULE EventLog ------------------------------
(***************************************************************************)
(* What the control store expects of its backend (EventStore in            *)
(* src/spark_dag/control_store.py), with no lease, cache or network: the   *)
(* history of a scope is a sequence of events, and a transaction appends   *)
(* to the very history it has read.                                        *)
(***************************************************************************)
EXTENDS Naturals, Sequences

CONSTANTS Clients,   \* the threads that open transactions
          Unread     \* a client that is in no transaction

VARIABLES log,       \* the events of the scope
          basis      \* client -> the history its open transaction has read

vars == <<log, basis>>

Init ==
    /\ log = << >>
    /\ basis = [c \in Clients |-> Unread]

Begin(c) ==
    /\ basis[c] = Unread
    /\ basis' = [basis EXCEPT ![c] = log]
    /\ UNCHANGED log

(* Nothing has been committed since c read the history.  A client that has *)
(* given up by then will not hear of it.                                   *)
Commit(c) ==
    /\ basis[c] = log
    /\ Len(log') > Len(log)
    /\ SubSeq(log', 1, Len(log)) = log
    /\ basis' \in {basis, [basis EXCEPT ![c] = Unread]}

End(c) ==
    /\ basis[c] # Unread
    /\ basis' = [basis EXCEPT ![c] = Unread]
    /\ UNCHANGED log

Next == \E c \in Clients : Begin(c) \/ Commit(c) \/ End(c)

Spec == Init /\ [][Next]_vars
=============================================================================
