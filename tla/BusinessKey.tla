----------------------------- MODULE BusinessKey -----------------------------
(***************************************************************************)
(* What the control store promises about one business key, without saying  *)
(* how: its runs are generations that never overlap, the result of a node  *)
(* in a generation is written once, only while that generation is open,    *)
(* and an outbox effect, once emitted, keeps its content in every later    *)
(* generation.  ControlStore implements this module.                       *)
(***************************************************************************)
EXTENDS Naturals

CONSTANTS Nodes,       \* the nodes of the DAG
          Effects,     \* the outbox effects a business key may have
          Digests,     \* the contents an effect may carry
          NoDigest,    \* an effect that was never emitted
          MaxRuns      \* bound on the generations

VARIABLES phase,       \* "idle", "open" (a run is going) or "held" (recovery required)
          generation,  \* the number of runs so far; the last is the one that may be open
          results,     \* the <<generation, node>> pairs whose success is recorded
          effects      \* effect -> the digest it was emitted with, or NoDigest

vars == <<phase, generation, results, effects>>

Init ==
    /\ phase = "idle"
    /\ generation = 0
    /\ results = {}
    /\ effects = [e \in Effects |-> NoDigest]

(* A new generation opens only when none is open or held. *)
Open ==
    /\ phase = "idle"
    /\ generation < MaxRuns
    /\ phase' = "open"
    /\ generation' = generation + 1
    /\ UNCHANGED <<results, effects>>

(* A success of the open generation is recorded, once. *)
Record(n) ==
    /\ phase = "open"
    /\ <<generation, n>> \notin results
    /\ results' = results \cup {<<generation, n>>}
    /\ UNCHANGED <<phase, generation, effects>>

(* An effect is emitted once, with one content. *)
Emit(e, d) ==
    /\ phase = "open"
    /\ effects[e] = NoDigest
    /\ effects' = [effects EXCEPT ![e] = d]
    /\ UNCHANGED <<phase, generation, results>>

(* The generation ends, or is held until an operator releases it. *)
End ==
    /\ phase = "open"
    /\ phase' \in {"idle", "held"}
    /\ UNCHANGED <<generation, results, effects>>

Release ==
    /\ phase = "held"
    /\ phase' = "idle"
    /\ UNCHANGED <<generation, results, effects>>

Next ==
    \/ Open
    \/ \E n \in Nodes : Record(n)
    \/ \E e \in Effects, d \in Digests : Emit(e, d)
    \/ End
    \/ Release

Spec == Init /\ [][Next]_vars
=============================================================================
