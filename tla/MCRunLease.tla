------------------------------ MODULE MCRunLease ----------------------------
(* Two orchestrators, the first with an executor thread, a remote child,   *)
(* and the operator.                                                       *)
EXTENDS RunLease, TLC

CONSTANTS d1, d2, desk, job, m1, x1, m2, c1, op

MCDriverOf ==
    [t \in {m1, x1, m2, c1, op} |->
        CASE t \in {m1, x1} -> d1 [] t = m2 -> d2 [] t = c1 -> job [] t = op -> desk]
MCMain == (d1 :> m1) @@ (d2 :> m2)
MCBatches == {<<"begin", "plan">>, <<"work">>, <<"finish">>, <<"hold">>, <<"settle">>}
=============================================================================
