------------------------------ MODULE MCDagPlan ------------------------------
(* DagPlan over every dependency relation on four nodes. *)
EXTENDS DagPlan

FourNodes == 1..4
=============================================================================
