-------------------------- MODULE MCSchedulerStore --------------------------
(* SchedulerStore on the graphs of MCScheduler. *)
EXTENDS MCScheduler, SchedulerStore
=============================================================================
