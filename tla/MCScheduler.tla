----------------------------- MODULE MCScheduler -----------------------------
(***************************************************************************)
(* Instances of Scheduler, cut out of the sample DAG: an extract that may  *)
(* be retried, a load fed by it, a second extract beside them, a cleanup   *)
(* (all_done) that runs after either outcome and an alert (any_failed).    *)
(***************************************************************************)
EXTENDS Scheduler, TLC

CONSTANTS extract, products, load, cleanup, alert,   \* nodes
          writes                                     \* a budget

\* products may run beside extract, and beside load unless the budget forbids it.
ForkPlan    == <<extract, load, products, alert>>
ForkDeps    == (extract :> {}) @@ (products :> {}) @@ (load :> {extract})
               @@ (alert :> {load, products})
ForkTrigger == (extract :> "all_success") @@ (products :> "all_success")
               @@ (load :> "all_success") @@ (alert :> "any_failed")
ForkRetries == (extract :> 1) @@ (products :> 0) @@ (load :> 0) @@ (alert :> 0)
ForkDemand  == [n \in {extract, products, load, alert} |->
                  [b \in {writes} |-> IF n \in {load, products} THEN 1 ELSE 0]]
OneWrite    == [b \in {writes} |-> 1]

\* A cleanup below extract, and products beside them.
SidePlan    == <<extract, cleanup, products>>
SideDeps    == (extract :> {}) @@ (cleanup :> {extract}) @@ (products :> {})
SideTrigger == (extract :> "all_success") @@ (cleanup :> "all_done")
               @@ (products :> "all_success")
SideRetries == (extract :> 1) @@ (cleanup :> 0) @@ (products :> 0)
SideDemand  == [n \in {extract, cleanup, products} |-> [b \in {writes} |-> 0]]

ChainPlan    == <<extract, load, cleanup>>
ChainDeps    == (extract :> {}) @@ (load :> {extract}) @@ (cleanup :> {load})
ChainTrigger == (extract :> "all_success") @@ (load :> "all_success") @@ (cleanup :> "all_done")
ChainRetries == (extract :> 1) @@ (load :> 0) @@ (cleanup :> 0)
ChainDemand  == [n \in {extract, load, cleanup} |-> [b \in {writes} |-> 1]]

History(status, reusable) == [status |-> status, reusable |-> reusable]

NoHistory    == {[n \in Nodes |-> History("NONE", FALSE)]}
AnyHistory   == [Nodes -> {History("SUCCEEDED", TRUE), History("SUCCEEDED", FALSE),
                           History("FAILED", FALSE), History("SKIPPED_CONDITION", FALSE)}]
=============================================================================
