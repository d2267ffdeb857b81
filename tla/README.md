# A verification model of spark_dag

`spark_dag` runs a DAG of notebooks for one *business key*: an orchestrator
plans the DAG, dispatches child workers through a platform executor, and keeps
every decision in an append-only control store, so that a failed run can be
resumed without repeating side effects. The TLA+ modules here model the parts
that decide *what runs when, and what is recorded*; what a notebook computes is
left out.

## The system

| part | state it keeps | operations | hard because |
|---|---|---|---|
| control store (`control_store.py`) | per business key: run records, node records, outbox effects | `begin_run`, `prepare`, `claim`, `finish_attempt`, `skip`, `record_remote`, `put_outbox`, `finish_run`, `reconcile`; each is one transaction | called concurrently by the orchestrator, executor threads, children (some late, some duplicated) and operators |
| SQLite event log (`control_store.py`) | a table of events | `transaction`, `events` | none: `BEGIN IMMEDIATE` serialises it |
| Delta event log (`control_store.py`, `leases.py`) | a table without constraints, a cache per driver, infinite leases | the same, under a lease | lost acknowledgements, retained and lost leases, stale caches |
| orchestrator (`orchestrator.py`) | a snapshot of the records, active nodes, reservations, the invalidated set | one loop: retry, cancel, reserve, plan, dispatch, wait; then summary and `finish_run` | decides on a snapshot while threads and processes move the store on; the run deadline and backoffs |
| dispatch session (`executors.py`) | futures and their contexts | `submit`, `reap`, `wait`, exit | joins threads; eager or barrier |
| leases (`leases.py`) | one infinite ADLS lease per lock file | `acquire`, `check`, `release`, `retain` | never expire: whoever loses one without releasing it stops everybody |
| executors (`executors.py`) | none of their own | local: run, kill at the deadline; Databricks: submit, poll, cancel; Fabric: one batch | a remote run whose end is not confirmed |
| child worker (`worker.py`) | none of its own | check the context, `claim`, run the component, `finish_attempt` | may die or be killed anywhere; may be late; may be there twice |
| DAG validator (`dag_validator.py`) | none | `validate_dag`, `descendants`, `trigger_status` | pure algorithms everything else rests on |
| checkpoint manager (`checkpoint_manager.py`) | none | `input_fingerprint`, `can_reuse` | decides what recovery may skip |
| artifacts (`artifacts.py`) | files or Delta tables, one path per attempt | `read_source`, `write`, `validate`, `read` | committed before the record that names them; the source may change meanwhile |
| components, canonical XML, configuration, entry points, telemetry, tools | files | I/O and data transformation | not modelled, see the end |

How they interact: the orchestrator calls the store directly, and hands attempt
contexts to the dispatch session. An executor thread per attempt starts a child
and waits for it. The child calls the store itself (`claim`, `put_outbox`,
`finish_attempt`); the executor calls `finish_attempt` when the child ended
without a report, or could not be confirmed to have ended (`uncertain`). The
orchestrator learns of all this only by reading the store again. Nothing calls
back: the store is the shared state. On the Delta backend each transaction runs
under a control lease, and the whole of `Orchestrator.run` under a run lease. A
remote child is a notebook of its own there: it reads and appends from its own
driver, with its own cache, holds no run lease, is checked by the run id of its
context only, and may go on when its orchestrator has left or died.

What makes it correct:

- *store*: one open run per key; recovery from the latest history; an attempt
  starts once; an uncertain attempt is final until an operator settles it; a
  closed run is history; outputs are attributed to the attempt that made them;
  an outbox effect has one content.
- *loop*: budgets hold; every decision is made on records that are still
  current; triggers are evaluated on final outcomes only; it never stalls; the
  run ends.
- *loop with executors and children*: no two attempts of a node work together
  unless the platform lost sight of one; what may still be running is contained
  and holds the run open.
- *Delta log*: a gapless history; every transaction appends to the very history
  it has read; what a driver remembers is a prefix of it.
- *orchestrators on it*: runs do not overlap; whatever is not closed keeps other
  orchestrators out; no thread of an orchestrator goes on after it has left. Its
  remote children may, and what they try to write once their run is not the open
  one is refused.
- *an attempt*: no certain failure over a worker that may still act; a success
  has the output it was planned for; the executor's thread ends.
- *plan*: a topological order, the same every time; cycles are rejected.

## The modules

| module | models | extends or instantiates |
|---|---|---|
| `ControlRecords` | the node record, and what each store operation requires of it and makes of it | |
| `ControlStore` | the store of one business key, under clients that may call anything at any time | `ControlRecords`, `BusinessKey` |
| `BusinessKey` | what the store promises, abstractly | |
| `ControlRecordsProofs` | lemmas: what each operation makes of a record | `ControlRecords`, TLAPS |
| `ControlStoreProofs` | theorems about `ControlStore` | `ControlStore`, `ControlRecordsProofs`, TLAPS |
| `Scheduler` | one run: the loop, the dispatch session, executor threads, children, time | `ControlRecords` |
| `SchedulerRecordsProofs` | the inductive invariant of `Scheduler`, and what every step does to the records, their workers and the types | `Scheduler`, `ControlRecordsProofs`, TLAPS |
| `SchedulerProofs` | what every step does to the loop, and the theorems about `Scheduler` | `SchedulerRecordsProofs`, `SchedulerStore`, TLAPS |
| `SchedulerStore` | the run of `Scheduler` seen as a behaviour of `ControlStore` | `Scheduler`, `ControlStore` |
| `DagPlan` | `validate_dag`'s planning and `descendants` | |
| `DagPlanProofs` | theorems about it | `DagPlan`, TLAPS |
| `EventLog` | what the store expects of its backend: an atomic log | |
| `DeltaLog` | `DeltaEvents` and the control lease: transactions, caches, late and lost appends | `EventLog` |
| `RunLease` | `Orchestrator.run` around the loop: the run lease, executor threads, remote children, aborts, deaths, the operator | `DeltaLog` |
| `DeltaLogProofs`, `RunLeaseProofs` | theorems about these two | TLAPS |
| `AttemptExecution` | the attempts of one node on each platform: executor, remote run, child, source, artifact | `ControlRecords`, `Scheduler` |
| `AttemptExecutionProofs` | theorems about it | TLAPS |
| `MC*` | instances for TLC | |

**Correspondence.** `ControlStore.nodes[r][n]` is the latest `node` entity of run
`r`, `runs[r]` its `run` entity, `outbox` the `outbox` entities. A store action
is one transaction; a call that the code refuses (`CollisionError`, a
`WorkflowError`) changes nothing and is therefore no step. `decided[r]` is not
stored by the code: it is the summary that the orchestrator holds between
`_summary` and `finish_run`, two transactions. `started` is history.

In `Scheduler`, `recs`, `active`, `reserved`, `changed` and `invalid` are the
local variables of `_execute_graph` with those names (`recs` is `records`). `pc`
is the place in its loop and `at` the position of an inner `for key in
self.plan`, so children and executors interleave between any two iterations of
any inner loop. Reserving is such a loop too: an attempt whose executor or child
ends while it runs keeps its place until the next iteration. `exec[n]` is the future of node `n` in the dispatch session,
`child[n][a]` the worker of attempt `a`. A guard `Preparable`, `Skippable` or
`Finishable` in an action of the loop is the store's own check; in the code a
refusal raises and aborts the run, in the model it leaves the loop stuck. That
this never happens is `NeverRefused`: **no store call of the loop is ever
refused**, `submit` never raises `INVALID_DISPATCH` or `DUPLICATE_DISPATCH`, and
`finish_run` always finds the nodes terminal. Deadlock checking is on in the runs
of `Scheduler` besides.

In `DeltaLog`, `table` is the Delta table of one scope, in commit order, `cache`
is `_event_cache`, `lease` the thread whose guard holds the control lease.
`phase[t]` is the place of thread `t` in `DeltaEvents.transaction`: it waits for
the lease (`idle`), holds it (`locked`), has its history (`acting`), has put rows
(`checking`), has sent the append (`writing`), has its acknowledgement
(`remembering`), or is about to release (`leaving`). `write[t]` is its append at
the storage service, which may land after the thread or its driver is gone. A
lease nobody can release any more is `Orphan`.

In `RunLease`, `orch[d]` is the place of driver `d` in `Orchestrator.run`,
`mine[d]` its local variable `run` (0 is `None`), `busy` the executor threads in
an attempt and the remote children under way. A child has a driver of its own; an
executor thread launches it with a context that names the run, `serves[c]`, and
from then on it opens transactions and reads whenever it likes until it ends or
dies, whether or not its orchestrator is still there. An executor thread's attempt
may end over it. An event is its kind: `begin`, `plan` (the nodes), `work` (anything
written for a node, by the orchestrator, an executor thread or a child), `finish`,
`hold` (RECOVERY_REQUIRED) and `settle` (reconcile). Every action of a transaction
checks the history its thread has read, `history[t]`, as the code does, and never
`table`: an orchestrator's `Work` and a `ChildWork` ask only that the run of their
context is the latest and RUNNING, not who began it. The operator acts when all
orchestrators and children have stopped (runbook.md, step 2). When an orchestrator
leaves, the cache of its `DeltaEvents` goes with its services.

In `AttemptExecution`, `exec` is the place of the executor thread in `_execute`
or `execute_batch`; `job[a]` is the process or remote run of attempt `a` (`sent`:
requested and not yet taken up), `child[a]` the place of its child in
`run_child`. `source` counts the versions of what the child reads; `planned` is
the version its `input_fingerprint` is of, `artifact[a]` the version its output
was computed from. The mapping to `Scheduler` sees a requested run, or one whose
child has not claimed, as `launched`.

**Abstractions.** A claim token is drawn at random by each `prepare`, together
with a new attempt number, so the token is the attempt. Outputs are named by the
`<<run, attempt>>` that produced them. Error categories, `retryable` and the
retry policy's categories are one flag. Fingerprints appear as their effect: a
prior success is `reusable` or not, and its inputs are unchanged when the
normalised outcomes of its dependencies are. Time is three things: the run
deadline has passed (`expired`), a backoff has ended (`due`), and whether an
attempt's own deadline had passed, which is drawn at each commit. Groups and
named resources are both *budgets*. `record_remote` writes only the remote run
id, which only `AttemptExecution` reads. A thread that raises ends its attempt in
`AttemptExecution`; what its orchestrator then does is in `RunLease`.

## What the runs check

Each finishes in about a minute on two workers, `delta` in about three.

| run | module, cfg | instance | shows |
|---|---|---|---|
| `store_runs` | `MCControlStore_runs` | 1 node, 3 runs, 2 attempts, 1 operation, 2 digests | `OneOpenRun`, `ParentIsPreviousRun`, `ClosedRunDecision`, `UncertainHoldsRunOpen`, `ClosedRunFrozen`, `OutputsHaveProvenance`, `ClaimedOnce`, `UncertainQuarantined`, and the refinement `ImplementsBusinessKey` |
| `store_design` | `MCControlStore_design` | 1 node, 1 run | violated: `FollowsDesignDiagram` |
| `local` | `MCScheduler_local` | fork of 4 nodes, a shared budget, one retry, a source that may be unreadable, an `any_failed` handler, eager, local | `WithinBudgets`, `SnapshotCurrent`, `NeverRefused`, `NeverStalls`, `OutcomesJustified`, `DependenciesSettled` |
| `recovery` | `MCScheduler_recovery` | chain of 3, any history, `fail_fast`, barrier, planning errors | `ReuseOnlyBelowReuse` |
| `live` | `MCScheduler_live` | 3 nodes, one retry, `all_done` cleanup, a false condition, fairness | `RunEnds` |
| `dispatch` | `MCScheduler_dispatch` | 3 nodes, remote | violated: `UncertainStopsDispatch` |
| `stopped` | `MCScheduler_stopped` | 3 nodes, remote | violated: `RetriedOnlyWhenStopped` |
| `remote` | `MCSchedulerStore_remote` | chain of 3, one retry, remote | `OneWorkerPerNode`, `UncertainContained`, `QuietWhenClosed`, `OnlyStoreOperations` |
| `plan` | `MCDagPlan` | every dependency relation on 4 nodes (65536 graphs) | `PlanIsTopological`, `CyclesRejected`, `PlanIsLeastOrder`, `DescendantsAreReachable` |
| `delta` | `MCRunLease_delta` | 2 orchestrators (one with an executor thread), a remote child, an operator, 6 rows | `Gapless`, `CachesArePrefixes`, `RunsAreSerial`, `QuarantineHolds`, `LeftQuiet`, and the refinement `ImplementsEventLog` |
| `crashed` | `MCRunLease_crashed` | the same, 2 rows | violated: `CrashedRunRetainsLease` |
| `attempts` | `MCAttemptExecution` | 1 node, one retry, all three platforms, a source that changes once, fairness | `UncertainUnlessStopped`, `SuccessIsBacked`, `RemoteRunIsAttempts`, `ExecutorEnds`, and the step refinement `OnlySchedulerSteps` of `Scheduler` |

**The bounds.** Three runs are the fewest that show a reuse of a reuse
(`reused_from_run_id` must skip one run) and a recovery that names an older
parent than the latest. Two attempts are the fewest in which a child of an
earlier attempt is late. Two digests are the fewest that conflict; they are
interchangeable (the store only compares them), hence the symmetry set.
`Retryables = {TRUE}` in the store runs: the store writes the `retryable` flag
and never reads it, so its value only multiplies states; `remote` and the proofs
use both values. The decision on a run whose nodes differ (some critical, some
not) is left to the proofs, which hold for any `Nodes` and `Critical`. The scheduler's graphs are cut out of the sample DAG: the fork has
a shared budget and a join with a failure trigger, the chain a distance of two
(for what lies below an uncertain or invalidated node), the third a cleanup
beside an independent branch. `MaxParallel = 2` never binds in them (what holds a
node back there is the budget, the trigger or the retry); that the loop respects
any `MaxParallel`, and that the session never refuses a batch for it, is what
`BudgetsHold` and `LoopNeverRefused` prove. Six rows are a run that
begins and ends, the beginning of the next one (a beginning is two rows), and one
row more, which a child left from the first run may try to write: the shortest
history in which it could write for a run it does not serve. Two orchestrators and
one executor thread are the fewest in which a thread outlives its orchestrator's
exception and another orchestrator waits. One child is enough for a late one: it is
launched once, and what a second would add, two appends under one lease, the
threads of the orchestrators do already. One
retry is the fewest in which a remote run of an earlier attempt is alive, two
versions of the source the fewest in which it changes between any two steps of a
child. `MaxRuns`, `MaxAttempts`, `MaxRows` and `MaxVersion` cap what the code
leaves unbounded, in the guards of `BeginRun`, `Prepare`, `Put` and
`SourceChanges`. A store that has used its bounds up stops, and so do the
attempts of a node once the last one is settled: `CHECK_DEADLOCK FALSE` is set in
the runs of `ControlStore` and `AttemptExecution` and nowhere else. An orchestrator
that is out of rows may still fail, die or look, so `delta` never stops.

**Fairness of `Scheduler`** (`FairSpec`, for `RunEnds` only). The loop of the orchestrator
keeps running; the run deadline, an absolute time, comes, and so does the end of
a backoff; an executor thread that can act does (a local one waits in
`communicate` with a timeout, a remote one polls with a bounded number of
iterations). A local child ends, because its executor kills it at its deadline.
Nothing is assumed of a remote child, nor of what any child reports, and no
child is assumed to claim or report. The run deadline alone does not give
`RunEnds`: a sleep that did not also wake at it, with a child that died and an
attempt waiting for its backoff, would never end; the mutant
`WakeOnCompletion` shows that.

**Fairness of `AttemptExecution`** (`FairSpec`, for `ExecutorEnds` only). The
executor's thread takes its next step, as every call it makes returns or raises
within the timeout of its client, and the deadline, an absolute time, comes.
Nothing is assumed of the platform or the child: a remote run may stay
`terminating` for ever. That the thread ends nevertheless is what the
cancellation grace is for; the mutant `WaitsForConfirmation` takes it away.

## What the runs found

Four statements of `design.md` are not what the code does.

1. *An uncertain worker stops new dispatch entirely* (lines 68-69).
   Uncertainty is read once per iteration, at its top; an iteration that has
   begun still plans and submits its batch. What does hold, and `remote` checks
   it, is that nothing *below* the uncertain node is attempted. That in turn needs
   `fail_fast` to be off: `fail_fast` cancels a node whose own dependencies still
   run, an `all_done` node below the cancelled one is then attempted beside them,
   and one of them may become uncertain afterwards.
2. *TIMED_OUT -> READY, confirmed stopped only* (line 76). A remote child that
   committed its own retryable timeout makes the record terminal; its executor's
   later `uncertain=True` is then dropped by the early return of
   `finish_attempt`, and the node is retried although its first run was never
   confirmed to have stopped. That child can no longer write to the store (its
   attempt is over, and `OneWorkerPerNode` counts it as done), but its notebook
   may not have returned.
3. The state machine (lines 73-80) has no transition from READY to FAILED or
   TIMED_OUT. Planning errors and executors end attempts that were never claimed.
4. *A crashed/uncertain run retains its run lease* (lines 135-136).
   `Orchestrator.run` retains it only if its local `run` is set, and `begin_run`
   may raise after its append was committed (a lost acknowledgement). The lease
   is then released beside a RUNNING run. The control lease, which the same
   append retains, and the RUNNING record keep the next orchestrator out, which
   is why `RunsAreSerial` holds all the same. `QuarantineHolds` is the part of the
   statement that is true: an orchestrator that *knows* of its run never releases
   the lease before that run is closed.

## What is proved

**The store.** `ControlStoreProofs` proves, with TLAPS and for every finite or infinite set of
nodes, operations and digests and every `MaxRuns` and `MaxAttempts`:

- `TypeCorrect`, `OneOpenRunHolds`, `ParentIsPreviousRunHolds`,
  `ClosedRunDecisionHolds`, `UncertainHoldsRunOpenHolds` (invariants);
- `OutputsHaveProvenanceHolds` (an invariant too, over any number of recoveries);
- `ClosedRunFrozenHolds`, `ClaimedOnceHolds`, `UncertainQuarantinedHolds`
  (action properties);
- `StoreKeepsBusinessKey`, the refinement `ImplementsBusinessKey`.

The assumptions are the named ones of `ControlStore`: critical nodes are nodes,
`NoDigest` is no digest, `retryable` flags are Booleans and the bounds are
naturals. TLC evaluates them in every run.

The argument is one inductive invariant, `IInv`. The invariants above are not
inductive by themselves, and three conjuncts were added:

- `NoneAhead`: runs after `latest` do not exist and have blank nodes. Without
  it, `BeginRun` could find an old record in the place of the new run.
- `DecisionStands`: a decision that has been computed still describes the records
  when `finish_run` commits it. It is what closes the gap between the two
  transactions: once the loop has been left, every record is terminal and none
  is uncertain (or the decision says `RECOVERY_REQUIRED`), and no operation moves
  such a record. `ClosedRunDecision` follows from it at `FinishRun`.
- `ClaimsPast`: an attempt in `started` is not the current attempt of a READY
  record. `ClaimedOnce` follows from it, as `Claim` requires READY.

Every operation on a single node record preserves `IInv` by one lemma,
`OneWrite`, whose premises say what a write may do (only to an open run, not
away from a terminal status once a decision exists, and so on); `FinishWrites`,
`OrchestratorWrites` and `ClaimWrites` show that each operation is such a write.
`BeginRun`, `PutOutbox`, `Summarise`, `FinishRun` and `Reconcile` have a lemma
each, and `StepInvariant` puts them together.

`OneWrite` also says where the outputs it writes come from (`Sourced`): a success
from the attempt that was RUNNING, a reuse from a success of the parent. With
that, `ProvenanceInv` is inductive: a RUNNING or SUCCEEDED record's attempt is in
`started`, and a reused record names a SUCCEEDED one of an earlier run with the
same outputs, which stays, as a success is never written over. For the refinement, each
write is one of the latest run and never over a success, so it is a completion of
`BusinessKey` or a stutter, and `NoneAhead` gives a new generation no successes.

**The loop.** `SchedulerProofs` proves of `Scheduler`, for every acyclic graph in
plan order, any triggers, demands, limits, retries and histories, eager or
barrier, local or remote: `TypeCorrect`, `BudgetsHold`, `SnapshotHolds`,
`LoopNeverRefused`, `LoopNeverStalls`, `OneWorker`, `OutcomesAreJustified`,
`ReuseIsSound`, `ClosedIsQuiet`, the action property `SettledForGood`, and, when
`FailFast` is off, `UncertainIsContained`. The assumptions are the named ones of
`Scheduler`, each of which the code checks before the loop begins: the plan is a
duplicate-free sequence of the nodes in which dependencies come first, the options
are of their types, every node fits into the limits when it is alone, and a node
that may be refused has no retries (all in `validate_dag`).

One inductive invariant, `IInv`, carries these theorems. Its parts:

- `RecordsInv`, about each node: what its status says of its attempt number
  (`AttemptOK`), its executor thread (`FutureOK`) and its children (`ChildOK`: a
  child at work is of the current attempt, and its executor still watches it or has
  declared it uncertain). A node that was planned has *settled* dependencies
  (`SettledOK`): terminal, certain, not retryable, without a thread. Its status is
  one its trigger asks for on them (`Justifies`), and what is above a reused node
  was reused (`ReuseOK`). `InvalidInv` says that the invalidated set is closed
  downwards and holds whatever was attempted.
- `SnapshotInv`: outside the first two phases the snapshot equals the store for
  every node that is not in `active`, because a record moves under the loop only
  while its thread runs, and a thread runs only if it was running at the reap.
- `PlanFailInv`, `CapacityInv`, `DrainInv`: what planning errors, reservations
  (the reserved nodes fit together, and hold every running one) and the end of the
  loop rely on.
- `ProgressInv`, for `NeverStalls`: what an iteration that has written nothing has
  found at the nodes its passes have been over. If nothing runs, the first PENDING
  node of the plan has terminal dependencies only; none of them awaits a retry, or
  the deadline would have cancelled that node; so it is planned unless it does not
  fit, and it fits unless something else is reserved, which is then READY. This is
  where the plan order and the limits are needed.

A step of a thread or a child changes one node by a `SoundMove`, a step of the
loop one node outside `active`; `RecordsStep`, `SnapshotStep`, `CapacityStep`,
`DrainStep` and `ProgressStep` show the parts preserved, one action at a time.
`ReuseIsSound` and `UncertainIsContained` are about nodes at any distance. By the
least-set definition of `Ancestors` no recursion is needed: what holds of the
dependencies, and is inherited, holds of all that is above. `AncestorsInv` (all
above a planned node is settled) needs `CancelledInv`, that without `fail_fast` no
PENDING node remains below a cancelled one.

`RunsOnTheStore` is the composition seen from below: whatever the loop, the
executors and the children do to the records is an operation of `ControlStore`,
called where the store accepts it (`OnlyStoreOperations`), on every graph and
platform. Its guards are what `IInv` says of the caller's knowledge: the loop's
snapshot is current, a finished attempt is the one its caller holds, and
(`DecidedInv`) no summary exists while the loop runs. Its hypothesis, that no
history is reusable, is that of the property: reuse copies the record of a parent
run, which a run of `Scheduler` does not have.

**The Delta log.** `DeltaLogProofs` proves, for any threads, drivers, batches and
`MaxRows`, from the named assumptions of `DeltaLog` (each thread has a driver, a
batch is not empty, `Free`, `Orphan` and `Unread` are none of the values they are
told apart from): `LogTypeCorrect`, `LogIsGapless`, `CachesFollowTheLog`,
`NoCorruptionFound` (no read ever finds the history corrupt) and the refinement
`LogRefines`. The inductive invariant says, besides, who may append: the lease
excludes every other transaction, and a thread that is about to append, or whose
append may still land, has read the whole table. That is the argument for
retaining the lease after an unacknowledged append: a late one meets the table as
its writer has read it, because nobody has got the lease since. `Gapless` alone
is not inductive (a second writer could hold the same history). In the refinement
a transaction of `EventLog` is open from its read until its caller is told, or
until its append can no longer land.

**Orchestrators on the log.** `RunLeaseProofs` proves that every step of `RunLease`
is a step of `DeltaLog` or leaves it alone (`RunsUseTheLog`), so that the theorems
above hold of the composition (`SharedLogIsGapless`, `SharedCachesFollow`,
`RunsRefineTheLog`), and `OrchestratorsLeaveQuiet`. Its invariant (`QuietInv`) adds
that a thread of an orchestrator's driver is in a transaction only while that
orchestrator is in `run`, as its main thread or as a busy executor thread. It is
proved together with the log's, because that a leaving orchestrator may take its
cache with it needs its threads to be at rest. Of children it says nothing: they may
be anywhere.

`RunsNeverOverlap` proves `RunsAreSerial`. By the log's invariant an append meets
the very history its thread has read, so it is enough that what is on its way to the
table is what *that history* allows (`DecidedInv`): a beginning after a history that
is closed, work by the owner of its last, open beginning, or work by a child whose
context names that beginning's run. A context is given once, by a thread of an
orchestrator that knows of its run (`ServesInv`), so a late child of an earlier run
finds another number than its own. That an orchestrator which
writes work is the owner is `KnowledgeInv`: what each orchestrator knows by where
it is. Between `begin_run` and the end of `run` the row that began its run (`mine`)
is in the table and its own, and since it alone holds the run lease (`EntryInv`)
nobody else begins another: only the operator may settle it.
`QuarantineKept` proves `QuarantineHolds`: an orchestrator that has had its finish
acknowledged is alone with a closed run (a child may still open a transaction, and
finds the run closed), and in every other way out that knows of
a run it retains the lease.

**The attempts of a node.** `AttemptExecutionProofs` proves, for any platforms, any
`MaxRetries` and any `MaxVersion`, `NoCertainFailureOverALivingWorker`,
`RecordedSuccessIsBacked`, `RecordedRunIsAttempts` and the step refinement
`AttemptsAreScheduled`, from the two named assumptions of `AttemptExecution`. Its
invariant adds three facts. Of all the attempts only the current one may be live, and later ones have no job (`JobsOK`):
a retry needs a record that is certain. A certain terminal record, or a certain
finding on its way to the store, means that the current job has ended or its
child has reported (`SettledOK`); the finding is where the proof needs `Stopped`
to mean *ended*, not *terminating*, and the uncertain findings of
`GraceElapses`, `SubmissionRaises`, `CallRaises` and `FabricReturns` to be
uncertain. And the child holds
a version of the source between the planned one and the present one (`InputOK`),
so that when it finds the source unchanged once more before its report, what it
wrote is of the planned version: that is where the proof needs the source never
to return to an earlier version.

`AttemptsAreScheduled` closes the gap to `Scheduler`: every step, until a thread
raises, is one that `Scheduler` gives its executors and children, or is not seen
there. It rests on one more invariant, `SeenInv`: an executor that is about to
fail the attempt as uncertain is a remote one, and one that is certain has seen
the job end or has not begun it, so that `Scheduler` sees no worker (a child that
has reported is *seen* until its job ends).

**The plan.** `DagPlanProofs` proves `PlanIsTopologicalHolds`,
`CyclesRejectedHolds`, `PlanIsLeastOrderHolds` and
`DescendantsAreReachableHolds` from one assumption, that the nodes are a finite set
of naturals (`NodesAssumption`; the order of the naturals is that of the node
keys). The invariant of the planner says that each indegree counts the
dependencies not yet planned, that the heap is exactly the unplanned nodes without
such, and that each node planned was the least of those at its place (`Greedy`).
A topological order other than the plan differs from it at a first place, where
the plan has the least node that any topological order can have. When the heap
is empty, every unplanned node has an unplanned dependency, so that they are a
cycle; and no set in which every node has a dependency has a first node in a plan. The
worklist of `descendants` is contained in every closed set above the origins,
and what has been worked off is closed.

**Only model-checked**: `RunEnds` and `ExecutorEnds`. They are liveness properties
under fairness, out of this prover's reach. Every invariant and every action
property that a run checks, refinements included, is proved besides, for all
values of the constants its assumptions allow. Two theorems have a hypothesis
more, as their properties need it: `UncertainIsContained` (no `FailFast`) and
`RunsOnTheStore` (no reusable history).

## What is not modelled

- What an orchestrator that aborts leaves in the records of its nodes, together
  with the loop that left it: `RunLease` has the abort without node records,
  `ControlStore` the records under any abandoned orchestrator.
- The creation of the Delta table under its own lease, once per table.
- A Fabric batch of several nodes call by call; `Scheduler` has its return.
- Why an attempt is refused (approval and compensation rules, a deployment that
  changed): one nondeterministic outcome, or a constant set. `normalize_request`
  keeps no state.
- The contents of artifacts and sources, their digests and formats; a source that
  returns to an earlier version (its fingerprint would be the same again).
- Components, canonical XML: data. Configuration: stateless, its results are the
  constants. Entry points, telemetry, tools: wiring and output.

## Plan

Done: `ControlRecords`, `ControlStore`, `BusinessKey`, `Scheduler`,
`SchedulerStore`, `DagPlan`, `EventLog`, `DeltaLog`, `RunLease`,
`AttemptExecution`, their runs, and the theorems of the store, the loop, the log,
the orchestrators on it, the attempts and the plan.

Left, in this order:

1. A batch of several nodes on Fabric, in `AttemptExecution`.
2. `ControlStore` over `DeltaLog`, with the node records in the rows.
3. `OnlyStoreOperations` with reuse, over a store that has the parent run.
