# A TLA+ verification of the Punk audience engine

This directory holds TLA+ specifications of the stateful parts of the Punk
audience engine, TLC configurations that model-check them on small instances,
and TLAPS proofs of the properties that matter most. Every definition is
translated from the Python source; `PROJECT.json` maps each one to its lines.

## 1. Inventory of the system

The engine is a set of Python services over PostgreSQL (most stores also run on
SQLite in tests), S3, SQS, Step Functions and Glue. It has five product modules
(ingestion and privacy, embeddings and retrieval, cohorts, evolution control,
bounded agent orchestration) and an HTTP API in front of them. What it keeps
and what can go wrong, by component:

**Provider ingestion** (`provider_ingestion_*`, `provider_queue_service`,
`provider_replay_service`, `provider_object_ingestion_gateway_service`).
State: one row per provider object in `provider_ingestion_objects` (status,
attempt count, canonical reference), the messages of an SQS queue and its
dead-letter queue, the canonical output in S3. Operations: a worker's `run_once`
(recover stale rows, receive, process, acknowledge / retry / dead-letter), the
gateway's `ingest_object` (claim, validate, read, privacy pipeline, canonical
write, complete), `prepare_controlled_replay` and `mark_replay_enqueued`.
Interactions: messages, and the row shared by all workers. Hard: at-least-once
delivery, visibility timeouts under a live worker, crashes between any two
calls, status changes that read and write the row in two steps with no lock.
Correct when: no object is left behind, a completed row has its output, every
message is settled, stale rows are recovered, one object is processed once.

**Distributed privacy budget** (`provider_distributed_privacy_budget_service`).
State: `provider_privacy_releases`, one row per dispatch attempt of an object.
Operations: `reserve` (idempotent; parallel composition inside a privacy window)
and `mark_terminal`. Called by the control plane Lambda and the reconciliation
job. Hard: concurrent reservations of one scope, terminal marks that race, what
a failed release still costs. Correct when: no scope is charged beyond its
budget, each window group is charged enough for its worst partition, committed
reservations and terminal statuses never change.

**Privacy windows and data rights** (`provider_privacy_window_service`,
`provider_data_rights_service`). State: windows (open, sealed, revoked), their
partition rows, the canonical partitions (candidate, active, revoked) that
consumers may read, data-rights requests. Operations: register, mark ready,
seal, revoke, apply. Hard: registration, completion, sealing and revocation run
concurrently; two of the four take an advisory lock. Correct when: only a
complete window is sealed, an open window serves nothing, a sealed one serves
every partition, and nothing revoked comes back.

**Distributed data plane** (`provider_distributed_data_plane_service`,
`provider_distributed_reconciliation_service`, `provider_scale_execution_service`,
`infrastructure/stepfunctions`). State: the Step Functions execution of each
dispatch attempt, its Glue run and the `result.json` all attempts of an object
share; it moves the ingestion row, the release and the window. Operations:
`submit_or_get`, `prepare`, `finalize`, `fail`, `reconcile`. Interactions: the
gateway starts an execution, whose tasks invoke a Lambda and Glue; a scheduled
job closes what is left. Hard: three stores written one after the other, retried
tasks, a reconciliation that races a late success, two executions of one object.
Correct when: no run reads data without a charge, what is served was computed,
row, release and partition agree, and a dispatched object is settled.

**Fresh data workflow** (`production_fresh_data_workflow_*`) and **feature
build** (`production_feature_build_*`). State: one row per workflow or build
with a claim token, a lease and a stage; an append-only event log. Operations:
claim (also of an expired lease), transition, run a stage. Hard: a worker that
outlives its lease, a crash between the side effect of a stage and its
transition. Correct when: one holder of a claim at a time moves the row, stages
are not skipped, a terminal row is final, an expired lease is taken over.

**Index lifecycle** (`production_module2_index_lifecycle_service`). State: a row
per index version with its status, and an event trail. Operations: register,
build, validate, promote to shadow, and the atomic switch of an activation or a
rollback. Hard: two switches at READ COMMITTED, each of several statements that
lock rows in different orders, with a target read long before it is written.
Correct when: one version is active, only validated versions are served, no
failure leaves the tenant without its index, every switch ends.

**Audience jobs** (`core/audience_job_store`, `api/audience_intelligence_jobs`,
`audience_run_history_service`, `api/audience_intelligence_run_history`). State:
a job record and a run-history record of the same run. Operations: create, run
in the background, approve, reject, through two different APIs. Hard: whole
records are read and written back by background tasks and requests; two records
hold one approval. Correct when: an approved or rejected decision is not lost,
and export is allowed only for an approved run.

**Bounded autonomy** (`production_bounded_autonomy_service`,
`production_agent_authorization_service`). State: local to one run: the plan, the
attempts spent, what has failed, the outcomes available. Operations: plan,
execute a task (its preflight, handlers and critic), replan without what failed,
report. Interactions: it calls handlers, which may complete with less than they
declare, fail, be denied or raise. Hard: attempts counted per task, per
execution and per run; a replan that inherits nothing but its exclusions.
Correct when: the run's budget holds over all plans, a run is ready only if
everything was delivered, every plan can be executed in its order.

**Evolution control** (`production_module4_*`) and the **supervisor**
(`agents/audience_supervisor_*`): they evaluate snapshots and prompts and return
reports; nothing they decide is executed by them.

The rest (embedding and retrieval, cohort scoring, proposals, gates that evaluate evidence
reports, migrations, request parsing, presentation) computes over its inputs
without protocol state; `PROJECT.json` lists each part and why it is left out.

## 2. Plan

In order of how much depends on each part:

| # | module | what | state |
|---|--------|------|-------|
| 1 | `ProviderIngestion` (over `ProviderIngestionState`) | workers, queue, gateway, rows, replay | checked and proved |
| 2 | `PrivacyBudget`, implementing `PrivacyLedger` | the epsilon ledger of the distributed path | checked and proved, refinement included |
| 3 | `PrivacyWindow` | windows, canonical partitions, data rights | checked and proved |
| 4 | `FreshDataWorkflow`, implementing `FreshDataOutcome` | workflow lease, stages, feature build | checked and proved, refinement included |
| 5 | `FreshDataTrigger` | the poll that starts workflows | checked and proved |
| 6 | `AudienceApproval` | jobs, run history, ledger, decisions, export | checked and proved |
| 7 | `ProviderDistributed` (over `ProviderIngestionState`) | dispatch, prepare, Glue, finalize and reconciliation under Step Functions' retries | checked and proved |
| 8 | `IndexLifecycle` | index versions, activation and rollback | checked and proved |
| 9 | `BoundedAutonomy`, with `AutonomyRegistry` and `AutonomyPlanner` | planner, executor, replanning | checked and proved |

`ProviderDistributed` composes the first three: its actions are the control
plane's calls of `reserve`, `register_partition`, `mark_partition_ready`,
`mark_terminal` and `transition`, each a step of a retried Lambda task. What
`PrivacyBudget` and `PrivacyWindow` say in detail is a choice there: the budget
allows or refuses, the window takes the partition or does not.

## 3. How the modules correspond to the code

A database transaction is one action whenever nothing another process does can
come between its statements (a lock, a single conditional statement); otherwise
each read and each write is an action of its own. What a process remembers
between two actions is a variable indexed by the process. A crash forgets it.
Every bound on faults is a constant, counted in a variable of the model.

**`ProviderIngestionState`** holds the transition table and
`is_transition_allowed`. **`ProviderIngestion`** has a row per object
(`status`, `stale` for "older than the stale cutoff", `canonical` for the output
object), a queue (`place`, `receives` for ApproximateReceiveCount,
`deadLetters`), and workers (`pc`, the `held` message with its receipt
`handle`, and what they remember). `Poll` is the head of `run_once`,
`RecoverStaleInProgress` included; `ResolveMessage` the parsing of the message
and the receive-count check; `ClaimNewObject`/`ClaimDuplicate` the INSERT ... ON
CONFLICT of `claim_object`; `SelectRow` and `UpdateRow` the two statements of
`transition`; `LoadObject`, `RunPrivacyPipeline`, `WriteCanonical` the body of
`ingest_object` with each of its outcomes; `Acknowledge`, `ScheduleRetry`,
`SendToDlq`, `DeleteDeadLettered` the end of `process_message`.
`DatabaseUnavailable` and `AbandonMessage` are failed calls and crashes,
`VisibilityTimeout` and `RowAges` the passage of time, `ReplayRead` to
`MarkReplayEnqueued` the controlled replay. `author` is a history variable: the
message whose handling wrote the row last. The proof needs it.

**`PrivacyBudget`** has one row per release and one transaction per caller:
`LockScope`, `ReadScope` (the four SELECTs of `reserve`) and `InsertRelease`
under the advisory lock, `ReadRelease` and `UpdateRelease` of `mark_terminal`
without one. The table and the sums over it are in **`PrivacyLedger`**, which also
says what the two calls promise: the table changes as if each call were one step,
a reservation is admitted at a charge that keeps budget and composition, or
refused because the budget as it is then has no room for its epsilon. Epsilon is
counted in whole units; a sum is the cardinality of a
set of units, which is what the proofs about it use.

**`PrivacyWindow`** is one window: `RegisterRead`/`RegisterWrite` under the
window's advisory lock, `ReadyRead`/`ReadyWrite`/`ReadyCommit` of
`mark_partition_ready` without it, `SealRead`/`SealWrite` under it, `Revoke` and
`MarkApplied` of a data-rights request without it. `ReadyWrite` and
`ReadyCommit` are apart because the transaction counts the ready partitions
before others can see its own.

**`FreshDataWorkflow`** is one request: the workflow row (`status`, `owner`,
`expired`), the feature build row (`build`), the feature store (`published`),
and for each worker where `execute()` is (`pc`, `target`) with its local copy of
the status (`known`). `Claim` is `claim`, `Advance`/`Skip` the loop of
`execute` over the stages, `Record` the guarded UPDATE of `transition`,
`ClaimBuild` to `ReadSnapshot` the durable feature build, `GiveUp` and `Raise`
the except clauses, `Crash`, `LeaseExpires`, `LeaseIsOutrun` what happens to
processes and clocks. **`FreshDataOutcome`** is what all of this promises: one
verdict that never changes, and a review only of a published feature set.
**`FreshDataTrigger`** is `run_once` of the trigger: `Poll` lists the newest
`Limit` completed rows, `Trigger`/`Refuse` walk them oldest first, `Abort` is an
exception the poll does not catch.

**`AudienceApproval`** is a job and the run it makes: the job record (`job`,
`jobApproval`, `jobExport`), the background task (`agent`), the run-history row
with its columns (`approval`, `export`) and its JSON summary
(`summaryApproval`, `summaryExport`), the ledger (`charges`), and requests.
`CreateJob` to `JobDies` are `run_job` and `_run_job_background`; `ApproveJob`
and `ApproveRun` the two APIs; `Decline`, `BeginCharge`, `RecordDecision` the
branches of `_decision`; `ReadLedger` and `WriteLedger` the transaction of
`check_and_record`; `Reread` and `SaveJob` what the job API does afterwards;
`RejectRun`, `ExportMeta`, `RecordExport` rejection and the gated export.

**`ProviderDistributed`** is one object that is too large for the worker. The
row (`status`, `attempts`, `distributed`, `arn`, `job`, `ref`) is read and written
in two steps by every `transition`, as in the code: `SelectForMessage` /
`UpdateForMessage`, `SelectForInvocation` / `UpdateForInvocation`, the two halves
of `ReconcileRow`. `Claim`, `Plan` and `Submit` are `ingest_object`,
`_dispatch_distributed` and `submit_or_get`. `Invoke`, `GlueEnds`, `Returns` and
`Raises` are the state machine of the ASL file, whose executions are numbered by
the dispatch attempt that names them. An invocation (`ipc`, `path`) walks through
`prepare` (`Reserve`, `Register`, `Stage`), `finalize` (`Load`, `Verify`,
`Publish`, `Annotate`) or `fail`; `SelectRelease`/`UpdateRelease` are
`mark_terminal`. `List` to `ReconcileRow` are `reconcile`. `InvocationDies` makes
the task retry, `LosesContact` makes it retry while the first invocation still
runs, `Aborts` ends the execution while its invocation or its Glue run goes on.

**`IndexLifecycle`** has the table (`status`, `manifest`, `event`) and a
transaction per operator (`pc`, `target`). A lifecycle transition is one UPDATE
guarded by the expected status and hence one action. A switch is a transaction
of several: `PromoteToActive` or `Rollback` with the SELECT of the target,
`RetireScan` and `RetireRows` (the snapshot of the retiring UPDATE, and its
writes once it has waited for the rows' locks), `ActivateRow`, and `Commit` or
`UniqueViolation` by the partial unique index of migration 0011.
`DeadlockVictim` is the server's deadlock detector. `passed` is a history
variable: the versions whose validation passed.

**`BoundedAutonomy`** is one run. While its phase is "planning" it takes the
steps of `plan()`, and `BeginExecution`, `GoalUnplannable` or `PlanningRaises`
is what `run()` does with the outcome. `Skip` to `TriedAgain` are the branches
of the executor's loop, `HandlerDenied` the authorization wrapper,
`ResultRejected` an exception of `_validate_result`, `Replan` and `Report` the
service's loop around the executor. **`AutonomyRegistry`** has the descriptors
and the registry's queries. **`AutonomyPlanner`** is `plan()`, one step at a
time: the depth-first selection of producers has the outcomes still to be
resolved on a stack (`todo`; `AlreadyProduced`, `SelectProducer`, `NoProducer`),
then come the preflights (`SelectPreflight`) and what these require
(`ResolveLate`), the topological order layer by layer (`NextLayer`, `OrderTask`,
`Cycle`), and the limits and objections of `validate_plan`. A preflight that
requires an outcome nobody has produced makes `plan()` change the selection while
it iterates over it, which Python answers with a RuntimeError
(`SelectionChanged`). The default registry has no such preflight; the run has.

### Abstractions to know about

- Time is one bit where it matters: a lease is expired or not, a row is stale or
  not, a receipt is visible or not. Any expiry may happen at any moment; those
  that happen while the owner still works are counted (`MaxDelays`).
- A worker identity belongs to one process at a time.
- All stores are PostgreSQL at READ COMMITTED; the SQLite and file variants are
  for tests and local use.
- In `AudienceApproval` two transactions on the run history exclude each other,
  and so do two on the ledger (`Free`). The code names no such lock: it is the
  ACCESS EXCLUSIVE lock of the `ALTER TABLE ... ADD COLUMN IF NOT EXISTS` that
  every transaction repeats. The mutant for `BudgetKept` shows what depends on
  it. `check_and_record` runs while the transaction of `_decision` is open, on
  another connection and another table; it never waits for the first one.
- In `IndexLifecycle` row locks and snapshots are those of READ COMMITTED; the
  operators' transactions are the only ones that lock rows for more than a
  statement.
- In `FreshDataTrigger` a row completes, takes its `updated_at` and is visible in
  one step, and is not written again. `transition` takes the time before it
  commits: of two completions that overlap, the older may become visible after a
  poll that lists the newer one.
- In `ProviderDistributed` one object is modelled with its releases; what other
  objects do to the budget and the window is in the choice of the two.
- A handler of `BoundedAutonomy` is its result: any part of what it declares,
  any other status, or an exception. The kernel stores no time-outs for it
  (`timeout_seconds` and `idempotent` of a descriptor are read nowhere).
- Reason codes, contents of reports, row data and formatting are left out; the
  outcome of a computation over them is a nondeterministic choice.

## 4. What each run checks and shows

Every property of a passing run has a mutant: a change of one modelled
definition, of the kind a programmer would make, under which TLC finds that
property violated in that run's own instance.

| run | instance | properties |
|-----|----------|------------|
| `ingestion` | 2 workers, 1 object, a notification and a controlled replay, 1 fault, 1 early timeout, 2 receives | `CompletedHasOutput`, `NoObjectLeftBehind` |
| `ingestion_live` | 2 workers, 2 notifications of 1 object, 1 fault, fair | `MessagesAreSettled`, `StaleRowsAreRecovered` |
| `budget` | 2 callers, any 3 of 5 releases over 2 scopes that share a window identifier | `BudgetNeverExceeded`, `ParallelCompositionCovered`, `ReservationsAreFrozen`, `KeepsTheLedger` |
| `window` | 2 partitions, a correction of one, 2 requests of which 1 overlaps, 2 dead invocations | `SealedIsComplete`, `OpenServesNothing`, `SealedServesCurrent`, `RevocationIsFinal` |
| `fresh_data` | 2 workers, 2 crashes, 1 exception, 1 outrun lease, valid input or input that one or two stages reject, fair | `PipelineIsExclusive`, `ReviewIsBacked`, `HolderIsCurrent`, `NeverBackwards`, `KeepsItsPromises`, `WorkflowConcludes` |
| `fresh_data_trigger` | 4 deliveries, 1 bad, 2 polls cut short, a poll of 4, fair | `PollerTypeOK`, `InOrder`, `EveryDeliveryIsTriggered` |
| `approval` | 2 runs of one scope, 2 requests, 1 fault, a budget 1 short of both | `BudgetKept`, `ApprovalIsCharged`, `ExportedIsCharged`, `CompletedJobHasRun`, `RejectionSticks` |
| `distributed` | 1 message, up to 3 dispatches, 2 overlapping invocations, reconciliation, 1 fault of any kind, fair | `RunIsCharged`, `ServedIsVerified`, `ProcessingNamesRelease`, `SoleExecutionAgrees`, `DispatchedIsSettled` |
| `index` | 3 versions, 4 manifests (two of one version), 2 operators, fair | `OneActive`, `ServedWasValidated`, `TrailFollows`, `ServingContinues`, `SwitchEnds` |
| `autonomy` | 12 goals, 16 capabilities, complete or missing handlers, full or partial grants that expire | `AttemptsWithinBudget`, `ReadyMeansDelivered`, `PlanIsSound`, `ReplanChangesRoute` |

Where type correctness is proved (section 5) it is not model-checked again.

What the passing runs show of the code:

- An object whose row is claimed and not final always has a message that the
  queue, the dead-letter queue or a committed replay still pursues, whichever
  worker wrote the row last (`NoObjectLeftBehind`). It needs that no visibility
  timeout expired under a live worker: that is its premise `delays = 0`.
- The advisory lock on the scope is enough for the budget of the distributed
  path, and the existence queries charge each window group enough for any one
  of its partitions, retries included.
- A reservation is never decided on a stale sum: it is refused only when the
  budget is short at the moment of its INSERT (`KeepsTheLedger`).
- `mark_terminal` needs no lock: its UPDATE repeats the condition. That a terminal
  status is final (`TerminalReleaseIsFinal`) follows from `KeepsTheLedger`, and is
  proved on its own.
- A sealed window is complete and serves every partition, an open one serves
  nothing, and neither a repeated seal nor a correction brings revoked output
  back, although two of the four operations ignore the lock.
- The workflow lease makes the build row safe without a lease of its own.
- An approval always follows a charge, a rejection is final for the export,
  and a payload is only ever generated for a charged run.
- No Glue run reads data without an allowed release, and whatever is served is
  the output of a run that completed, although all attempts of an object write
  one `result.json` and their executions may overlap.
- While one execution was started and none was cut off under a running
  invocation, row, release and partition agree: `finalize`, repeated from any
  point at which it died, passes what it did before.
- A dispatched object is settled by its execution or by `reconcile`, which finds
  the release of a processing row through `privacy_job_id`.
- Concurrent switches of the index never serve two versions or none, and never
  one that was not validated; it takes the unique index, and for termination the
  server's deadlock detector. No conflict is found by the statements themselves.
- The kernel's budget holds over all plans of a run, by the loop condition of
  the service alone; a ready run has completed every task of its last plan.
- Every plan that is executed can be executed in its order, although
  `validate_plan` looks neither at the order nor at the modes nor at what a task
  waits for: those hold by the way `plan()` builds it.

Two runs end in a violation: a document of the repository says one thing and the
code does another.

| run | what it shows |
|-----|---------------|
| `window_revoked` | A seal that read the window open activates its candidates after a data-rights revocation has committed: a revoked window serves (docs/provider_billion_event_scale_boundary.md:94). |
| `distributed_duplicate` | Two notifications of one object, with no crash at all, start two executions that run at the same time: the second notification's own start fails, makes the row retryable, and the retry dispatches under a new name (docs/provider_billion_event_scale_boundary.md:41). |

### What does not hold

These properties are stated in the modules, or follow from the runs' states, and
TLC refutes them; no run is spent on each. They mark how far the properties above
can be strengthened before the code has to change.

- `SideEffectsExclusive`, `CompletedIsFinal` and `ClaimedObjectsAdvance` of
  `ProviderIngestion`: two notifications of a failed object run its pipeline and
  canonical write twice at once; a completed row can be overwritten with failed,
  because `transition` reads the row without a lock; an object whose
  worker died while it was `received` is never processed, and its messages end in
  the dead-letter queue.
- `SupersededIsNotServed` and `CompleteWindowIsSealed` of `PrivacyWindow`: a late
  `mark_partition_ready` adds a candidate for a superseded delivery; two last
  partitions that become ready together each miss the other and nobody seals.
- `CrashesAreHarmless` and `RejectionIsRecorded` of `FreshDataWorkflow`: a
  process that dies inside the feature build leaves a build row nobody resumes,
  so that a takeover records the workflow failed; a rejection in the two Module
  3 stages has no transition to quarantined and is executed again.
- `EveryDeliveryIsTriggered` of `FreshDataTrigger` with more completed rows than
  a poll lists: the poll takes the newest ones, and an older one is starved.
  `InOrder` says for this reason "while the completed rows fit in one poll".
- `ChargedOnce` of `AudienceApproval`: the charge commits before the approval; if
  the approval dies in between, the next one charges again.
- `SoleExecutionAgrees` of `ProviderDistributed` with two notifications of one
  object. The handling of the second fails after it has read the row as
  dispatching, the first one's submission writes dispatched and its execution
  completes the row, and only then does the second write failed over it; the
  partition becomes ready. `SoleExecutionIsConsistent` therefore assumes one
  message, which the queue may deliver any number of times.
- The same without its premise: when an execution is aborted under a running invocation, `reconcile` may mark the
  release failed between the SELECT and the UPDATE of `mark_terminal`, which then
  returns normally and the row is completed. With overlapping executions an
  execution may also finalize with the result of another's run, because the key
  of `result.json` contains the fingerprint and not the attempt. A test
  (tests/test_provider_distributed_data_plane_service.py:277) expects that a
  completed result "cannot be replaced"; of two finalizations that both read the
  row before either completes it, the second replaces the first, since the
  transition table allows every status to itself.
- In `ProviderDistributed`, a `prepare` that dies for good after the reservation
  leaves its release reserved, unless `reconcile` lists the row as processing;
  and a worker that dies with a retried row in `validating` leaves
  `execution_mode = distributed` in the metadata, which excludes the row from
  stale recovery, in a status `reconcile` does not list.
- In `IndexLifecycle`, an activation that read its target as shadow still
  activates it after another operator activated it and rolled back; a rollback
  makes a shadow version active without any condition of an activation; and
  `promote_to_active` checks `data_use_mode` on the caller's manifest, which is
  not compared with the registered one.
- In `BoundedAutonomy`, a replan also excludes a task that was only skipped,
  where docs/module5_6_bounded_autonomous_orchestration.md:65 speaks of the
  failed capability; and the closure takes the first producer of each outcome,
  which is deterministic but not the minimal one of line 24.

### Bounds, and why they are enough

The races of this code are between two parties: two workers on one row, two
reservations of one scope, a seal and a revocation, a worker and the one that
takes its lease over. Two processes and one shared row show each of them; what
a third adds is covered by the proofs, which hold for any number. Rows of
different objects, windows and requests share nothing, so one of each is
enough, except for the budget, where two scopes and groups with the same name
are in the instance. `MaxReceiveCount = 2` allows a retry and a dead-letter.
One fault is enough to die between any two calls; `fresh_data` has two crashes
so that a takeover can itself be taken over, `window` two so that both a
partition and its correction can be abandoned. The budgets are chosen to admit
some reservations and refuse others. In `distributed` the three dispatches allow
a retry of a retry, two invocations any overlap of two steps, and the one fault
is any of six: a death of the worker or of an invocation, a lost start receipt,
a lost contact, an abort, a failed `describe_execution`. In `index` three
versions are an active one, its successor and a rollback target, and two
operators make every conflict of two transactions, the deadlock included. In
`autonomy` the goals make planning succeed, fail for want of a producer, for a
cycle and for an excluded critic, and be rejected, and make replanning succeed,
fail, and run into the limits of tasks, attempts and replans; attempts are at
most 24. `fresh_data_trigger` has as many deliveries as a poll lists, which is
what its properties need. `FewReleases` limits a
behaviour to three of the five releases, which is what a counterexample to
either sum needs: two of one partition and one of another. Symmetry is used only where no liveness
property is checked. Deadlock is not checked where the system may stop: a window whose
deliveries are over, a workflow that has concluded, an object that is settled,
index versions that have all failed validation.

### Fairness

- `ingestion_live`: weak fairness of each worker's next step (`run_once` is
  called in a loop and every call it makes has a timeout), of each visibility
  timeout and of each row's ageing (clocks). No fault and no operator is fair.
- `fresh_data`: weak fairness of each executing worker, of "somebody claims"
  (the trigger submits the same completed delivery at every poll) and of the
  expiry of an abandoned lease. Crashes, exceptions and outrun leases are not
  fair, and bounded: after infinitely many nothing could conclude.
  `WorkflowConcludes` excludes input that only Module 3 rejects, which the code
  cannot record.
- `fresh_data_trigger`: weak fairness of polling and of walking the list. A
  delivery need not ever complete.
- `distributed`: weak fairness of a worker's handling of the message it holds, of
  every invocation, of the tasks' (re)invocation (the ASL retries `prepare` 4 and
  the callbacks 6 times, and one fault uses one), of a Glue run's end (it has a
  timeout) and of `reconcile`, which EventBridge calls every five minutes
  (`infrastructure/cloudformation/provider_distributed_data_plane.yaml:334`).
  Nothing makes a message arrive.
- `index`: strong fairness of each open transaction's next statement, since
  PostgreSQL grants a row lock to its waiters in turn, and weak fairness of the
  deadlock detector. No operator has to begin a switch.
- `autonomy` states no fairness: tasks, attempts and replans are bounded, and
  every state before the report has a next step (deadlock is checked), so that a
  run whose handlers return comes to its report.

## 5. What is proved

The theorems hold for every value of the constants that satisfies the module's
named assumptions (`ConstantsAssumption` in most; TLC evaluates them in every run). Each
proof module defines one inductive invariant, shows that `Init` implies it and
that every action preserves it, and draws the theorems from it.

| module | invariant | what it adds and why |
|--------|-----------|----------------------|
| `ProviderIngestionProofs` | `Inv1`, `Inv2`, `Inv3` (types, output, nothing left behind) | `WorkersCoherent`: a busy worker holds a message. `CompletionBacked`: a worker about to write "completed" has written the output. `AuthorPursued`: the message whose handling wrote the row last is pursued while the row is not final; `AckOnlyFinal`: who decided to acknowledge saw a final status it or another message wrote. Without `author` the induction fails, because the worker that deletes its message need not be the one that made the row final. |
| `PrivacyBudgetProofs` | `BudgetInv` | `ScopeLocked`: two callers inside `reserve` are in different scopes. `ReadIsFresh`: what a caller has read is still what the table says. `GroupsAgree`: the releases of a group have one epsilon. Sums are handled by lemmas on cardinalities (`TotalAdd`, `TotalMonotone`). |
| `PrivacyWindowProofs` | `WindowInv` | `LockExclusive`; `OneCurrent`: one current delivery per partition; `ReadStillHolds` and `CheckStillHolds`: what register and seal have read stays true but for a revocation; `RowsFollowPc`. |
| `FreshDataWorkflowProofs` | `WorkflowInv` | `StageFollowsPc` and `BuiltBefore`: a worker that turns to Module 3 has seen the build completed; the three safety properties are inductive with these. |
| `AudienceApprovalProofs` | `ApprovalInv` | `OneDecision`: one decision at a time is charged, of a package that stays pending; `ReadIsCurrent`: what it read of the ledger stays true until it writes; `ChargedFirst`: whoever holds an approval, also a request that has only read one, has it from a charge; `RowFollowsJob`: the row is written once, before anybody can decide it. `ChargeBound` bounds the sum after a charge. |
| `ProviderDistributedProofs` | `DistributedInv` | `InvocationOK`: where an invocation may be on which course, what it has loaded was written by a run that ended so, and past the reservation its release is allowed. `ExecutionOK`: an execution waits only for an invocation of its own step and has its Glue run exactly from then on. `OutputsOK`: `result.json`, row, release and partition name runs that completed. `AttemptsOK`: dispatch numbers name executions. `Grows` says what every step preserves of what a running invocation relies on; each kind of step is shown to have it once. |
| `IndexLifecycleProofs` | `IndexInv` | `TargetServable`: the target a switch read has been servable ever since, which is why its unguarded UPDATE is harmless. `RetiringWasActive`: what a switch retires was activated before. `ValidatedPassed`. |
| `BoundedAutonomyProofs` | `RunInv` | `PlannerInv`, of every step of `plan()`: `Selection`, an outcome that is wanted is credited to a selected capability that provides it or still on the stack; `Layers`, a task in order waits only for tasks before it, and a task of the current layer only for tasks in order; `Stages`. `PlanKept` carries it over to the plan that is executed, and says that a replan has excluded one of its tasks. `AttemptsLeft`: an execution begins with attempts left, so that its budget is never the zero that would mean all of them. `Pending`: no task from the current one on has a result. `DependenciesFirst`: completed tasks depend on completed tasks; with a critic that depends on all the others, its completion speaks for the whole plan. |

Two of the proof modules hold a second induction.

- `SoleInv` of `ProviderDistributedProofs` is for `SoleExecutionAgrees`, whose
  premise looks at the whole behaviour: one execution was ever started, and none
  was cut off under a running invocation. Under it the layers are: `Receipt`,
  nobody who is still to write the row has read a status from before the dispatch;
  `Releases`, a release leaves "reserved" only by its own execution's hand or
  reconciliation's; `Awaits`, an invocation that runs is the one its execution
  waits for; `Agrees`, row, release and partition are where the position of the
  execution and of its invocation says. The last is stated per invocation position,
  because `finalize` may die and be repeated at any of them. It assumes one
  message (section 4 says why).
- `PollerInv` of `FreshDataWorkflowProofs` is for `FreshDataTrigger`, whose
  variables are its own. `Walked`: the running poll has still to walk the rows from
  some position on, as far as they were completed when it listed them, and every
  good row before that position has been triggered. It holds, like `InOrder`, while
  the completed rows fit in one poll.

Action properties (`ReservationsAreFrozen`, `TerminalReleaseIsFinal`,
`RevocationIsFinal`, `NeverBackwards`, `RejectionSticks`, `ServingContinues`)
follow from the same invariants, action by action. `WorkflowKeepsItsPromises` proves the refinement
`FreshDataWorkflow => FreshDataOutcome`: a step that publishes maps to
`Publish`, one that reaches awaiting_review to `Review` (the invariant
`ReviewIsBacked` gives its guard), one that records a verdict to `Stop`, every
other one to a stutter. `LedgerIsKept` proves that `PrivacyBudget` implements
`PrivacyLedger`: an INSERT maps to `Admit` or `Refuse`, because by `ReadIsFresh` what
the caller computed under the lock is what the table says; an UPDATE that finds the
release reserved maps to `Mark`; reads, locks and rollbacks are stutters.

`BoundedAutonomyProofs` assumes of the registry and the goals what the
constructors and `CapabilityRegistry.validate` enforce (`RegistryAssumption`,
`GoalAssumption`); it assumes nothing of the plans. A recursive definition of
`plan()` would need an induction over its data, which the prover cannot do; as a
state machine its recursion is an invariant of its steps. What is proved is
partial correctness: that `plan()` returns is model-checked (deadlock in
`autonomy`).

**Only model-checked:** all liveness (`MessagesAreSettled`,
`StaleRowsAreRecovered`, `WorkflowConcludes`, `EveryDeliveryIsTriggered`,
`DispatchedIsSettled`, `SwitchEnds`), which is beyond the prover under fairness.
Every invariant and every action property of a passing run is the subject of a
theorem, one of them with a hypothesis that the run's instance satisfies: one
message for `SoleExecutionAgrees`.

## 6. What is not modelled

- The **Spark job** and the staged raw copy of an object: the transformation of
  rows, and a file that is only written, verified and deleted. A distributed
  object that is rejected before its dispatch, and a gateway without a launcher.
- The **in-process privacy accounting**: local to one call, it shares no state.
  The ingestion job row (`ingestion_job_service`) only records the progress of
  that call, and nothing is decided on it. The **contract registry** has one
  conditional INSERT and one UPDATE; a missing contract is an outcome of
  `ProviderIngestion`.
  The suppression set of data-rights requests that this path reads is data.
- The **JSON ledger** of index versions, the file and SQLite stores: offline
  rehearsals and tests. **Shadow serving and certification** of index and
  autonomy: they run a modelled component and evaluate its report.
- **Proposals**: one INSERT per proposal, with a unique key, and otherwise text.
- **Evolution control, cohort lifecycle, gates**: reports over snapshots; no
  state is kept between two calls and nothing is executed. The **supervisor** is a
  fixed sequence of text and data steps inside one request; what it leaves behind
  (jobs, runs, decisions) is in `AudienceApproval`.
- In `AudienceApproval`: cohort, artifact, warning and event rows, and listing.
- **Pure evaluations**: cohort scoring, embeddings, gates over evidence reports,
  presentation. They have no protocol state; where a modelled component calls
  one, its result is a choice.
- **Floating point**: sums of epsilon are exact in the models. The code adds
  DOUBLE PRECISION values, which can refuse the reservation that would fill a
  budget exactly.
- Runs made by the synchronous prompt API: they reach the run history through
  the same `persist_run`, without a job.
- Schema migrations, authentication, request parsing and the static user
  interface.

## 7. Running the checks

    tlc -config MC_ProviderIngestion.cfg MC_ProviderIngestion
    tlapm ProviderIngestionProofs.tla

and likewise for the others; `PROJECT.json` names the module and the
configuration of every run, the source lines of every definition, the hazards
each property is for and the theorems.
