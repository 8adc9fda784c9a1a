# TLA+ models of the QA Automation Platform

A verification development kept beside the code of the QA Automation Platform
(a pnpm monorepo: a NestJS API, BullMQ workers that drive Playwright, a code
indexer, a React client).  The modules model the parts whose correctness
depends on the order in which several processes act; TLC checks them on small
instances and TLAPS proves the central results for every value of the
constants.  `PROJECT.json` maps every definition to the lines it models.

    tlasany FeatureRun.tla
    tlc -workers 2 -config fr_ladder.cfg MCFeatureRun
    tlapm FeatureRun_proofs.tla
    tlc -workers 2 -config ms_race.cfg MCManualSession
    tlapm ManualSession_proofs.tla

and in the same way `pl_stages.cfg` with `MCPipeline`, `ci_index.cfg` with
`MCCodeIndex`, `tr_moves.cfg` with `MCTransfers`, `rs_fires.cfg` with
`MCRunSchedule`, and their `_proofs` modules; `Pipeline` and `CodeIndex` have two
each (`PipelineOrder_proofs` and `CodeIndexChunks_proofs` build on the first).

## 1. The system

Processes: *N* replicas of `apps/api`, *M* worker processes of
`WORKER_CONCURRENCY` slots each, an indexer, the browser client.  Shared state:
PostgreSQL through Prisma (READ COMMITTED, no row locks are taken explicitly),
Redis for the BullMQ queues, for the pub/sub channel `worker:events` and for
cron locks.  Pub/sub is fire-and-forget and reaches every subscribed API
process.

| component | source | state | operations | what makes it correct |
|---|---|---|---|---|
| Feature-run orchestration | `api/.../feature-runs.service.ts` | `FeatureRun.status`, `currentLadderAttempt`, `concurrency`, `lastHeartbeatAt`, `updatedAt`; its `TestRun` rows | start, pause, resume, stop, skipCurrent, bulkHeartbeat, onRunComplete (top-up, fail-fast, retry ladder, finalize) | one execution per test and wave; no call overfills the window; waves do not overlap; terminates |
| Test-run queue | `api/.../queue/*` | BullMQ jobs | enqueueRun; retry (attempts 2), stalled-job redelivery | no lost or doubled execution under job-id deduplication |
| Worker execution protocol | `worker/.../run.executor.ts`, `run.worker.ts` | slot, `TestRun.status` | claim, execute, final write, publish, catch, teardown | a claim is exclusive; a verdict is final |
| Completion-event bridge | `api/.../worker-events.service.ts` | none | relay; call onRunComplete on a terminal event | loss or duplication of an event is harmless |
| Stuck-run sweep | `api/.../stuck-runs.service.ts` | none (cron) | resume severed chains, idle-pause, reap | everything ends; nothing live is disturbed |
| Single test runs | `api/.../runs/*` | `TestRun`, steps | start, cancel, manual step marking | derived run status agrees with the steps |
| Manual sessions | `feature-runs.service.ts` 280-400, `test-run-sessions` | active manual `FeatureRun` per user | start guard with reconciliation, abandon, end | a race of starts never leaves the tester without a run, nor with two |
| Pipelines | `api/.../pipelines.service.ts` | `PipelineRun`, stage order and results | trigger, startStage, advance, stop, tick, finalize | one run per pipeline; a stage's result is applied once |
| Cron lock | `common/cron-lock.ts` | Redis key with token | acquire, release, expire | a tick does not overlap itself, or overlapping it does no harm |
| Run schedules | `api/.../run-schedules.service.ts` | `RunSchedule` rows: expression, target, enabled, `nextRunAt` | create, update, remove, tick, fire | a due time fires once although the lock can expire; what is fired is what is stored |
| Code index | `api/.../code-index-request.service.ts`, `embedding-credential.service.ts`, `apps/indexer` | `RepoBranchIndex` row, `CodeChunk` rows, jobs, the organisation's embedding credential | request, enqueue, claim, stage, activate, purge, clean up, fail | retrieval always finds one whole generation; READY is never stale; nothing is left behind |
| Work sessions | `api/.../work-sessions` | session rows | start, heartbeat, end, stale sweep | one active session per user |
| Sign-off, environment releases | `api/.../signoff`, `environment-releases` | approvals | submit, approve, reject, promote | a release only from an approved state |
| Transfers | `api/.../transfers.service.ts` | `ProjectTransferRequest` rows, the project's organisation, owner and members | request, withdraw, reject, accept, expire | one outcome, which matches what happened to the project |
| Quarantine, selector heals | `api/.../quarantine`, `selector-heals` | counters, flags | record, promote | no lost update that changes a decision |
| Step runner, reports, AI/GitHub/plugins, CRUD modules, web client | | | | pure I/O, queries or single-row record keeping: not modelled |

How they interact: the API writes rows and adds jobs; a worker slot claims a
row, executes, writes the verdict and publishes a terminal event; every API
replica that is subscribed and alive calls `onRunComplete`, which adds further
jobs, opens the next retry wave, or completes the run; chained after it is
the pipeline's signal, which starts the next stage as a feature run of its own.
The sweep is the only other thing that moves a feature run forward, the minute
tick the only other thing that moves a pipeline run.  The indexer shares nothing
with them but PostgreSQL and Redis; a transfer rewrites the rows that connect a
project with an organisation and runs in one transaction.

The hard behaviours, line by line, are the `hazards` of `PROJECT.json`.  In
short: almost every API call reads, decides, and writes without rechecking;
of a feature run's writes only two are compare-and-set (the worker's claim and the
opening of a wave); events can be lost or seen by several replicas; jobs are
redelivered after an error, a stall or a crash; and the sweep acts on the same
rows as users and workers.  Pipelines, the code index and transfers claim by
compare-and-set throughout; what is hard there is what was read before the claim
and is used after it, and the statements that should have been conditional and
are not.  Run schedules are claimed on one column and edited by id; that the two do
not undo each other rests on time.

## 2. Modules

| module | role |
|---|---|
| `RunStatus` | the status enums and the sub-lists services test membership in |
| `RetryLadder` | abstract: waves open one by one, a test executes at most once in each |
| `FeatureRun` | detailed: one automated feature run with queue, workers, events, sweep, requests, failures; states the properties |
| `MCFeatureRun` | symmetry of tests, slots and calls |
| `FeatureRun_proofs` | the theorems about it |
| `ManualSession` | detailed: one tester's manual feature runs, racing starts and the requests that end them |
| `MCManualSession` | the order of ids |
| `ManualSession_proofs` | the theorems about it |
| `StageSequence` | abstract: a run's stages are executed one at a time, in order |
| `Pipeline` | detailed: pipeline runs with their feature runs, open API calls, the tick and its cron lock |
| `MCPipeline` | the policies of the instance |
| `Pipeline_proofs` | the lemmas on types and on who drives a run |
| `PipelineOrder_proofs` | the theorems: types, stages once and in order, results, HALT and verdicts, the refinement of `StageSequence` |
| `CodeIndex` | detailed: one branch's index, the requests, the queue, the indexer's slots, the embedding credential |
| `MCCodeIndex` | symmetry of requests and slots, for runs of safety properties only |
| `CodeIndex_proofs` | its types; what READY promises; the active generation only advances |
| `CodeIndexChunks_proofs` | what is stored: whole generations, and nothing else at rest |
| `Transfers` | detailed: one project's transfer requests and the calls that decide them |
| `MCTransfers` | the organisations and who works for them |
| `Transfers_proofs` | the theorems about it |
| `RunSchedule` | detailed: recurring runs, the minute tick of several replicas with its cron lock, edits |
| `MCRunSchedule` | two cron expressions and the requests of the instance |
| `RunSchedule_proofs` | the theorems about it |

`FeatureRun` and `ManualSession` share `RunStatus` and nothing else: a run is
AUTOMATED or MANUAL for its whole life, and only the second kind is limited to
one per user.  `Pipeline` composes with feature runs through the interface the
sequencer sees: a feature run is started, ends COMPLETE or CANCELLED at a time of
its own, and signals that any number of times or never.  That is what `FeatureRun`
shows of them: they end (`EventuallySettled`), events can be lost or doubled, and a
call of `onRunComplete` can come from a straggling worker after the end.

### FeatureRun: state and actions

Rows: `frStatus`, `attempt` (`currentLadderAttempt`), `quiet` (`updatedAt` older
than the three minutes of the severed-chain guard), `age` (`lastHeartbeatAt` in
the three ranges the thresholds of 15 and 60 minutes distinguish); per test
`status`, `ladderAttempt`, `passedAt`.  `claims` is a history variable.  Queue:
`jobs`, `retried`; the job id `run-<id>-attempt-<n>` is the pair `<<r, n>>`.
Slots: `wpc`, `wjob`, `stalled`.  `events` counts received terminal events
whose handler has not read yet.  Calls: `cpc`, `wave`, `work`, `mark`, `passes`
hold where a call is and what its read selected.

An action is one database or Redis operation.  That granularity is the point
of the model: between a call's read and its write anything else may happen.

| code | actions |
|---|---|
| `start` (fan-out) | `Init`, then `AddJob`, `MarkQueued` |
| `enqueueRun` | `AddJob` (deduplicating), `MarkQueued` (guarded update) |
| `onRunComplete` | `OnRunComplete` (read and branch), `ClaimWave`, `ResetWave`, `Stamp`, `Complete`, `FailFastCancel`, `Enqueue` |
| `pause`, `resume`, `stop`, `skipCurrent`, `cancel`, `bulkHeartbeat` | `PauseRead`/`Pause`, `ResumeRead`/`Resume`, `StopRead`/`StopRows`/`StopRun`, `SkipRead`/`Skip`, `CancelRead`/`Cancel`, `Heartbeat` |
| sweep | `SweepStart`, `Wake`, `IdlePauseRead`, `IdlePause`, `ReapRead`, `Reap` |
| worker | `Pick`, `Claim`, `SkipDuplicate`, `Finish`, `Publish`, `PublishFails`, `Close` |
| failures | `WorkerCrash`, `Stall`, `ApiCrash`, `EventLost`, the second disjunct of `Claim` (no Redis connection for events after the claim), `PublishFails` |
| time | `Quieten`, `GrowOld` |

What is abstracted, and why it is sound for the properties stated:

- `onRunComplete` reads the run and its tests in one query with nested
  selects; the model reads them in one step.  `resume`'s two reads are also one.
- `enqueueRun` reads `ladderAttempt` just before it adds the job; the model does
  both in one step.  A stale read could only add a job id that exists already,
  which BullMQ ignores.
- A selection by duration takes any set of the right size (`FirstByDuration`).  The code
  queries the median durations afresh at every top-up, over the finished executions of
  the same tests in all runs (`test-duration.ts:20-36`); two top-ups of one run need
  not agree on the order, and nothing else is known of it.
- `skipCurrent` and the severed-chain sweep take the oldest row; creation order
  says nothing about durations, so the model takes any.
- BullMQ keeps completed jobs for a while (`removeOnComplete` with a count); the
  model keeps them, since an id is reused only within one run.
- The failure of the QUEUED mark's database write is ignored: the row stays
  PENDING as in the state just before it.
- Two sweep bodies may run at once, because the cron lock expires and fails open.
- The steps of a test, evidence, screenshots, timings and notifications are left
  out; an execution ends in a member of `Verdicts`.
- A call started after three quiet minutes sees only completed earlier calls
  (`Quieten` waits for running calls): no call takes that long.

### ManualSession: state and actions

`status` and `startedAt` are the rows of the tester's manual feature runs, a run
being named like the start request that creates it (`"absent"` until its
transaction commits).  `clock` is the milliseconds `new Date()` reads.  `pc`,
`todo`, `target` hold where a request is, the runs its query selected for ending,
and the one it has read and will write.  As above an action is one database
operation or one transaction.

| code | actions |
|---|---|
| `start`, the guard on active runs | `Guard`, or `EndPrevious` with `allowConcurrent` |
| the creating transaction | `Stamp` (takes `startedAt`), `Commit` (the row becomes visible) |
| the reconciliation | `Reconcile`, then `EndRead`/`EndWrite` on the start's own run |
| `abandon`, `endAllActiveManualForUser` | `RequestEnd`, `EndRead`, `EndWrite` |
| `stop`, `pause`, `resume`, completion after the last step | `RowRead`, `RowWrite` |
| time | `Tick` |

Left out: the rows of the tests and their steps (no step of the model reads them;
`finish` may happen whenever the code could find every test done); the tester's
work session, which every `abandon` closes; the org-admin's forced ends, which are
`abandon` again; `skipCurrent`, `promote`, named test-run sessions and the
24-hour sweep.  A start that throws in between (validation, a rolled-back
transaction, a failed `abandon`) is one that never takes its next step.

### Pipeline: state and actions

`run[r]` is a `PipelineRun` row: status, `current` (`currentStageOrder`),
`results` (`stageResults`), the on-failure `policy` per stage of the snapshot.
`featureRuns` are the feature runs in order of creation.  `call[c]` holds the
locals an API call carries from one statement to the next, `pc` the statement it
executes next; `lock` is the Redis key of the tick; `lapsed` are the runs whose grace
period is over: the `updatedAt` of the latest feature run, or the `startedAt` of a run
without one, lies more than three minutes back.

| code | actions |
|---|---|
| `trigger` | `Trigger` (the overlap check), `Create` |
| `startStage` | `Start`, `Launch`, or `Refuse` and `ClaimFailed` (the catch block) |
| `onFeatureRunMaybeTerminal` | `Signal` (both reads), `Claim` (claim and result in one transaction) |
| `applyPolicyAndAdvance` | `AfterStage`, evaluated where the code calls it |
| `recordStageResult`, `skipRemaining`, `finalize` | `RecordRead`/`RecordWrite`, `SkipRead`/`SkipWrite`, `Finalize`/`Finish` |
| `stop` | `StopRead`, `StopClaim`, `StopFind`, `StopFeature`, then the record and the skip |
| `tick` | `TickRead`, then one of `TickSignal`, `TickResume`, `TickWait` |
| cron lock | `TickRead` (acquire, or fail open), `End` (release by token), `Expire` |
| time | `Lapse`; creating a run or a feature run starts the period anew |
| feature runs, failures | `Complete`, `CancelFeatureRun`, `Crash` |

A signal reads the feature run and the pipeline run in one step: the first is
terminal and does not change any more.  Left out: the pipeline's definition
(create, edit, archive; a run works on its snapshot), validation before the
trigger, counts of passed and failed tests, the webhook and the socket updates.

The tick resumes a run whose stage has no feature run and whose grace period is over
(484-485).  It looks at the clock and not at who drives the run, so two ticks that
follow each other closely can both resume it, unless `this.resuming` of one process
keeps the second out; replicas do not share that set, so in the model a tick that finds
the run driven may resume it or not.  A period that ends while a call drives the run, or
while the end of its feature run waits for its signal, is the failure `slow`: an advance
that takes more than three minutes, or a feature run that is written for the last time
three minutes before the claim that follows its end.

### CodeIndex: state and actions

`row` is the `RepoBranchIndex` row (0 for no active generation), `chunks` the
`CodeChunk` rows, `credential` the fingerprint of the active embedding credential
(0 for none), `head` the branch's head at GitHub, `request` the open API requests,
`job[g]` the BullMQ job of generation *g*, `indexer[w]` the locals of a run of
`process()`.  `asked` and `happened` serve the properties and the bounds.

| code | actions |
|---|---|
| `CodeIndexRequestService.request`, called by testers, the nightly refresh and an edit of the credential | `Request` or `ReadEmbedding`, `Upsert`, `EnqueueCodeIndex`, or `EnqueueFails` and `QueueUnavailable` |
| `EmbeddingCredentialService.upsert`, `remove` | `EditCredential`, `WriteCredential`; `RemoveCredential` |
| `requestOrganisationIndexes` | `ReadEmbedding` when the loop comes to this branch, `LoopAborts` when the request of a branch before it throws |
| the worker and BullMQ | `Deliver`, `Stall`, `IndexerCrash`; `Returns`, `Throws` end a delivery |
| `claim` | `Deliver` (what it reads), `Block` or `Claim` |
| `process` | `GetBranchHead`, `CompleteUnchanged`, `PrepareGeneration`, `SaveChunks`/`Insert` per batch, `CheckActivation`/`Activate`, `Purge`, `CleanupGeneration`, `Fail`; `Breaks` for whatever fails outside the database |

`saveChunks` and `activate` are two actions each, because their check and their
write are two statements and READ COMMITTED lets a request commit in between.
Left out: the status of the repository (the last writer of any branch wins),
stage and progress, deletion of the repository, what chunks contain.

### Transfers: state and actions

`project`, `staff` (the `OrgMember` rows), `request[q]`, `lapsed` (requests whose
`expiresAt` has passed), `call[c]`.  `moved` and `shifted` serve the properties.

| code | actions |
|---|---|
| `createRequest` | `Open`, `Check`, `Insert` (which the partial unique index may refuse) |
| `cancelRequest` | `Withdraw`, `Decide` |
| `reject` | `LoadPending`, `Decide`, or `Expire` |
| `accept` | `LoadPending`, `Claim`, `Survey`, `Members`, `Roster`, `Commit`, or `Expire` |
| any of them, failing | `Fails` |
| members, invitations, archive and restore | `AddMember`, `RemoveMember`, `JoinOrg`, `LeaveOrg`, `Archive` |
| time | `Lapses` |

An accept is a transaction at READ COMMITTED.  Its reads are actions; its writes
become visible together in `Commit`, and until then it holds the lock of the
request's row (`Locked`), for which every other write of that row waits.  The
organisation's codes, slug conflicts, documents, bindings, access requests and the
notifications are left out; no guard of the modelled statements reads them.

### RunSchedule: state and actions

`schedule[s]` is the `RunSchedule` row, a target standing for a feature with its
environment or for a pipeline, `cron` for expression and timezone.  `tick[c]` holds
the locals of one execution of the tick in some replica, `lock` the tick whose token
is in the Redis key, `edit[e]` the locals of an update.  `live` are the runs that are
RUNNING or PAUSED, with who started them and for which due time; `fired` and `failed`
serve the properties.  `NextFire[c][t]`, the first time after *t* that matches *c*, is
the library cron-parser: an arbitrary function to later times.

| code | actions |
|---|---|
| `create`, `remove` | `Create`, `Remove` |
| `update` | `EditRead` (findOne), `EditAnchor` (computes `nextRunAt`), `EditWrite` (update by id) |
| `tick` and the cron lock | `Tick` (acquire or fail open, and the query), `End` (release by token) |
| `fire` | `Take` (next fire), `Claim` or `LoseClaim`, `Check` (skip-if-running), `Skip` (guard rails, exceptions), `Start` |
| `firePipeline` | `Check` and `Start`: `trigger` checks and creates in the same order |
| the runs | `TesterStarts`, `RunEnds` |
| time, failures | `Passes`, `Crash`, `Expire` (ttl of a dead tick's key), `Outlive` (a tick slower than its ttl) |

`enabled` is "on" or "off".  Left out: validation of targets (an invalid one throws
before anything is written, or is skipped by a guard rail), `preview`, `lastRunAt` and
`lastFeatureRunId`, which no statement reads.  A tick whose query throws is one that
finds nothing.  A start that throws after its run is committed is a `Start`.

## 3. What TLC checks

Bounds of the `fr_` runs, all constants of `FeatureRun`: tests, slots and concurrent calls (two to
four, two, one or two); `MaxCrashes` = 1 failure of the kinds in `Faults`;
`MaxOps` ≤ 2 requests; `Deliveries`, how many replicas handle one event;
`MaxAge`.  Two calls are enough for a race of a read-decide-write with another;
two slots for a redelivered job beside its original; three waves for one wave to
follow another that is itself a retry; concurrency one, with an event handled three
times, for two top-ups that select different tests and a third that must see them.
`CHECK_DEADLOCK FALSE` in every run, because a
feature run that has completed or was cancelled, with its jobs done, really stops.

| run | instance | properties | what it shows |
|---|---|---|---|
| `fr_ladder` | 2 tests, 2 slots, 2 calls, 3 waves, one failure except a failed publish | `TypeOK`, `AttemptOnce`, `WaveOwnership`, `ExclusiveExecution`, `ImplementsLadder` | the ladder's exclusivity survives overlapping calls, redelivery, crashes and lost events |
| `fr_fanout` | 4 tests, concurrency 1, no ladder, each event handled three times by two calls, a worker crash | `WithinBudget`, `CompleteMeansFinished`, `PassedStays` | overlapping top-ups fill at most a window each, a run completes only when its tests ended, a late QUEUED mark loses no pass |
| `fr_waves` | 2 tests, concurrency 1, 3 waves, one call at a time, ERROR verdicts redelivered by BullMQ, fair | `StampedPasses`, `WaveReports`, `EventuallyComplete` | waves are separated, failures are really executed again, the run completes |
| `fr_users` | 2 tests, one of them quarantined, fail-fast, 1 slot, 2 calls, 2 requests of all kinds, the sweep through all ages, a worker crash | `CancelledIsQuiescent` | after a stop or a reap nothing is waiting or running, whatever raced with it |
| `fr_settles` | 2 tests, 1 slot, 2 calls, lost events, a pause, one failure, the sweep, fair | `EventuallySettled` | no failure leaves a run open for ever |
| `fr_premature` | 2 tests, 2 calls, no failure | `CompleteMeansFinished` (violated) | finding 1 |
| `ms_race` | 3 starts, an `allowConcurrent` start, one request of any kind, 2 milliseconds | `TypeOK`, `RaceInvariant`, `NeverZero` | a start gives way only to one that stays; racing starts leave at least one run |
| `ms_two` | 2 starts | `NeverTwo` (violated) | finding 2 |
| `pl_stages` | 1 run of 2 stages under either policy, 3 open calls, 1 failure (crash, refused start, cancelled feature run, expired or unreachable lock), 1 stop or stall, fair | `TypeOK`, `Attribution`, `StageOnce`, `VerdictIsEarned`, `HaltHolds`, `ImplementsSequence`, `EventuallyEnds` | signals, tick, stop and refused starts together execute every stage once and in order, judge by all of them, and end |
| `ci_index` | 2 requests, 2 generations, 2 slots, 2 batches, 2 commits, 2 credentials, one of thirteen failures and settings beside an edit of the credential, fair | `TypeOK`, `ServedWhole`, `Refreshed`, `Reembedded`, `Tidy`, `NeverBack`, `EverSettles` | overlapping generations, redeliveries and edits of the credential never leave a mixed, stale or wrongly embedded index |
| `tr_moves` | 3 organisations, 2 users, 2 requests, 2 calls, 1 edit | `TypeOK`, `SoleAccept`, `DecisionStands`, `MovesAsAgreed`, `LeavesNobodyOutside` | racing decisions have one outcome, and a move takes nobody along who does not belong |
| `rs_fires` | 2 schedules of one target, 2 ticks, 1 edit, 2 expressions, 2 targets, 3 times, 1 failure (lock out of reach, outlived, crash, late edit), 1 act of a tester, fair | `KeepsCadence`, `NeverStacks`, `FiresOnce`, `ActsOnWhatItRead`, `DueIsClaimed` | overlapping ticks and an edit in their midst neither fire a due time twice nor what is no longer stored; schedules stack no runs while the lock holds; every due schedule is claimed |

Bounds of the `ms_` runs: three racing starts are enough for a start to give way
to one that itself gives way to a third; two milliseconds for start times that
differ and start times that the id must separate; one `allowConcurrent` start and
one request for an outsider that ends, pauses or reopens a run in the middle of
the race.

Bounds of `pl_stages`: two stages are one that precedes and one that is last; three
calls are a driver, a straggling signal and a tick or a stop; four feature runs are
more than the code may start.  Of `ci_index`: two generations are one that is served
and one that supersedes it, two slots a redelivered job beside its original or two
generations at once, two batches a staged generation that is incomplete.  With
three generations, or with one request and two failures, safety was checked too
(some three million states each) and holds; the run keeps to the size that also
admits liveness.  Of `tr_moves`: two requests are one that follows another, two
calls a decision beside an accept; with three calls and one request, and with two
edits, the properties were checked too and hold.  Of `rs_fires`: two schedules are two
that share a target, or one that throws before the other; two ticks are the overlap
the lock is there to exclude; three times with an expression that matches each and one
that matches every second are a due time, its successor, and an edit that skips one.
`MaxTime`, `MaxLive`, `MaxFailures`, `MaxEdits`, `MaxBeside`,
`MaxOps`, `MaxFaults`, `MaxFeatureRuns`, `MaxGeneration`, `MaxCommit` and
`MaxFingerprint` bound counters the code does not bound.

Every property of a passing run has a mutant in `PROJECT.json`: the model with
one plausible mistake (a *variant* operator beside the definition it replaces)
under which TLC finds the property violated.

### Where properties stop

The instances differ in which failures they admit, because the code does not
promise every property under every failure.

- `WithinBudget` admits one window of `Concurrency` tests for every call that can be
  open, because the code promises no less: `OneWindow`, one window in all, is stated in
  the module and false.  Concurrency 1, every event handled by two API processes, no
  failure: `start` enqueues t1, which ends.  Both processes read nothing in flight
  (`feature-runs.service.ts:1073`).  The first selects t2; the second, with durations
  queried afresh, t3; both are queued and executed side by side.  A call that reads
  between the other's `queue.add` and its QUEUED mark (`queue.service.ts:66-86`) sees
  nothing in flight either.  `docs/plan/06-PHASE-4-SCALE.md:101-103` says that a feature
  marked `serial` runs one at a time through `concurrency=1`.
- `WithinBudget` does not hold when an API process dies between adding a job and marking
  its row (no later count sees that test until it is claimed), nor in a ladder when a
  job is redelivered (the second delivery may claim the row that was reset for the next
  wave, beside that wave's batch).
- `WaveReports` and `CompleteMeansFinished` hold in a ladder only when calls do
  not overlap; the claim of a wave and the reset of its rows are two statements
  (finding 1).
- `PassedStays` does not survive a failed publish (the catch block writes ERROR
  over the verdict) or a skip or cancel decided before the pass.
- `ExclusiveExecution` is refuted by a failed publish: the catch block can write
  ERROR over a row already reset for the next wave, which is then claimed again
  beside its execution.
- `EventuallyComplete` needs every event delivered and no failure that leaves a
  row RUNNING; otherwise `EventuallySettled`, with the sweep, is what holds.
- `PauseHolds` (the sweep wakes only what the reaper paused) is stated in the
  module and false of the code: `SweepStart` in state PAUSED, quiet, nothing in
  flight, a pending test, right after a tester's pause.
- `NoVerdictAfterStop` is stated and false: the executor's final write names only the
  row id and its watchdog looks for CANCELLED, so a test that was executing at the
  stop overwrites NOT_TESTED (`run.executor.ts:877`, against the comment at
  `feature-runs.service.ts:497`).
- `FinishedIsNotCancelled` is stated and false: the severed-chain sweep needs a
  PENDING test, so when the event of the last test is lost nobody finalizes the run
  and the reaper cancels it (`stuck-runs.service.ts:178`).
- `StageOnce` needs a grace period that suffices (no failure `slow`), and no crash beside
  a tick without its lock (`redis`) or one that outlives it (`expire`).  With both TLC
  refutes it: a process dies before it starts the stage that is due; a tick of one
  replica reads the run, its grace period ends, and it resumes the run; before its
  feature run is committed a tick of another replica, the lock open or expired, finds
  the period over as well and `this.resuming` of its own process empty, and resumes it
  too; `startStage` of each checks status and order (`pipelines.service.ts:262-274`),
  both pass, both start a feature run of the stage.  The other properties of `Pipeline`
  are proved without that combination as well.
- `Attribution` needs a start that throws to have started nothing.  But
  `featureRuns.start` adds its first jobs after its transaction has committed
  (`feature-runs.service.ts:400-413`).  If Redis is out of reach then, it throws, the
  catch block (`pipelines.service.ts:284`) takes the stage for not started and records
  it FAILED; under CONTINUE the next stage starts beside the feature run left behind.
  When that one ends, its signal is matched with the current order and decides the next
  stage, whose own feature run is then ignored.  With the failure `enqueue` in `Faults`
  TLC refutes `Attribution`.
- `VerdictIsEarned` is checked with one failure, and proved for any number of them
  short of what `Separately` excludes.  With a crash and a refused start, a start is refused and
  the process dies between the claim and the result (`pipelines.service.ts:289-300`,
  two statements, where the signal has one transaction, 338-341): the run goes on
  and can become COMPLETE without that stage's result.
- A pipeline run that is stopped may lose results (`recordStageResult` and
  `skipRemaining` write back the list they have read), and a stage whose start is
  under way at the stop executes on in a CANCELLED run.  A stage that ends CANCELLED
  and whose driver then dies is resumed by the tick even under HALT, because its halt
  test looks for FAILED only (492-495): then `HaltHolds` fails, and a stage launched
  after its SKIPPED result has landed is no step of `StageSequence`.
- `ServedWhole` excepts a redelivery of an active generation: a forced job, or one
  after a push, that is delivered again (`unacked`, `stall`) clears the chunks that
  are being served and stages them anew in place (`index-store.ts:184`), and a
  failed retry leaves them cleared, since the cleanup compares with the active
  generation read at the claim.  A commit whose answer is lost (`ack`) has the same
  effect through the cleanup.  It also excepts staging that overtakes the purge after
  an activation (`slow`): a download and an extraction lie in between.
- `EverSettles` excepts process deaths: an indexer that dies leaves INDEXING, which
  the redelivered job cannot claim, an API process that dies leaves PENDING, and the
  nightly refresh picks neither.  It excepts two ways to lose the request an edit of the
  credential owes an index it has interrupted.  The indexer, finding the credential
  changed, gives the index up for a successor (`index-store.ts:147-157`); but the loop of
  requests was aborted, or the edit wrote back the credential that a removal had taken
  away meanwhile, whose fingerprint it found unchanged.  The row then stays INDEXING.  A
  BLOCKED row counts as settled, also one whose request read "no credential" just before
  it was configured.
- `Reembedded` excepts branches whose request never came.  `requestOrganisationIndexes`
  awaits the requests of all branches in turn and catches nothing
  (`code-index-request.service.ts:150-165`): when one throws, the queue being out of
  reach (132) or the repository deleted (41), the branches after it stay READY with the
  old fingerprint, and so they do when the process dies.  The credential is written by
  then; the same edit made again finds an equal fingerprint
  (`embedding-credential.service.ts:101`) and asks for nothing.  TLC shows it when
  `Unrequested` is taken out of the property.
- `Reembedded` is checked with one edit of the credential.  Two edits at once compare
  with the same old fingerprint; the second may put it back and ask for no request.
- `DecisionStands` admits EXPIRED over ACCEPTED, because the code does:
  `StatusMatchesMove` says what the test at `transfers.e2e-spec.ts:400-401` says, and
  TLC refutes it.  A request lapses while an accept that has claimed it executes;
  another admin's `loadPending` read it pending, finds it lapsed, waits for the row
  and writes EXPIRED by id alone (`transfers.service.ts:699-701`).
- `LeavesNobodyOutside` excepts users whose memberships change between the accept's
  reads and its commit; nothing locks those rows.
- `FiresOnce`, `ActsOnWhatItRead` and `KeepsCadence` need every edit to write the time
  it has computed before that time comes (no failure `late`).  `update` writes by id
  (`run-schedules.service.ts:120`): an edit that computes its time, waits while that
  time comes and a tick claims it, and then writes, puts the claimed time back, and the
  next tick fires it again.
- `NeverStacks` needs the lock.  Without it (`redis`, `expire`) two ticks check and
  start two schedules of one target side by side; and a tester's start, which does not
  look for a running one, stacks beside a schedule's at any time.
- Two edits at once can each write back an expression the other has replaced
  (`update` always writes the `cronExpr` it has read or been given); `nextRunAt` is
  written with it, so `KeepsCadence` holds of the result.
- `DueIsClaimed` says that a due schedule is claimed, not that it starts anything: a
  check that finds a run, a guard rail, an exception or a crash after the claim gives
  the due time up (184 comes before 221 and 235).

### Fairness

`FairSpec` asks that what has begun goes on, and nothing of testers or failures:
API calls and sweep bodies run to their end (they are request handlers; a death is
`ApiCrash`), a received event is handled, a slot takes waiting jobs and finishes
them (`RUN_TIMEOUT_MS` bounds an execution), the cron fires every few minutes,
time passes.  `Quieten` has strong fairness because it waits for calls that come
and go; each write resets the three minutes, and there are finitely many writes.
Heartbeats are requests bounded by `MaxOps`: that they end is an assumption, since
a tab left open for ever keeps any run from being reaped.

`Pipeline!FairSpec`: calls run to their end, the minute cron gets to every running
run, a feature run ends (the sweep and `RUN_TIMEOUT_MS` see to it: `EventuallySettled`),
and a Redis key with a ttl expires.  Signals are not fair: every one may be lost.
`CodeIndex!FairSpec`: requests and runs of `process()` go on, since every network call
in them has a timeout, and BullMQ delivers waiting jobs.  Neither asks anything of
testers, edits or failures.  `RunSchedule!FairSpec`: the cron fires again and again, a
tick goes on, and the key of a dead tick expires (ttl 120 s); nothing is asked of the
runs, testers or the clock.  `Transfers` states no liveness: nobody has to decide.

## 4. What is proved

`FeatureRun_proofs`, for every set of tests, slots and calls, every number of
waves, concurrency and batch size, every kind of failure and request without
bound on their number other than `MaxOps` and `MaxCrashes`, which are arbitrary.
Assumptions: `RunsAssumption` (finitely many tests and calls),
`BudgetAssumption` (positive sizes), `FlagsAssumption`, `EnvironmentAssumption`
(what the constants range over).

| theorem | statement |
|---|---|
| `TypeCorrectness` | `Spec => []TypeOK` |
| `Ownership` | `Spec => [](TypeOK /\ WaveOwnership)` |
| `AtMostOncePerAttempt` | `Spec => []AttemptOnce` |
| `LadderRefinement` | `Spec => ImplementsLadder` |
| `ExecutionsExclude` | `VerdictsAreOwn` implies `Spec => []ExclusiveExecution` |
| `PassesStay` | `VerdictsAreOwn`, `NothingIsCancelled` and no failed publish imply `Spec => PassedStays` |
| `CancelledStaysQuiet` | without the ladder, `Spec => []CancelledIsQuiescent` |
| `CompleteStaysFinished` | without the ladder, or under `OneCall` and `Undisturbed`, `Spec => []CompleteMeansFinished` |
| `WindowIsKept` | without the ladder and without deaths of API processes, `Spec => []WithinBudget` |
| `PassesTellTheirWave` | `OneCall` and `Undisturbed` imply `Spec => []StampedPasses` |
| `WavesReport` | `OneCall`, `Undisturbed` and no death of a call imply `Spec => WaveReports` |

The hypotheses are about constants, and each instance that checks a property meets those
of its theorem, so the instance is one the theorem speaks of.  `VerdictsAreOwn`: with
the ladder, no publish fails and nothing is reaped, so that only its executor takes a
verdict from RUNNING to ERROR. `NothingIsCancelled`: no skip, no cancel, no fail-fast
outside the ladder; these write CANCELLED by ids they have read before.  `OneCall`: with
the ladder, no publish fails and calls of `onRunComplete` do not overlap (finding 1 is
what happens otherwise). `Undisturbed`: nothing is cancelled or reaped.  All else
remains: lost and doubled events, stalls, redeliveries, crashes and, outside the ladder,
overlapping calls and failed publishes (but for `PassesStay`); the sweep too.

The argument.  `AttemptOnce` is not inductive: a claim is harmless only if the row
has not been executed at its present `ladderAttempt`, and a reset makes a failed
row claimable again.  `WaveOwnership` adds what is needed.  A row that can be
claimed is unclaimed at its attempt (`ReadyIsUnclaimed`); a reset keeps that
because it moves the row to a wave nobody has used (`ClaimedWaveIsUnused`), which
holds from the compare-and-set on because waves above `attempt` are unused
(`FutureWavesAreUnused`) and because no second call can hold the same wave
(`ClaimedWaveIsOwned`); `DueWaveExists` keeps the claimed wave a wave.  The
interesting actions are `Claim`, `ClaimWave` and `ResetWave`; every other action
leaves `claims`, `attempt` and `ladderAttempt` alone and makes no row claimable,
which a lemma for such quiet steps states once.  Types are proved with it, one
lemma per group of actions.  `LadderRefinement` maps `opened` to `attempt` and
`executed` to `claims`: `ClaimWave` is `OpenWave`, `Claim` is `Execute`, the rest
stutters; it needs the invariant for `Execute`'s guard that the count was zero.

The other arguments start from `Move`, which says once what any step may do: a row
changes status only by a mark, a claim, its executor's end, a failed delivery, a stop,
a cancel, a reap or a reset, each with its guard (`RowMove`), and similarly a slot, a
call, the run.  The lemma `StepMoves` proves it action by action; after that an
invariant is checked against eight ways to change a row and not against every action.

- `ExecInv`: what a slot executes is neither claimable nor PASSED nor, with the ladder,
  FAILED, so no second claim and no reset can reach it.  Without the ladder nothing
  makes a row claimable that is not.
- `StopInv`: a CANCELLED run, and one about to be, has every row finished; starts and
  resumes need another status, and a claim needs a PENDING or QUEUED row.
- `CloseInv`: while a call stamps or completes, every test is done and no wave is due,
  and that stays so, because a slot that executes has its row open and one that has
  published has it closed.
- `StampInv` and `ReportInv`: a pass that is not stamped yet belongs to the current
  wave and is known to the call that stamps; a failed row was claimed at its attempt,
  an open one is in the current wave.
- `WindowInv`: every call holds at most `Concurrency` pending tests, those it has
  selected and not marked yet; all that are in flight or held are at most
  `Concurrency` for each call; and a pending test that has a job is held by the call
  that added it, so that whoever claims it was counted.  A selection leaves at most a
  window of tests in flight and its own beside what the other calls hold; a mark and a
  claim take a test from held to in flight; nothing else adds one.  A call that dies with
  a job added breaks the third part.

`ManualSession_proofs`, for any set of starts, finite or not, any subset of them
with `allowConcurrent`, any other requests.  Assumptions: `StartsAssumption` (ids
are totally ordered; starts and requests are different things), `OpsAssumption`.

| theorem | statement |
|---|---|
| `SessionTypes` | `Spec => []TypeOK` |
| `Reconciliation` | `Spec => []RaceInvariant` |
| `RaceLeavesARun` | `Spec => []NeverZero` |

The argument.  `NeverZero` says too little about how a start decides to be
preserved.  `RaceInvariant` adds that every start that gave way has an earlier one
that did not (`LosersHaveWinners`), that such winners stay active while only starts
race (`WinnersStayActive`), and which rows a request may touch (`OwnRows`).  The
interesting step is a `Reconcile` that loses: the run it loses to may itself have
given way already, but then its own winner is earlier still, because the order is
total and transitive, and the new loser cannot be its own winner (lemma
`NewLoser`).  `LosersHaveWinners` does not depend on who else interferes: it
compares `startedAt` and ids, which nobody writes again.  Nothing is assumed of
the clock, not even that two API processes agree on it.

`Pipeline_proofs` and `PipelineOrder_proofs`, for any number of runs, calls, stages,
failures, interventions and feature runs.  Assumptions: `StagesAssumption`,
`EnvironmentAssumption`, `CallsAssumption`, and the hypothesis `Separately` of every
theorem.  `Pipeline_proofs` holds lemmas, the theorems are in `PipelineOrder_proofs`.

| theorem | statement |
|---|---|
| `PipelineTypes` | `Separately` implies `Spec => []TypeOK` |
| `NoStageTwice` | `Separately` implies `Spec => []StageOnce` |
| `ResultsAreAttributed` | `Separately` implies `Spec => []Attribution` |
| `VerdictsAreEarned` | `Separately` implies `Spec => []VerdictIsEarned` |
| `HaltsAreKept` | `Separately` implies `Spec => []HaltHolds` |
| `PipelineImplementsSequence` | `Separately` implies `Spec => ImplementsSequence` |

The argument.  A stage is launched by the one call that drives its run: a run is
driven by at most one call, the driver's order is the run's current one, and
no feature run exists for the current stage or a later one until the driver
launches it.  A claim hands the drive from a feature run to a call, a launch hands it
back; a crash drops it, and only the tick picks it up, from what it has read: its
`StageWithoutRun` on results read earlier is what makes the resume the hard case.  That
a resume finds a run nobody drives (`ResumesAlone`) is what the lemmas of
`Pipeline_proofs` assume and `PipelineOrder_proofs` shows.

`Separately` excludes what "Where properties stop" tells of: a grace period that ends
too early (`slow`), a start that throws after it has started (`enqueue`), and a crash in
one behaviour with a refused start, a cancelled feature run, or a tick without its lock
or that outlives it; with one failure in all (`MaxFaults = 1`, the run `pl_stages`)
every kind but the first two is allowed.  Crashes may come in any number by themselves;
so may refusals, cancellations, expiries and Redis together.  The invariant `OInv(F)` is
stated for the set `F` of failures a behaviour is prepared for, and `Orderly` says that
it holds for all such sets until the first failure, or for the one that fits.  Its
parts: whatever comes before the current stage, or is the stage before it once somebody
is past it, has a result that does not halt the run (`PastSettled`); what a feature run
gave is filed under its stage; a run that goes on has filed every earlier feature run
(`RowInOrder`); what each statement of a call knows of the run it has read
(`CallInOrder`): a claim's signal is about the feature run of the current stage, a
driver's stage has no feature run yet, a write of results puts back what it read unless
the run has been cancelled meanwhile; a run has one driver (`OneDriver`); and, without
crashes, a run that goes on has a feature run to wait for or a driver (`Attended`).  The
last is why no resume meets a driver without crashes: a run cannot lapse while it is
driven, and one that is not driven has nothing to resume until its next stage starts a
new period.  With crashes the lock says so (`LInv`): it has not failed, so ticks come
one at a time, and whoever drives a run that has lapsed is the tick that resumed it and
still holds the lock, because a run lapses only after its last driver has died, and
another than a tick would need a feature run whose end is not filed yet.  What a tick
that resumes from anywhere needs is in the rows (`CrashProof`), since then every decided
stage was executed and passed, failed, or halts the run.

`CodeIndex_proofs` and `CodeIndexChunks_proofs`, for any number of requests, indexers,
batches and failures.  Assumptions: `BoundsAssumption`, `KindsAssumption`,
`IndexersAssumption`, `RequestsAssumption` (the requests of a behaviour are finitely
many; each opens at most one generation, which is what bounds them).

| theorem | statement |
|---|---|
| `IndexTypes` | `Spec => []TypeOK` |
| `RefreshIsCurrent` | `Spec => []Refreshed` |
| `ActiveAdvances` | `Spec => NeverBack` |
| `EmbeddingIsCurrent` | `Spec => []Reembedded` |
| `OnlyServedStored` | `Spec => []Tidy` |
| `ActiveIsWhole` | `Spec => []ServedWhole` |

The argument.  READY is written only for the requested generation, with the head
that a run of `process()` read after that generation had been requested; `asked` is
the head at that request and the head only grows.  The invariant says this of every
run of `process()` whose generation is still the requested one.

`TInv`: the generation a request opens has no job before that request enqueues it, a job
that is not done fails or stalls at most once more, and the requests that have still to
open one leave room for it under `MaxGeneration`.  `RInv`: an index that is READY, or
whose indexer is at the commit, was embedded with the active credential, unless a
request that will supersede it has not come to its opening yet, or never will
(`Unrequested`: its process died or its loop was aborted).  `CInv` holds as long as no
job was delivered twice.  Then a busy indexer holds the job of its generation alone, and
that generation is not served, or was activated just now (`Alone`); every chunk is
served or in the hands of an indexer that will activate or remove it (`TidyInv`); and
the chunks of the generation being staged are exactly what its indexer has inserted so
far, those of the active one are a whole set, and whoever purges has activated the
generation that is active and keeps it (`ServedInv`).  That a whole set has `Batches`
members is counted with a bijection from `1..Batches`.

`Transfers_proofs`, for any organisations, users, requests and calls.  Assumptions:
`HomeAssumption`, `OriginAssumption`, `MaxEditsAssumption`.

| theorem | statement |
|---|---|
| `TransferTypes` | `Spec => []TypeOK` |
| `AcceptsExclude` | `Spec => []SoleAccept` |
| `DecisionsStand` | `Spec => []DecisionStands` |
| `MovesAgreed` | `Spec => MovesAsAgreed` |
| `NobodyLeftOutside` | `Spec => LeavesNobodyOutside` |

The argument.  At most one request is pending (the partial unique index), and an
accept that has claimed its request holds the lock of a pending row; so accepts
exclude each other even where they name different requests, and the check that the
project has not moved, which locks nothing, stays true until the commit.  What an
accept has read of members stays true up to `shifted`.

`RunSchedule_proofs`, for any number of schedules, ticks and edits, any expressions and
targets and any failures.  Assumptions: those of the module, `ClockAssumption` among
them: the next fire is later than the time it is computed from.

| theorem | statement |
|---|---|
| `ScheduleTypes` | `Spec => []TypeOK` |
| `FiresAtMostOnce` | `Spec => FiresOnce` |
| `FiresTheStoredRow` | `Spec => ActsOnWhatItRead` |
| `CadenceIsKept` | `Spec => []KeepsCadence` |
| `RunsNeverStack` | `Spec => []NeverStacks` |

The argument.  A claim compares one column; that this is enough rests on time.  A tick
reads only due times, and whatever is written to `nextRunAt`, by a claim or an edit, is
later than the clock at that moment, so later than every due time read before it.
Hence a due time, once replaced, never comes back, and a row whose `nextRunAt` is still
the one read has not been written since (`Order`).  An edit keeps that only if its time
is still ahead when it writes, which is what `late` is about.  `NeverStacks` rests on
the lock: as long as it has not failed, at most one tick is between its query and its
end (`Apart`), so no other start falls between a check and its start.

Every invariant and action property of every passing run, and both refinements, are
theorems, for every value of the constants and under the hypotheses named above.
Only model-checked: the liveness properties (`EventuallyComplete`, `EventuallySettled`,
`EventuallyEnds`, `EverSettles`, `DueIsClaimed`), which are out of the prover's reach,
for the instances of their runs, and the two properties of section 5, which TLC refutes.

## 5. Findings

1. **A run completes while its tests restart** (`fr_premature`,
   `feature-runs.service.ts:943`).  A wave is claimed, then its rows are reset.
   A second handler that reads in between sees every row terminal and the attempt
   already advanced; at the last attempt it finalizes the run.  With an earlier
   attempt it opens the wave after next from stale results.
2. **Two manual runs survive a race** (`ms_two`, `feature-runs.service.ts:264`).
   The comment at 356 promises "never zero, never two".  `startedAt` is taken before
   the transaction that inserts the run, its tests and their steps commits.  A start
   stamped later whose transaction is shorter commits and reconciles first, sees
   nobody and stays; the earlier start then sees only a later run and stays too.
   Never zero is proved.

Met while reading, not given a run.  Automated runs: fail-fast cancels rows it read
as pending by their ids only, so a test that a worker has claimed meanwhile can
become CANCELLED, although `docs/plan/06-PHASE-4-SCALE.md:328` says such tests were
never attempted; a publish that fails turns a verdict into
ERROR; a late mark can set a ladder-reset row to QUEUED while no job for its new
attempt exists, which only the reap recovers; `pause`, `resume`, the idle pause
and the finalizing write overwrite CANCELLED or COMPLETE set in between;
a finalization reached by two replicas notifies twice; a stop that falls between a
wave's claim and its reset leaves PENDING rows in a CANCELLED run;
`RunsService.cancel` does not call `onRunComplete`.  Manual runs: `promote`
creates a manual run with neither guard nor reconciliation; `pause`, `resume` and
`stop` can overwrite, even reopen, a run another request has closed; the abandon of
a start that gave way closes the work session the winner uses; marking a step while
`abandon` marks the others SKIPPED gives a half-evaluated test a verdict;
`onRunComplete` does not look at the run mode, so a failed test of a manual run whose
feature has the retry ladder is reset and sent to a worker; `sweepStaleSessions`
returns before it reaches solo manual runs when no named session is stale
(`stuck-runs.service.ts:293`).

Met while reading the other parts.  `trigger`'s overlap check (233) does not exclude
a second trigger, although the comment at 216-218 speaks of a recheck: two runs of
one pipeline can be live.  A request raised with an organisation read before a move
stays PENDING and can never be accepted, and a lapsed request that nobody opens blocks
new ones, since `createRequest` ignores `expiresAt` (182).  `reviewRequest` of an
access request reads PENDING outside its transaction (`access-requests.service.ts:164`)
and can overwrite the rejection an accept has just written.  When the enqueue of an
index fails, the index row is guarded by its generation but the repository's status is
not (`code-index-request.service.ts:122`).

## 6. Plan

In this order; each abstract specification is stated before its detailed module.

1. `RunStatus`, `RetryLadder`, `FeatureRun` and its proofs (done).
2. `ManualSession` and its proofs (done for the race of starts).  Left: the tests and
   steps of a manual run with `markStepStatus` against `abandon`, `promote`, named
   test-run sessions, the work session that ends with the run, the 24-hour sweep.
3. `StageSequence`, `Pipeline` with the cron lock, and its proofs (done).
4. `CodeIndex` and its proofs (done).
5. `Transfers` and its proofs (done).  Left: access requests, documents and bindings.
6. `RunSchedule` and its proofs (done).
7. Work sessions, sign-off and environment releases, quarantine counters, selector
   heals, reports.

Further theorems, where the hypotheses above are stronger than the code needs:
`PassedStays` with fail-fast for tests that were not pending, `HaltHolds` and
`Attribution` of runs whose crashes and cancelled feature runs concern different stages.

Not modelled and not planned: the web client, the step runner and recorder
(Playwright commands), report rendering and analytics, AI and GitHub integrations
(calls to external services), plain record keeping.
