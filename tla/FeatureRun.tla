------------------------------ MODULE FeatureRun -----------------------------
(***************************************************************************)
(* The execution of one AUTOMATED FeatureRun: the API's feature-run        *)
(* service, the BullMQ test-run queue, the workers, the lossy completion   *)
(* events between them, and the stuck-run sweep.                           *)
(*                                                                         *)
(* An action is one atomic database or Redis operation.  An API call that  *)
(* reads, decides and then writes is therefore several actions, and what   *)
(* it decided from its read (wave, work) is kept in its caller's state     *)
(* while other callers, workers and sweeps move.                           *)
(***************************************************************************)
EXTENDS Naturals, FiniteSets, RunStatus

CONSTANTS
  TestRuns,       \* the TestRuns created with the FeatureRun
  Workers,        \* worker slots (WORKER_CONCURRENCY over all processes)
  Callers,        \* API calls and cron bodies that can be in progress at once
  Concurrency,    \* FeatureRun.concurrency
  MaxAttempt,     \* RETRY_LADDER_MAX_ATTEMPT
  BatchSize,      \* RETRY_LADDER_BATCH_SIZE
  LadderEnabled,  \* FeatureRun.retryLadderEnabled
  FailFast,       \* FeatureRun.failFast
  Quarantined,    \* the runs whose test definition is QUARANTINED
  Verdicts,       \* the final statuses an execution may end with
  Deliveries,     \* how many API processes may receive one published event
  UserOps,        \* the requests a tester makes
  MaxOps,         \* bound on the number of those requests
  Faults,         \* the kinds of failure that can happen
  MaxCrashes,     \* bound on the number of those failures
  Sweeps,         \* whether the stuck-run sweep is scheduled
  MaxAge          \* 0, 1, 2: heartbeat age can reach < 15 min, < 60 min, >= 60 min

ASSUME RunsAssumption ==
  /\ IsFiniteSet(TestRuns) /\ IsFiniteSet(Callers)
  /\ Quarantined \subseteq TestRuns
ASSUME BudgetAssumption ==
  /\ Concurrency \in Nat \ {0}
  /\ MaxAttempt \in Nat \ {0}
  /\ BatchSize \in Nat \ {0}
ASSUME FlagsAssumption ==
  /\ LadderEnabled \in BOOLEAN
  /\ FailFast \in BOOLEAN
  /\ Sweeps \in BOOLEAN
ASSUME EnvironmentAssumption ==
  /\ Verdicts \subseteq {"PASSED", "FAILED", "TIMED_OUT", "ERROR"}
  /\ Deliveries \subseteq Nat
  /\ UserOps \subseteq {"pause", "resume", "stop", "skip", "cancel", "heartbeat"}
  /\ Faults \subseteq {"connect", "publish", "worker", "stall", "api", "event"}
  /\ MaxOps \in Nat /\ MaxCrashes \in Nat /\ MaxAge \in 0..2

VARIABLES
  frStatus,       \* FeatureRun.status
  attempt,        \* FeatureRun.currentLadderAttempt
  quiet,          \* FeatureRun.updatedAt is more than 3 minutes old
  age,            \* age of lastHeartbeatAt: 0 < 15 min <= 1 < 60 min <= 2
  status,         \* TestRun.status
  ladderAttempt,  \* TestRun.ladderAttempt
  passedAt,       \* TestRun.passedAtAttempt, 0 for null
  claims,         \* history: claims[r][a] counts executions of r at ladderAttempt a
  jobs,           \* BullMQ: state of job run-<r>-attempt-<a>
  retried,        \* the jobs that have used their second attempt
  wpc, wjob,      \* per worker slot: what it is doing, and for which job
  stalled,        \* the slots whose job lock expired while they work on
  events,         \* received terminal events whose onRunComplete has not read yet
  cpc,            \* per caller: the step its API call is at
  wave,           \* per caller: the ladder attempt it read or claimed
  work,           \* per caller: the runs its read selected
  mark,           \* per caller: the runs it has added but not marked QUEUED
  passes,         \* per caller: the unstamped passes it read, as <<run, ladderAttempt>>
  ops, crashes    \* counters for MaxOps and MaxCrashes

frVars     == <<frStatus, attempt, quiet, age>>
runVars    == <<status, ladderAttempt, passedAt, claims>>
queueVars  == <<jobs, retried>>
workerVars == <<wpc, wjob, stalled>>
callVars   == <<cpc, wave, work, mark, passes>>
vars == <<frVars, runVars, queueVars, workerVars, callVars, events, ops, crashes>>

Attempts == 1..MaxAttempt
Jobs == TestRuns \X Attempts
JobStates == {"absent", "waiting", "active", "done"}
WorkerSteps == {"idle", "claim", "exec", "publish", "publishError", "closing"}
CallSteps == {"idle", "claimWave", "resetWave", "stamp", "complete", "failFast", "enqueue",
              "pause", "resume", "stopRows", "stopRun", "skip", "cancel",
              "wake", "sweepEnqueue", "idlePauseRead", "idlePause", "reapRead", "reap"}

------------------------------------------------------------------------------
(* What onRunComplete and resume derive from the rows they read.           *)

Pending == {r \in TestRuns : status[r] = "PENDING"}

(* Variants such as the next one are the mistakes the code must not make;  *)
(* no action uses them.  Here: done as soon as nothing is pending.         *)
DoneWhenNothingPending == Pending = {}
AllDone == \A r \in TestRuns : IsTerminal(status[r])

(* Variant: queued runs do not count.                                      *)
InFlightRunningOnly == {r \in TestRuns : status[r] = "RUNNING"}
InFlight == {r \in TestRuns : status[r] \in IN_FLIGHT_STATUSES}
FailedRuns == {r \in TestRuns \ Quarantined : status[r] \in FAILED_STATUSES}

LadderBudget(a) == IF a <= 1 THEN Concurrency ELSE IF a = 2 THEN BatchSize ELSE 1

(* What the first n members of S may be, longest first.  Each selection    *)
(* queries the median durations afresh, from a history that other runs of  *)
(* the same tests extend: two selections need not agree on the order.      *)
FirstByDuration(S, n) ==
  {T \in SUBSET S : Cardinality(T) = IF Cardinality(S) < n THEN Cardinality(S) ELSE n}

(* How many runs fit beside the ones in flight.                            *)
Slots(budget) ==
  IF budget > Cardinality(InFlight) THEN budget - Cardinality(InFlight) ELSE 0

(* Variant: one attempt too many.                                          *)
WaveDuePastLast == LadderEnabled /\ FailedRuns # {} /\ attempt <= MaxAttempt
WaveDue == LadderEnabled /\ FailedRuns # {} /\ attempt < MaxAttempt

FailFastDue == FailFast /\ ~LadderEnabled /\ FailedRuns # {}

------------------------------------------------------------------------------
(* start() has created the rows and is about to enqueue the first window.  *)
Init ==
  /\ frStatus = "RUNNING" /\ attempt = 1 /\ quiet = FALSE /\ age = 0
  /\ status = [r \in TestRuns |-> "PENDING"]
  /\ ladderAttempt = [r \in TestRuns |-> 1]
  /\ passedAt = [r \in TestRuns |-> 0]
  /\ claims = [r \in TestRuns |-> [a \in Attempts |-> 0]]
  /\ jobs = [j \in Jobs |-> "absent"] /\ retried = {}
  /\ wpc = [w \in Workers |-> "idle"] /\ wjob = [w \in Workers |-> <<>>] /\ stalled = {}
  /\ \E starter \in Callers, first \in FirstByDuration(TestRuns, Concurrency) :
       /\ cpc = [c \in Callers |-> IF c = starter THEN "enqueue" ELSE "idle"]
       /\ work = [c \in Callers |-> IF c = starter THEN first ELSE {}]
  /\ wave = [c \in Callers |-> 1]
  /\ mark = [c \in Callers |-> {}]
  /\ passes = [c \in Callers |-> {}]
  /\ events = 0 /\ ops = 0 /\ crashes = 0

------------------------------------------------------------------------------
(* Steps every API call is built from.                                     *)

Goto(c, step) == cpc' = [cpc EXCEPT ![c] = step]

(* The call returns, and its locals are gone.                              *)
Return(c) ==
  /\ Goto(c, "idle")
  /\ work' = [work EXCEPT ![c] = {}]
  /\ mark' = [mark EXCEPT ![c] = {}]
  /\ wave' = [wave EXCEPT ![c] = 1]
  /\ passes' = [passes EXCEPT ![c] = {}]

(* The call goes on to step with the runs S it read, at ladder attempt a.  *)
Proceed(c, step, S, a) ==
  /\ Goto(c, step)
  /\ work' = [work EXCEPT ![c] = S]
  /\ wave' = [wave EXCEPT ![c] = a]
  /\ UNCHANGED <<mark, passes>>

(* The call goes on to enqueue the runs in S, or returns when S is empty.  *)
EnqueueAll(c, S) == IF S = {} THEN Return(c) ELSE Proceed(c, "enqueue", S, 1)

(* A write of the FeatureRun row bumps its updatedAt.                      *)
SetFeatureRun(s) == frStatus' = s /\ quiet' = FALSE

(***************************************************************************)
(* QueueService.enqueueRun, for all the runs in work concurrently: add the *)
(* job under an id that carries the run's ladder attempt (BullMQ keeps the *)
(* existing job when the id is known), then mark the row QUEUED if it is   *)
(* still PENDING.                                                          *)
(***************************************************************************)

(* Variant: a job id without the attempt.                                  *)
JobOfBareId(r) == <<r, 1>>
JobOf(r) == <<r, ladderAttempt[r]>>

AddJob(c, r) ==
  /\ cpc[c] \in {"enqueue", "sweepEnqueue"} /\ r \in work[c]
  /\ jobs' = IF jobs[JobOf(r)] = "absent"
                THEN [jobs EXCEPT ![JobOf(r)] = "waiting"]
                ELSE jobs
  /\ work' = [work EXCEPT ![c] = @ \ {r}]
  /\ mark' = [mark EXCEPT ![c] = @ \cup {r}]
  /\ UNCHANGED <<frVars, runVars, retried, workerVars, cpc, wave, passes,
                 events, ops, crashes>>

(* Variant: unguarded, so a late mark can regress the row.                 *)
QueuedFromAny(r) == [status EXCEPT ![r] = "QUEUED"]
QueuedFrom(r) == IF status[r] = "PENDING" THEN [status EXCEPT ![r] = "QUEUED"] ELSE status

MarkQueued(c, r) ==
  /\ cpc[c] \in {"enqueue", "sweepEnqueue"} /\ r \in mark[c]
  /\ status' = QueuedFrom(r)
  /\ mark' = [mark EXCEPT ![c] = @ \ {r}]
  /\ IF work[c] = {} /\ mark[c] = {r}
        THEN Goto(c, IF cpc[c] = "enqueue" THEN "idle" ELSE "idlePauseRead")
        ELSE UNCHANGED cpc
  /\ UNCHANGED <<frVars, ladderAttempt, passedAt, claims, queueVars, workerVars,
                 work, wave, passes, events, ops, crashes>>

------------------------------------------------------------------------------
(* FeatureRunsService.onRunComplete: one read of the FeatureRun with its   *)
(* TestRuns, then the branch it decides on.                                *)

(* What a top-up may enqueue: the pinned wave's own cap, not the window.   *)
TopUp == FirstByDuration(Pending, Slots(LadderBudget(attempt)))

(* Variant: only the passes of a retry.                                    *)
RetriedPasses ==
  {<<r, ladderAttempt[r]>> :
     r \in {q \in TestRuns : status[q] = "PASSED" /\ ladderAttempt[q] > 1}}
UnstampedPasses ==
  {<<r, ladderAttempt[r]>> :
     r \in {q \in TestRuns : status[q] = "PASSED" /\ passedAt[q] = 0}}

OnRunComplete(c) ==
  /\ cpc[c] = "idle" /\ events > 0
  /\ events' = events - 1
  /\ \/ /\ frStatus # "CANCELLED" /\ AllDone /\ WaveDue
        /\ Proceed(c, "claimWave", FailedRuns, attempt)
     \/ /\ frStatus # "CANCELLED" /\ AllDone /\ ~WaveDue
        /\ Goto(c, "stamp")
        /\ passes' = [passes EXCEPT ![c] = UnstampedPasses]
        /\ UNCHANGED <<wave, work, mark>>
     \/ /\ frStatus = "RUNNING" /\ Pending # {} /\ FailFastDue
        /\ Proceed(c, "failFast", Pending, 1)
     \/ /\ frStatus = "RUNNING" /\ Pending # {} /\ ~FailFastDue
        /\ \E first \in TopUp : EnqueueAll(c, first)
     \/ /\ frStatus = "CANCELLED" \/ (~AllDone /\ (frStatus # "RUNNING" \/ Pending = {}))
        /\ UNCHANGED callVars
  /\ UNCHANGED <<frVars, runVars, queueVars, workerVars, ops, crashes>>

(* Compare-and-set of currentLadderAttempt against the value read.         *)
(* Variant: an unconditional update.                                       *)
WaveUnclaimedUnchecked(c) == TRUE
WaveUnclaimed(c) == attempt = wave[c]

ClaimWave(c) ==
  /\ cpc[c] = "claimWave"
  /\ IF WaveUnclaimed(c)
        THEN /\ attempt' = wave[c] + 1 /\ quiet' = FALSE
             /\ Proceed(c, "resetWave", work[c], wave[c] + 1)
        ELSE /\ Return(c)
             /\ UNCHANGED <<attempt, quiet>>
  /\ UNCHANGED <<frStatus, age, runVars, queueVars, workerVars, events, ops, crashes>>

(* Reset the wave's runs that are still failed and enqueue its first batch.*)
(* Variant: without the status filter.                                     *)
ResettableAny(c) == work[c]
Resettable(c) == {r \in work[c] : status[r] \in FAILED_STATUSES}

ResetWave(c) ==
  /\ cpc[c] = "resetWave"
  /\ status' = [r \in TestRuns |-> IF r \in Resettable(c) THEN "PENDING" ELSE status[r]]
  /\ ladderAttempt' = [r \in TestRuns |->
                        IF r \in Resettable(c) THEN wave[c] ELSE ladderAttempt[r]]
  /\ \E first \in FirstByDuration(work[c], LadderBudget(wave[c])) : EnqueueAll(c, first)
  /\ UNCHANGED <<frVars, passedAt, claims, queueVars, workerVars, events, ops, crashes>>

(* Stamp the passes with the wave they were read at, then complete the     *)
(* FeatureRun.                                                             *)
Stamp(c) ==
  /\ cpc[c] = "stamp"
  /\ passedAt' = [r \in TestRuns |->
                   IF \E a \in Attempts : <<r, a>> \in passes[c]
                      THEN CHOOSE a \in Attempts : <<r, a>> \in passes[c]
                      ELSE passedAt[r]]
  /\ passes' = [passes EXCEPT ![c] = {}]
  /\ Goto(c, "complete")
  /\ UNCHANGED <<frVars, status, ladderAttempt, claims, queueVars, workerVars,
                 wave, work, mark, events, ops, crashes>>

Complete(c) ==
  /\ cpc[c] = "complete"
  /\ SetFeatureRun("COMPLETE")
  /\ Return(c)
  /\ UNCHANGED <<attempt, age, runVars, queueVars, workerVars, events, ops, crashes>>

(* Cancel the runs read as pending, whatever they are by now, and call     *)
(* onRunComplete again.                                                    *)
FailFastCancel(c) ==
  /\ cpc[c] = "failFast"
  /\ status' = [r \in TestRuns |-> IF r \in work[c] THEN "CANCELLED" ELSE status[r]]
  /\ events' = events + 1
  /\ Return(c)
  /\ UNCHANGED <<frVars, ladderAttempt, passedAt, claims, queueVars, workerVars, ops, crashes>>

------------------------------------------------------------------------------
(* A tester's requests.  Each reads first and writes without rechecking.   *)

Request(c, op) ==
  /\ cpc[c] = "idle" /\ op \in UserOps /\ ops < MaxOps
  /\ ops' = ops + 1
  /\ UNCHANGED <<frVars, runVars, queueVars, workerVars, events, crashes>>

(* A write step of a request: the queue and the workers are not involved.  *)
RequestStep(c, step) ==
  /\ cpc[c] = step
  /\ UNCHANGED <<attempt, ladderAttempt, passedAt, claims, queueVars, workerVars, ops, crashes>>

PauseRead(c) == Request(c, "pause") /\ frStatus = "RUNNING" /\ Proceed(c, "pause", {}, 1)

Pause(c) ==
  /\ RequestStep(c, "pause")
  /\ SetFeatureRun("PAUSED") /\ Return(c)
  /\ UNCHANGED <<age, status, events>>

ResumeRead(c) ==
  /\ Request(c, "resume") /\ frStatus = "PAUSED"
  /\ \E first \in FirstByDuration(Pending, Slots(Concurrency)) :
       Proceed(c, "resume", first, 1)

Resume(c) ==
  /\ RequestStep(c, "resume")
  /\ SetFeatureRun("RUNNING") /\ age' = 0
  /\ EnqueueAll(c, work[c])
  /\ UNCHANGED <<status, events>>

StopRead(c) ==
  Request(c, "stop") /\ frStatus \in ACTIVE_FEATURE_RUN /\ Proceed(c, "stopRows", {}, 1)

(* Variants: pending runs forgotten; every run taken.                      *)
UnfinishedInFlight == {r \in TestRuns : status[r] \in IN_FLIGHT_STATUSES}
UnfinishedAny == TestRuns
Unfinished == {r \in TestRuns : status[r] \in UNFINISHED_STATUSES}

StopRows(c) ==
  /\ RequestStep(c, "stopRows")
  /\ status' = [r \in TestRuns |-> IF r \in Unfinished THEN "NOT_TESTED" ELSE status[r]]
  /\ Goto(c, "stopRun")
  /\ UNCHANGED <<frStatus, quiet, age, wave, work, mark, passes, events>>

StopRun(c) ==
  /\ RequestStep(c, "stopRun")
  /\ SetFeatureRun("CANCELLED") /\ Return(c)
  /\ UNCHANGED <<age, status, events>>

(* The oldest in-flight row: any of them may be.                           *)
SkipRead(c, r) ==
  /\ Request(c, "skip") /\ frStatus \in ACTIVE_FEATURE_RUN /\ r \in InFlight
  /\ Proceed(c, "skip", {r}, 1)

(* RunsService.cancel of a single TestRun.                                 *)
CancelRead(c, r) ==
  Request(c, "cancel") /\ ~IsTerminal(status[r]) /\ Proceed(c, "cancel", {r}, 1)

CancelRow(c) ==
  /\ status' = [r \in TestRuns |-> IF r \in work[c] THEN "CANCELLED" ELSE status[r]]
  /\ Return(c)
  /\ UNCHANGED <<frStatus, quiet, age>>

(* Only skipCurrent goes on to onRunComplete.                              *)
Skip(c) == RequestStep(c, "skip") /\ CancelRow(c) /\ events' = events + 1
Cancel(c) == RequestStep(c, "cancel") /\ CancelRow(c) /\ UNCHANGED events

(* bulkHeartbeat: one guarded update of the user's active feature runs.    *)
Heartbeat(c) ==
  /\ cpc[c] = "idle" /\ "heartbeat" \in UserOps /\ ops < MaxOps
  /\ frStatus \in ACTIVE_FEATURE_RUN
  /\ age' = 0 /\ quiet' = FALSE /\ ops' = ops + 1
  /\ UNCHANGED <<frStatus, attempt, runVars, queueVars, workerVars, callVars, events, crashes>>

------------------------------------------------------------------------------
(* The stuck-run sweep: resume severed chains, then idle-pause, then reap. *)

Severed ==
  /\ frStatus \in ACTIVE_FEATURE_RUN /\ quiet
  /\ InFlight = {} /\ Pending # {}

SweepStart(c) ==
  /\ Sweeps /\ cpc[c] = "idle"
  /\ \/ /\ Severed
        /\ \E r \in Pending :
             Proceed(c, IF frStatus = "PAUSED" THEN "wake" ELSE "sweepEnqueue", {r}, 1)
     \/ /\ ~Severed
        /\ frStatus \in ACTIVE_FEATURE_RUN \* otherwise no stage selects this FeatureRun
        /\ Proceed(c, "idlePauseRead", {}, 1)
  /\ UNCHANGED <<frVars, runVars, queueVars, workerVars, events, ops, crashes>>

Wake(c) ==
  /\ RequestStep(c, "wake")
  /\ SetFeatureRun("RUNNING") /\ Goto(c, "sweepEnqueue")
  /\ UNCHANGED <<age, status, wave, work, mark, passes, events>>

(* The idle-pause stage selects the FeatureRun, or the reap stage is next. *)
IdlePauseRead(c) ==
  /\ RequestStep(c, "idlePauseRead")
  /\ Goto(c, IF frStatus = "RUNNING" /\ age >= 1 THEN "idlePause" ELSE "reapRead")
  /\ UNCHANGED <<frStatus, quiet, age, status, wave, work, mark, passes, events>>

IdlePause(c) ==
  /\ RequestStep(c, "idlePause")
  /\ SetFeatureRun("PAUSED") /\ Goto(c, "reapRead")
  /\ UNCHANGED <<age, status, wave, work, mark, passes, events>>

(* Variant: idle-paused runs forgotten.                                    *)
ReapDueRunningOnly == frStatus = "RUNNING" /\ age >= 2
ReapDue == frStatus \in ACTIVE_FEATURE_RUN /\ age >= 2

ReapRead(c) ==
  /\ RequestStep(c, "reapRead")
  /\ IF ReapDue THEN Proceed(c, "reap", {}, 1) ELSE Return(c)
  /\ UNCHANGED <<frStatus, quiet, age, status, events>>

Reaped(r) ==
  CASE status[r] \in {"PENDING", "QUEUED"} -> "NOT_TESTED"
    [] status[r] = "RUNNING" -> "ERROR"
    [] OTHER -> status[r]

Reap(c) ==
  /\ RequestStep(c, "reap")
  /\ SetFeatureRun("CANCELLED")
  /\ status' = [r \in TestRuns |-> Reaped(r)]
  /\ Return(c)
  /\ UNCHANGED <<age, events>>

------------------------------------------------------------------------------
(* A failure of the given kind, within the bound.                          *)
Fault(kind) == kind \in Faults /\ crashes < MaxCrashes /\ crashes' = crashes + 1

(* A worker slot processing a BullMQ job.                                  *)

Pick(w, j) ==
  /\ wpc[w] = "idle" /\ jobs[j] = "waiting"
  /\ jobs' = [jobs EXCEPT ![j] = "active"]
  /\ wpc' = [wpc EXCEPT ![w] = "claim"]
  /\ wjob' = [wjob EXCEPT ![w] = j]
  /\ UNCHANGED <<frVars, runVars, retried, stalled, callVars, events, ops, crashes>>

(* The slot is free again and its job is in state s, unless the slot has   *)
(* lost the job's lock: then BullMQ refuses the transition.                *)
Release(w, s) ==
  /\ jobs' = IF w \in stalled THEN jobs ELSE [jobs EXCEPT ![wjob[w]] = s]
  /\ wpc' = [wpc EXCEPT ![w] = "idle"]
  /\ wjob' = [wjob EXCEPT ![w] = <<>>]
  /\ stalled' = stalled \ {w}

(* The processor throws: attempts = 2, so the first throw redelivers.      *)
Throw(w) ==
  /\ Release(w, IF wjob[w] \in retried THEN "done" ELSE "waiting")
  /\ retried' = IF w \in stalled THEN retried ELSE retried \cup {wjob[w]}

RunOf(w) == wjob[w][1]

(* Variant: a running row can be claimed again.                            *)
ClaimableUnlessTerminal(r) == ~IsTerminal(status[r])
Claimable(r) == status[r] \in {"PENDING", "QUEUED"}

(* The compare-and-set claim; connecting to Redis for events may then fail.*)
Claim(w) ==
  LET r == RunOf(w) IN
  /\ wpc[w] = "claim" /\ Claimable(r)
  /\ status' = [status EXCEPT ![r] = "RUNNING"]
  /\ claims' = [claims EXCEPT ![r][ladderAttempt[r]] = @ + 1]
  /\ \/ /\ wpc' = [wpc EXCEPT ![w] = "exec"]
        /\ UNCHANGED <<queueVars, wjob, stalled, crashes>>
     \/ Fault("connect") /\ Throw(w)
  /\ UNCHANGED <<frVars, ladderAttempt, passedAt, callVars, events, ops>>

SkipDuplicate(w) ==
  /\ wpc[w] = "claim" /\ ~Claimable(RunOf(w))
  /\ Release(w, "done")
  /\ UNCHANGED <<frVars, runVars, retried, callVars, events, ops, crashes>>

(* The final write names only the row id.  A run that noticed CANCELLED    *)
(* (watchdog, or the check between steps) ends CANCELLED.                  *)
Finish(w, v) ==
  /\ wpc[w] = "exec"
  /\ v \in Verdicts \/ (v = "CANCELLED" /\ status[RunOf(w)] = "CANCELLED")
  /\ status' = [status EXCEPT ![RunOf(w)] = v]
  /\ wpc' = [wpc EXCEPT ![w] = IF v = "ERROR" THEN "publishError" ELSE "publish"]
  /\ UNCHANGED <<frVars, ladderAttempt, passedAt, claims, queueVars, wjob, stalled, callVars,
                 events, ops, crashes>>

(* Pub/sub reaches the API processes that happen to be subscribed.         *)
Publish(w, n) ==
  /\ wpc[w] \in {"publish", "publishError"} /\ n \in Deliveries
  /\ events' = events + n
  /\ IF wpc[w] = "publish"
        THEN wpc' = [wpc EXCEPT ![w] = "closing"] /\ UNCHANGED <<queueVars, wjob, stalled>>
        ELSE Throw(w)
  /\ UNCHANGED <<frVars, runVars, callVars, ops, crashes>>

(* A publish that throws lands in the catch block, which writes ERROR.     *)
PublishFails(w) ==
  /\ wpc[w] = "publish" /\ Fault("publish")
  /\ status' = [status EXCEPT ![RunOf(w)] = "ERROR"]
  /\ wpc' = [wpc EXCEPT ![w] = "publishError"]
  /\ UNCHANGED <<frVars, ladderAttempt, passedAt, claims, queueVars, wjob, stalled,
                 callVars, events, ops>>

(* The browser is torn down and the job completes.                         *)
Close(w) ==
  /\ wpc[w] = "closing"
  /\ Release(w, "done")
  /\ UNCHANGED <<frVars, runVars, retried, callVars, events, ops, crashes>>

(* A worker process dies; BullMQ redelivers its stalled job.               *)
WorkerCrash(w) ==
  /\ wpc[w] # "idle" /\ Fault("worker")
  /\ Release(w, "waiting")
  /\ UNCHANGED <<frVars, runVars, retried, callVars, events, ops>>

(* A live slot's lock expires, and BullMQ delivers its job again.          *)
Stall(w) ==
  /\ wpc[w] # "idle" /\ w \notin stalled /\ Fault("stall")
  /\ jobs' = [jobs EXCEPT ![wjob[w]] = "waiting"]
  /\ stalled' = stalled \cup {w}
  /\ UNCHANGED <<frVars, runVars, retried, wpc, wjob, callVars, events, ops>>

(* An API process dies, or Redis refuses its queue.add, in mid-call.       *)
ApiCrash(c) ==
  /\ cpc[c] # "idle" /\ Fault("api")
  /\ Return(c)
  /\ UNCHANGED <<frVars, runVars, queueVars, workerVars, events, ops>>

(* It dies with a received event whose onRunComplete has not read yet.     *)
EventLost ==
  /\ events > 0 /\ Fault("event")
  /\ events' = events - 1
  /\ UNCHANGED <<frVars, runVars, queueVars, workerVars, callVars, ops>>

------------------------------------------------------------------------------
(* Time.  No call takes the three minutes of the severed-chain guard.      *)
Quieten ==
  /\ ~quiet /\ Sweeps /\ \A c \in Callers : cpc[c] = "idle"
  /\ quiet' = TRUE
  /\ UNCHANGED <<frStatus, attempt, age, runVars, queueVars, workerVars, callVars,
                 events, ops, crashes>>

GrowOld ==
  /\ age < MaxAge
  /\ age' = age + 1
  /\ UNCHANGED <<frStatus, attempt, quiet, runVars, queueVars, workerVars, callVars,
                 events, ops, crashes>>

------------------------------------------------------------------------------
Enqueue(c) == \E r \in TestRuns : AddJob(c, r) \/ MarkQueued(c, r)

CompletionStep(c) ==
  OnRunComplete(c) \/ ClaimWave(c) \/ ResetWave(c)
  \/ Stamp(c) \/ Complete(c) \/ FailFastCancel(c)

RequestStarts(c) ==
  \/ PauseRead(c) \/ ResumeRead(c) \/ StopRead(c) \/ Heartbeat(c)
  \/ \E r \in TestRuns : SkipRead(c, r) \/ CancelRead(c, r)

RequestContinues(c) ==
  Pause(c) \/ Resume(c) \/ StopRows(c) \/ StopRun(c) \/ Skip(c) \/ Cancel(c)

SweepContinues(c) == Wake(c) \/ IdlePauseRead(c) \/ IdlePause(c) \/ ReapRead(c) \/ Reap(c)

WorkerStep(w) ==
  \/ \E j \in Jobs : Pick(w, j)
  \/ Claim(w) \/ SkipDuplicate(w) \/ PublishFails(w) \/ Close(w)
  \/ \E v \in RunStatuses : Finish(w, v)
  \/ \E n \in Deliveries : Publish(w, n)

Next ==
  \/ \E c \in Callers :
       \/ Enqueue(c) \/ CompletionStep(c)
       \/ RequestStarts(c) \/ RequestContinues(c)
       \/ SweepStart(c) \/ SweepContinues(c) \/ ApiCrash(c)
  \/ \E w \in Workers : WorkerStep(w) \/ WorkerCrash(w) \/ Stall(w)
  \/ EventLost \/ Quieten \/ GrowOld

Spec == Init /\ [][Next]_vars

(* API calls and sweep bodies run to their end once started, a received    *)
(* event is handled, a worker slot takes a waiting job and finishes it     *)
(* (RUN_TIMEOUT_MS bounds every execution), the cron fires, time passes.   *)
(* Nothing forces a tester to make a request or a failure to happen.       *)
CallContinues(c) ==
  \/ Enqueue(c) \/ ClaimWave(c) \/ ResetWave(c)
  \/ Stamp(c) \/ Complete(c) \/ FailFastCancel(c)
  \/ RequestContinues(c) \/ SweepContinues(c)

Fairness ==
  /\ \A c \in Callers : WF_vars(CallContinues(c))
  /\ WF_vars(\E c \in Callers : OnRunComplete(c))
  /\ \A w \in Workers : WF_vars(WorkerStep(w))
  /\ WF_vars(\E c \in Callers : SweepStart(c))
  /\ SF_vars(Quieten)
  /\ WF_vars(GrowOld)

FairSpec == Spec /\ Fairness

------------------------------------------------------------------------------
(* The type invariant, by group of variables.                              *)
FeatureRunType ==
  /\ frStatus \in FeatureRunStatuses /\ attempt \in Attempts
  /\ quiet \in BOOLEAN /\ age \in 0..MaxAge

RowsType ==
  /\ status \in [TestRuns -> RunStatuses]
  /\ ladderAttempt \in [TestRuns -> Attempts]
  /\ passedAt \in [TestRuns -> 0..MaxAttempt]
  /\ claims \in [TestRuns -> [Attempts -> Nat]]

QueueType == jobs \in [Jobs -> JobStates] /\ retried \subseteq Jobs

SlotsType ==
  /\ wpc \in [Workers -> WorkerSteps] /\ stalled \subseteq Workers
  /\ wjob \in [Workers -> Jobs \cup {<<>>}]
  /\ \A w \in Workers : wpc[w] # "idle" => wjob[w] \in Jobs

CallsType ==
  /\ cpc \in [Callers -> CallSteps] /\ wave \in [Callers -> Attempts]
  /\ work \in [Callers -> SUBSET TestRuns] /\ mark \in [Callers -> SUBSET TestRuns]
  /\ passes \in [Callers -> SUBSET Jobs]

TypeOK ==
  /\ FeatureRunType /\ RowsType /\ QueueType /\ SlotsType /\ CallsType
  /\ events \in Nat /\ ops \in Nat /\ crashes \in Nat

(* However completion events, redeliveries, stale resets and restarts      *)
(* interleave, the workers' claim and the wave's compare-and-set together  *)
(* let a test execute at most once at each ladder attempt.                 *)
AttemptOnce == \A r \in TestRuns, a \in Attempts : claims[r][a] <= 1

(* Why: a wave that was read as due exists; a wave that was claimed but    *)
(* not yet reset is open, has a single owner and no execution; no wave is  *)
(* used before it opens; and a row ready to be claimed has not been        *)
(* executed at its ladder attempt.                                         *)
DueWaveExists == \A c \in Callers : cpc[c] = "claimWave" => wave[c] < MaxAttempt

ClaimedWaveIsOwned ==
  \A c \in Callers : cpc[c] = "resetWave" =>
    /\ wave[c] <= attempt
    /\ \A d \in Callers : (cpc[d] = "resetWave" /\ wave[d] = wave[c]) => d = c

ClaimedWaveIsUnused ==
  \A c \in Callers : cpc[c] = "resetWave" =>
    \A r \in TestRuns : claims[r][wave[c]] = 0 /\ ladderAttempt[r] # wave[c]

FutureWavesAreUnused ==
  \A r \in TestRuns :
    /\ ladderAttempt[r] <= attempt
    /\ \A a \in Attempts : a > attempt => claims[r][a] = 0

ReadyIsUnclaimed ==
  \A r \in TestRuns : Claimable(r) => claims[r][ladderAttempt[r]] = 0

(* Wave ownership: the inductive invariant behind AttemptOnce.             *)
WaveOwnership ==
  /\ DueWaveExists /\ ClaimedWaveIsOwned /\ ClaimedWaveIsUnused
  /\ FutureWavesAreUnused /\ ReadyIsUnclaimed /\ AttemptOnce

(* No two worker slots drive a browser for the same TestRun at once: a     *)
(* stalled or retried job, or the next wave, never starts beside it.       *)
ExclusiveExecution ==
  \A v, w \in Workers :
    (v # w /\ wpc[v] = "exec" /\ wpc[w] = "exec") => RunOf(v) # RunOf(w)

(* A FeatureRun reported COMPLETE has no test left to run or running.      *)
CompleteMeansFinished ==
  frStatus = "COMPLETE" => \A r \in TestRuns : IsTerminal(status[r])

(* Once complete, every pass tells the wave it passed at.                  *)
StampedPasses ==
  frStatus = "COMPLETE" =>
    \A r \in TestRuns : status[r] = "PASSED" => passedAt[r] = ladderAttempt[r]

(* Overlapping calls may each fill the window with other tests, but no call*)
(* fills it twice: the tests queued or running are at most one window of   *)
(* the configured concurrency for every call that can be open.             *)
WithinBudget ==
  Cardinality({r \in TestRuns : status[r] \in IN_FLIGHT_STATUSES})
    <= Cardinality(Callers) * Concurrency

(* Nothing overwrites a recorded pass.                                     *)
PassedStays ==
  [][\A r \in TestRuns : status[r] = "PASSED" => status'[r] = "PASSED"]_vars

(* A stopped or reaped FeatureRun has no test waiting or executing.        *)
CancelledIsQuiescent ==
  frStatus = "CANCELLED" => \A r \in TestRuns : status[r] \notin UNFINISHED_STATUSES

(* All tests report before any re-attempt begins: when a wave opens, no    *)
(* test is unfinished and each failed one was attempted in the wave before.*)
WaveReports ==
  [][attempt' > attempt =>
       /\ \A r \in TestRuns : status[r] \notin UNFINISHED_STATUSES
       /\ \A r \in FailedRuns : claims[r][attempt] = 1]_vars

(* What the ladder promises, and that this module keeps it.                *)
RL == INSTANCE RetryLadder WITH opened <- attempt, executed <- claims
ImplementsLadder == RL!LadderSpec

(* With every event delivered, the FeatureRun completes for good.          *)
EventuallyComplete ==
  <>[](frStatus = "COMPLETE" /\ \A r \in TestRuns : IsTerminal(status[r]))

(* Whatever is lost or crashes, no test and no FeatureRun stays open.      *)
EventuallySettled ==
  <>[](/\ frStatus \in {"COMPLETE", "CANCELLED"}
       /\ \A r \in TestRuns : status[r] \notin UNFINISHED_STATUSES)

------------------------------------------------------------------------------
(* What comments of the code say and TLC refutes: no run checks these, the *)
(* README gives the traces.                                                *)

(* A feature with concurrency 1 runs one test at a time.                   *)
OneWindow == Cardinality({r \in TestRuns : status[r] \in IN_FLIGHT_STATUSES}) <= Concurrency

(* A test the stop left without verdict keeps having none.                 *)
NoVerdictAfterStop ==
  [][\A r \in TestRuns : status[r] = "NOT_TESTED" => status'[r] = "NOT_TESTED"]_vars

(* A paused FeatureRun runs again when a tester resumes it; the sweep wakes*)
(* only what the reaper paused for idleness.                               *)
PauseHolds ==
  [][(frStatus = "PAUSED" /\ frStatus' = "RUNNING") =>
       (age >= 1 \/ \E c \in Callers : cpc[c] = "resume")]_vars

(* A lost completion event never costs the run: one whose tests all have a *)
(* verdict is not cancelled.                                               *)
FinishedIsNotCancelled ==
  [][(frStatus \in ACTIVE_FEATURE_RUN /\ frStatus' = "CANCELLED") => ~AllDone]_vars

==============================================================================
