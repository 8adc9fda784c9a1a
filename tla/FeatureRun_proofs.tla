-------------------------- MODULE FeatureRun_proofs --------------------------
(***************************************************************************)
(* Proofs about FeatureRun, for every set of test runs, workers and API    *)
(* calls and every number of waves.  Types, at most one execution per      *)
(* ladder attempt and the refinement of the ladder hold under every        *)
(* pattern of requests and failures; the theorems after them, from what a  *)
(* single step may do to rows, slots and calls, name the ones they exclude.*)
(***************************************************************************)
EXTENDS FeatureRun, TLAPS, FiniteSetTheorems, FunctionTheorems

(* What the type proof needs of the constants, in one place.               *)
LEMMA ConstantTypes ==
  /\ MaxAttempt \in Nat \ {0} /\ 1 \in Attempts /\ Attempts \subseteq Nat
  /\ Deliveries \subseteq Nat
  /\ Verdicts \subseteq RunStatuses
  /\ MaxAge \in 0..2 /\ 0 \in 0..MaxAge
BY BudgetAssumption, EnvironmentAssumption DEF Attempts, RunStatuses

(* The runs a call selects are runs of this feature run.                   *)
LEMMA SelectionTypes ==
  /\ Pending \subseteq TestRuns /\ InFlight \subseteq TestRuns
  /\ FailedRuns \subseteq TestRuns /\ Unfinished \subseteq TestRuns
  /\ \A S, n : \A first \in FirstByDuration(S, n) : first \subseteq S
BY DEF Pending, InFlight, FailedRuns, Unfinished, FirstByDuration

LEMMA InitTypes == Init => TypeOK
<1> SUFFICES ASSUME Init PROVE TypeOK
  OBVIOUS
<1> USE DEF Init
<1>1. 1 \in Attempts /\ 0 \in 0..MaxAge /\ 0 \in 0..MaxAttempt
  BY ConstantTypes DEF Attempts
<1>2. frStatus \in FeatureRunStatuses /\ attempt \in Attempts /\ quiet \in BOOLEAN /\ age \in 0..MaxAge
  BY <1>1 DEF FeatureRunStatuses
<1>3. /\ status \in [TestRuns -> RunStatuses]
      /\ ladderAttempt \in [TestRuns -> Attempts]
      /\ passedAt \in [TestRuns -> 0..MaxAttempt]
      /\ claims \in [TestRuns -> [Attempts -> Nat]]
  BY <1>1 DEF RunStatuses
<1>4. jobs \in [Jobs -> JobStates] /\ retried \subseteq Jobs
  BY DEF JobStates
<1>5. /\ wpc \in [Workers -> WorkerSteps] /\ stalled \subseteq Workers
      /\ wjob \in [Workers -> Jobs \cup {<<>>}]
      /\ \A w \in Workers : wpc[w] # "idle" => wjob[w] \in Jobs
  BY DEF WorkerSteps
<1>6. PICK starter \in Callers, first \in FirstByDuration(TestRuns, Concurrency) :
        /\ cpc = [c \in Callers |-> IF c = starter THEN "enqueue" ELSE "idle"]
        /\ work = [c \in Callers |-> IF c = starter THEN first ELSE {}]
  OBVIOUS
<1>7. cpc \in [Callers -> CallSteps] /\ work \in [Callers -> SUBSET TestRuns]
  BY <1>6, SelectionTypes DEF CallSteps
<1>8. wave \in [Callers -> Attempts] /\ mark \in [Callers -> SUBSET TestRuns]
      /\ passes \in [Callers -> SUBSET Jobs]
  BY <1>1
<1> QED
  BY <1>2, <1>3, <1>4, <1>5, <1>7, <1>8
     DEF TypeOK, FeatureRunType, RowsType, QueueType, SlotsType, CallsType

(* Variables a step leaves alone keep their types.                         *)
LEMMA FrameTypes ==
  ASSUME TypeOK
  PROVE  /\ UNCHANGED frVars => FeatureRunType'
         /\ UNCHANGED runVars => RowsType'
         /\ UNCHANGED queueVars => QueueType'
         /\ UNCHANGED workerVars => SlotsType'
         /\ UNCHANGED callVars => CallsType'
BY DEF TypeOK, FeatureRunType, RowsType, QueueType, SlotsType, CallsType,
       frVars, runVars, queueVars, workerVars, callVars

(* The steps every API call is built from.                                 *)
LEMMA CallTypes ==
  ASSUME CallsType, NEW c \in Callers
  PROVE  /\ \A step \in CallSteps :
              Goto(c, step) /\ UNCHANGED <<wave, work, mark, passes>> => CallsType'
         /\ \A step \in CallSteps, S \in SUBSET TestRuns, a \in Attempts :
              Proceed(c, step, S, a) => CallsType'
         /\ Return(c) => CallsType'
         /\ \A S \in SUBSET TestRuns : EnqueueAll(c, S) => CallsType'
<1>1. "idle" \in CallSteps /\ "enqueue" \in CallSteps /\ 1 \in Attempts
  BY ConstantTypes DEF CallSteps
<1>2. \A step \in CallSteps :
        Goto(c, step) /\ UNCHANGED <<wave, work, mark, passes>> => CallsType'
  BY DEF CallsType, Goto
<1>3. \A step \in CallSteps, S \in SUBSET TestRuns, a \in Attempts :
        Proceed(c, step, S, a) => CallsType'
  BY DEF CallsType, Proceed, Goto
<1>4. Return(c) => CallsType'
  BY <1>1 DEF CallsType, Return, Goto
<1>5. \A S \in SUBSET TestRuns : EnqueueAll(c, S) => CallsType'
  BY <1>1, <1>3, <1>4 DEF EnqueueAll
<1> QED
  BY <1>2, <1>3, <1>4, <1>5


(* Adding jobs and marking rows QUEUED.                                    *)
LEMMA EnqueueTypes ==
  ASSUME TypeOK, NEW c \in Callers, NEW r \in TestRuns
  PROVE  /\ AddJob(c, r) => TypeOK'
         /\ MarkQueued(c, r) => TypeOK'
<1> USE DEF TypeOK, frVars, runVars, queueVars, workerVars, callVars
<1> USE ConstantTypes, SelectionTypes, FrameTypes, CallTypes
<1>1. ASSUME AddJob(c, r) PROVE TypeOK'
  <2>1. QueueType'
    BY <1>1 DEF AddJob, JobOf, Jobs, JobStates, QueueType, RowsType
  <2>2. CallsType'
    BY <1>1 DEF AddJob, CallsType
  <2> QED
    BY <1>1, <2>1, <2>2 DEF AddJob
<1>2. ASSUME MarkQueued(c, r) PROVE TypeOK'
  <2>1. RowsType'
    BY <1>2 DEF MarkQueued, QueuedFrom, RowsType, RunStatuses
  <2>2. CallsType'
    BY <1>2 DEF MarkQueued, CallsType, Goto, CallSteps
  <2> QED
    BY <1>2, <2>1, <2>2 DEF MarkQueued
<1> QED
  BY <1>1, <1>2

(* onRunComplete.                                                          *)
LEMMA CompletionTypes ==
  ASSUME TypeOK, DueWaveExists, NEW c \in Callers
  PROVE  /\ OnRunComplete(c) => TypeOK'
         /\ ClaimWave(c) => TypeOK'
         /\ ResetWave(c) => TypeOK'
         /\ Stamp(c) => TypeOK'
         /\ Complete(c) => TypeOK'
         /\ FailFastCancel(c) => TypeOK'
<1> USE DEF TypeOK, frVars, runVars, queueVars, workerVars, callVars
<1> USE ConstantTypes, SelectionTypes, FrameTypes, CallTypes
<1>1. ASSUME OnRunComplete(c) PROVE TypeOK'
  <2>1. CallsType'
    <3>1. CASE Proceed(c, "claimWave", FailedRuns, attempt)
      BY <3>1 DEF FeatureRunType, CallSteps
    <3>2. CASE /\ Goto(c, "stamp") /\ passes' = [passes EXCEPT ![c] = UnstampedPasses]
               /\ UNCHANGED <<wave, work, mark>>
      <4>1. UnstampedPasses \subseteq Jobs
        BY DEF UnstampedPasses, RowsType, Jobs
      <4> QED
        BY <3>2, <4>1 DEF CallsType, Goto, CallSteps
    <3>3. CASE Proceed(c, "failFast", Pending, 1)
      BY <3>3 DEF CallSteps
    <3>4. CASE \E first \in TopUp : EnqueueAll(c, first)
      BY <3>4 DEF TopUp
    <3>5. CASE UNCHANGED callVars
      BY <3>5
    <3> QED
      BY <1>1, <3>1, <3>2, <3>3, <3>4, <3>5 DEF OnRunComplete
  <2>2. events' \in Nat
    BY <1>1 DEF OnRunComplete
  <2> QED
    BY <1>1, <2>1, <2>2 DEF OnRunComplete
<1>2. ASSUME ClaimWave(c) PROVE TypeOK'
  <2>0. wave[c] + 1 \in Attempts /\ work[c] \in SUBSET TestRuns
    BY <1>2, BudgetAssumption DEF ClaimWave, DueWaveExists, Attempts, CallsType
  <2>1. FeatureRunType'
    BY <1>2, <2>0 DEF ClaimWave, FeatureRunType
  <2>2. CallsType'
    BY <1>2, <2>0 DEF ClaimWave, CallSteps
  <2> QED
    BY <1>2, <2>1, <2>2 DEF ClaimWave, RequestStep
<1>3. ASSUME ResetWave(c) PROVE TypeOK'
  <2>1. RowsType'
    BY <1>3 DEF ResetWave, CallsType, RowsType, RunStatuses
  <2>2. CallsType'
    BY <1>3 DEF ResetWave, CallsType
  <2> QED
    BY <1>3, <2>1, <2>2 DEF ResetWave
<1>4. ASSUME Stamp(c) PROVE TypeOK'
  <2>1. RowsType'
    <3> DEFINE Known(r) == \E a \in Attempts : <<r, a>> \in passes[c]
               Wave(r) == CHOOSE a \in Attempts : <<r, a>> \in passes[c]
    <3>1. \A r \in TestRuns : Known(r) => Wave(r) \in Attempts
      OBVIOUS
    <3>2. Attempts \subseteq 0..MaxAttempt
      BY DEF Attempts
    <3>3. passedAt' = [r \in TestRuns |-> IF Known(r) THEN Wave(r) ELSE passedAt[r]]
      BY <1>4 DEF Stamp
    <3> HIDE DEF Known, Wave
    <3>4. passedAt' \in [TestRuns -> 0..MaxAttempt]
      BY <3>1, <3>2, <3>3 DEF RowsType
    <3> QED
      BY <1>4, <3>4 DEF Stamp, RowsType
  <2>2. CallsType'
    BY <1>4 DEF Stamp, CallsType, Goto, CallSteps
  <2> QED
    BY <1>4, <2>1, <2>2 DEF Stamp
<1>5. ASSUME Complete(c) PROVE TypeOK'
  <2>1. FeatureRunType'
    BY <1>5 DEF Complete, FeatureRunType, FeatureRunStatuses, SetFeatureRun
  <2> QED
    BY <1>5, <2>1 DEF Complete
<1>6. ASSUME FailFastCancel(c) PROVE TypeOK'
  <2>1. RowsType'
    BY <1>6 DEF FailFastCancel, RowsType, RunStatuses
  <2> QED
    BY <1>6, <2>1 DEF FailFastCancel
<1> QED
  BY <1>1, <1>2, <1>3, <1>4, <1>5, <1>6

(* A tester's requests.                                                    *)
LEMMA RequestTypes ==
  ASSUME TypeOK, NEW c \in Callers
  PROVE  /\ PauseRead(c) => TypeOK'
         /\ ResumeRead(c) => TypeOK'
         /\ StopRead(c) => TypeOK'
         /\ \A r \in TestRuns : SkipRead(c, r) => TypeOK'
         /\ \A r \in TestRuns : CancelRead(c, r) => TypeOK'
         /\ Heartbeat(c) => TypeOK'
         /\ Pause(c) => TypeOK'
         /\ Resume(c) => TypeOK'
         /\ StopRows(c) => TypeOK'
         /\ StopRun(c) => TypeOK'
         /\ Skip(c) => TypeOK'
         /\ Cancel(c) => TypeOK'
<1> USE DEF TypeOK, frVars, runVars, queueVars, workerVars, callVars
<1> USE ConstantTypes, SelectionTypes, FrameTypes, CallTypes
<1>1. ASSUME PauseRead(c) PROVE TypeOK'
  <2>1. CallsType'
    BY <1>1 DEF PauseRead, Request, CallSteps
  <2> QED
    BY <1>1, <2>1 DEF PauseRead, Request
<1>2. ASSUME ResumeRead(c) PROVE TypeOK'
  <2>1. CallsType'
    BY <1>2 DEF ResumeRead, Request, CallSteps
  <2> QED
    BY <1>2, <2>1 DEF ResumeRead, Request
<1>3. ASSUME StopRead(c) PROVE TypeOK'
  <2>1. CallsType'
    BY <1>3 DEF StopRead, Request, CallSteps
  <2> QED
    BY <1>3, <2>1 DEF StopRead, Request
<1>4. ASSUME NEW r \in TestRuns, SkipRead(c, r) PROVE TypeOK'
  <2>1. CallsType'
    BY <1>4 DEF SkipRead, Request, CallSteps
  <2> QED
    BY <1>4, <2>1 DEF SkipRead, Request
<1>5. ASSUME NEW r \in TestRuns, CancelRead(c, r) PROVE TypeOK'
  <2>1. CallsType'
    BY <1>5 DEF CancelRead, Request, CallSteps
  <2> QED
    BY <1>5, <2>1 DEF CancelRead, Request
<1>6. ASSUME Heartbeat(c) PROVE TypeOK'
  <2>1. FeatureRunType'
    BY <1>6 DEF Heartbeat, FeatureRunType
  <2> QED
    BY <1>6, <2>1 DEF Heartbeat
<1>7. ASSUME Pause(c) PROVE TypeOK'
  <2>1. FeatureRunType'
    BY <1>7 DEF Pause, RequestStep, FeatureRunType, FeatureRunStatuses, SetFeatureRun
  <2>2. CallsType'
    BY <1>7 DEF Pause, RequestStep, CallsType, CallSteps
  <2> QED
    BY <1>7, <2>1, <2>2 DEF Pause, RequestStep
<1>8. ASSUME Resume(c) PROVE TypeOK'
  <2>1. FeatureRunType'
    BY <1>8 DEF Resume, RequestStep, FeatureRunType, FeatureRunStatuses, SetFeatureRun
  <2>2. CallsType'
    BY <1>8 DEF Resume, RequestStep, CallsType, CallSteps
  <2> QED
    BY <1>8, <2>1, <2>2 DEF Resume, RequestStep
<1>9. ASSUME StopRows(c) PROVE TypeOK'
  <2>1. RowsType'
    BY <1>9 DEF StopRows, RequestStep, RowsType, RunStatuses
  <2>2. CallsType'
    BY <1>9 DEF StopRows, RequestStep, CallSteps
  <2>3. FeatureRunType'
    BY <1>9 DEF StopRows, RequestStep, FeatureRunType
  <2> QED
    BY <1>9, <2>1, <2>2, <2>3 DEF StopRows, RequestStep
<1>10. ASSUME StopRun(c) PROVE TypeOK'
  <2>1. FeatureRunType'
    BY <1>10 DEF StopRun, RequestStep, FeatureRunType, FeatureRunStatuses, SetFeatureRun
  <2>2. CallsType'
    BY <1>10 DEF StopRun, RequestStep, CallsType, CallSteps
  <2> QED
    BY <1>10, <2>1, <2>2 DEF StopRun, RequestStep
<1>11. ASSUME Skip(c) PROVE TypeOK'
  <2>1. RowsType'
    BY <1>11 DEF Skip, RequestStep, CancelRow, RowsType, RunStatuses
  <2>2. CallsType'
    BY <1>11 DEF Skip, RequestStep, CancelRow, CallSteps
  <2>3. FeatureRunType'
    BY <1>11 DEF Skip, RequestStep, CancelRow, FeatureRunType
  <2> QED
    BY <1>11, <2>1, <2>2, <2>3 DEF Skip, RequestStep, CancelRow
<1>12. ASSUME Cancel(c) PROVE TypeOK'
  <2>1. RowsType'
    BY <1>12 DEF Cancel, RequestStep, CancelRow, RowsType, RunStatuses
  <2>2. CallsType'
    BY <1>12 DEF Cancel, RequestStep, CancelRow, CallSteps
  <2>3. FeatureRunType'
    BY <1>12 DEF Cancel, RequestStep, CancelRow, FeatureRunType
  <2> QED
    BY <1>12, <2>1, <2>2, <2>3 DEF Cancel, RequestStep, CancelRow
<1> QED
  BY <1>1, <1>2, <1>3, <1>4, <1>5, <1>6, <1>7, <1>8, <1>9, <1>10, <1>11, <1>12

(* The sweep.                                                              *)
LEMMA SweepTypes ==
  ASSUME TypeOK, NEW c \in Callers
  PROVE  /\ SweepStart(c) => TypeOK'
         /\ Wake(c) => TypeOK'
         /\ IdlePauseRead(c) => TypeOK'
         /\ IdlePause(c) => TypeOK'
         /\ ReapRead(c) => TypeOK'
         /\ Reap(c) => TypeOK'
<1> USE DEF TypeOK, frVars, runVars, queueVars, workerVars, callVars
<1> USE ConstantTypes, SelectionTypes, FrameTypes, CallTypes
<1>1. ASSUME SweepStart(c) PROVE TypeOK'
  <2>1. CallsType'
    BY <1>1 DEF SweepStart, CallSteps
  <2> QED
    BY <1>1, <2>1 DEF SweepStart
<1>2. ASSUME Wake(c) PROVE TypeOK'
  <2>1. FeatureRunType'
    BY <1>2 DEF Wake, RequestStep, FeatureRunType, FeatureRunStatuses, SetFeatureRun
  <2>2. CallsType'
    BY <1>2 DEF Wake, RequestStep, CallsType, CallSteps
  <2> QED
    BY <1>2, <2>1, <2>2 DEF Wake, RequestStep
<1>3. ASSUME IdlePauseRead(c) PROVE TypeOK'
  <2>1. CallsType'
    BY <1>3 DEF IdlePauseRead, RequestStep, CallSteps
  <2> QED
    BY <1>3, <2>1 DEF IdlePauseRead, RequestStep
<1>4. ASSUME IdlePause(c) PROVE TypeOK'
  <2>1. FeatureRunType'
    BY <1>4 DEF IdlePause, RequestStep, FeatureRunType, FeatureRunStatuses, SetFeatureRun
  <2>2. CallsType'
    BY <1>4 DEF IdlePause, RequestStep, CallsType, CallSteps
  <2> QED
    BY <1>4, <2>1, <2>2 DEF IdlePause, RequestStep
<1>5. ASSUME ReapRead(c) PROVE TypeOK'
  <2>1. CallsType'
    BY <1>5 DEF ReapRead, RequestStep, CallSteps
  <2> QED
    BY <1>5, <2>1 DEF ReapRead, RequestStep
<1>6. ASSUME Reap(c) PROVE TypeOK'
  <2>1. FeatureRunType'
    BY <1>6 DEF Reap, RequestStep, FeatureRunType, FeatureRunStatuses, SetFeatureRun
  <2>2. RowsType'
    BY <1>6 DEF Reap, Reaped, RequestStep, RowsType, RunStatuses
  <2> QED
    BY <1>6, <2>1, <2>2 DEF Reap, RequestStep
<1> QED
  BY <1>1, <1>2, <1>3, <1>4, <1>5, <1>6

(* Counting one up keeps a vector of counters one.                         *)
LEMMA CountUp ==
  ASSUME NEW S, NEW f \in [S -> Nat], NEW a \in S
  PROVE  [f EXCEPT ![a] = f[a] + 1] \in [S -> Nat]
OBVIOUS

(* The worker slots.                                                       *)
LEMMA WorkerTypes ==
  ASSUME TypeOK, NEW w \in Workers
  PROVE  /\ \A j \in Jobs : Pick(w, j) => TypeOK'
         /\ Claim(w) => TypeOK'
         /\ SkipDuplicate(w) => TypeOK'
         /\ \A v \in RunStatuses : Finish(w, v) => TypeOK'
         /\ \A n \in Deliveries : Publish(w, n) => TypeOK'
         /\ PublishFails(w) => TypeOK'
         /\ Close(w) => TypeOK'
         /\ WorkerCrash(w) => TypeOK'
         /\ Stall(w) => TypeOK'
<1> USE DEF TypeOK, frVars, runVars, queueVars, workerVars, callVars
<1> USE ConstantTypes, SelectionTypes, FrameTypes, CallTypes
<1>1. ASSUME NEW j \in Jobs, Pick(w, j) PROVE TypeOK'
  <2>1. QueueType'
    BY <1>1 DEF Pick, QueueType, SlotsType, JobStates
  <2>2. SlotsType'
    BY <1>1 DEF Pick, SlotsType, WorkerSteps
  <2> QED
    BY <1>1, <2>1, <2>2 DEF Pick
<1>2. ASSUME Claim(w) PROVE TypeOK'
  <2>1. RowsType'
    <3>1. RunOf(w) \in TestRuns
      BY <1>2 DEF Claim, RunOf, Jobs, SlotsType
    <3>2. status' \in [TestRuns -> RunStatuses]
      BY <1>2, <3>1 DEF Claim, RowsType, RunStatuses
    <3>3. claims' \in [TestRuns -> [Attempts -> Nat]]
      <4> DEFINE r == RunOf(w)
                 a == ladderAttempt[r]
                 row == [claims[r] EXCEPT ![a] = claims[r][a] + 1]
      <4>1. claims' = [claims EXCEPT ![r] = row]
        BY <1>2 DEF Claim
      <4>2. a \in Attempts /\ claims[r] \in [Attempts -> Nat]
        BY <3>1 DEF RowsType
      <4>3. row \in [Attempts -> Nat]
        BY <4>2, CountUp
      <4> HIDE DEF r, row
      <4> QED
        BY <4>1, <4>3 DEF RowsType
    <3> QED
      BY <1>2, <3>2, <3>3 DEF Claim, RowsType
  <2>2. QueueType'
    BY <1>2 DEF Claim, Throw, Release, QueueType, SlotsType, JobStates
  <2>3. SlotsType'
    BY <1>2 DEF Claim, Throw, Release, SlotsType, WorkerSteps
  <2>4. crashes' \in Nat
    BY <1>2 DEF Claim, Fault
  <2> QED
    BY <1>2, <2>1, <2>2, <2>3, <2>4 DEF Claim
<1>3. ASSUME SkipDuplicate(w) PROVE TypeOK'
  <2>1. QueueType'
    BY <1>3 DEF SkipDuplicate, Release, QueueType, SlotsType, JobStates
  <2>2. SlotsType'
    BY <1>3 DEF SkipDuplicate, Release, SlotsType, WorkerSteps
  <2> QED
    BY <1>3, <2>1, <2>2 DEF SkipDuplicate
<1>4. ASSUME NEW v \in RunStatuses, Finish(w, v) PROVE TypeOK'
  <2>1. RowsType'
    BY <1>4 DEF Finish, RunOf, Jobs, SlotsType, RowsType, RunStatuses
  <2>2. SlotsType'
    BY <1>4 DEF Finish, SlotsType, WorkerSteps
  <2> QED
    BY <1>4, <2>1, <2>2 DEF Finish
<1>5. ASSUME NEW n \in Deliveries, Publish(w, n) PROVE TypeOK'
  <2>1. QueueType'
    BY <1>5 DEF Publish, Throw, Release, QueueType, SlotsType, JobStates
  <2>2. SlotsType'
    BY <1>5 DEF Publish, Throw, Release, SlotsType, WorkerSteps
  <2> QED
    BY <1>5, <2>1, <2>2 DEF Publish
<1>6. ASSUME PublishFails(w) PROVE TypeOK'
  <2>1. RowsType'
    BY <1>6 DEF PublishFails, RunOf, Jobs, SlotsType, RowsType, RunStatuses
  <2>2. SlotsType'
    BY <1>6 DEF PublishFails, SlotsType, WorkerSteps
  <2> QED
    BY <1>6, <2>1, <2>2 DEF PublishFails, Fault
<1>7. ASSUME Close(w) PROVE TypeOK'
  <2>1. QueueType'
    BY <1>7 DEF Close, Release, QueueType, SlotsType, JobStates
  <2>2. SlotsType'
    BY <1>7 DEF Close, Release, SlotsType, WorkerSteps
  <2> QED
    BY <1>7, <2>1, <2>2 DEF Close
<1>8. ASSUME WorkerCrash(w) PROVE TypeOK'
  <2>1. QueueType'
    BY <1>8 DEF WorkerCrash, Release, QueueType, SlotsType, JobStates
  <2>2. SlotsType'
    BY <1>8 DEF WorkerCrash, Release, SlotsType, WorkerSteps
  <2> QED
    BY <1>8, <2>1, <2>2 DEF WorkerCrash, Fault
<1>9. ASSUME Stall(w) PROVE TypeOK'
  <2>1. QueueType'
    BY <1>9 DEF Stall, QueueType, SlotsType, JobStates
  <2>2. SlotsType'
    BY <1>9 DEF Stall, SlotsType
  <2> QED
    BY <1>9, <2>1, <2>2 DEF Stall, Fault
<1> QED
  BY <1>1, <1>2, <1>3, <1>4, <1>5, <1>6, <1>7, <1>8, <1>9

(* Failures of the API, and time.                                          *)
LEMMA FailureTypes ==
  ASSUME TypeOK
  PROVE  /\ \A c \in Callers : ApiCrash(c) => TypeOK'
         /\ EventLost => TypeOK'
         /\ Quieten => TypeOK'
         /\ GrowOld => TypeOK'
         /\ UNCHANGED vars => TypeOK'
<1> USE DEF TypeOK, frVars, runVars, queueVars, workerVars, callVars
<1> USE ConstantTypes, SelectionTypes, FrameTypes, CallTypes
<1>1. ASSUME NEW c \in Callers, ApiCrash(c) PROVE TypeOK'
  BY <1>1 DEF ApiCrash, Fault
<1>2. EventLost => TypeOK'
  BY DEF EventLost, Fault
<1>3. Quieten => TypeOK'
  BY DEF Quieten, FeatureRunType
<1>4. GrowOld => TypeOK'
  BY DEF GrowOld, FeatureRunType
<1>5. UNCHANGED vars => TypeOK'
  BY DEF vars
<1> QED
  BY <1>1, <1>2, <1>3, <1>4, <1>5

(* Every step preserves the types.                                         *)
LEMMA StepTypes == TypeOK /\ DueWaveExists /\ [Next]_vars => TypeOK'
<1> SUFFICES ASSUME TypeOK, DueWaveExists, [Next]_vars PROVE TypeOK'
  OBVIOUS
<1>1. ASSUME NEW c \in Callers, Enqueue(c) PROVE TypeOK'
  BY <1>1, EnqueueTypes DEF Enqueue
<1>2. ASSUME NEW c \in Callers, CompletionStep(c) PROVE TypeOK'
  BY <1>2, CompletionTypes DEF CompletionStep
<1>3. ASSUME NEW c \in Callers, RequestStarts(c) \/ RequestContinues(c) PROVE TypeOK'
  <2>1. ASSUME NEW r \in TestRuns, SkipRead(c, r) \/ CancelRead(c, r) PROVE TypeOK'
    BY <2>1, RequestTypes
  <2>2. CASE PauseRead(c) \/ ResumeRead(c) \/ StopRead(c) \/ Heartbeat(c) \/ RequestContinues(c)
    BY <2>2, RequestTypes DEF RequestContinues
  <2> QED
    BY <1>3, <2>1, <2>2 DEF RequestStarts
<1>4. ASSUME NEW c \in Callers, SweepStart(c) \/ SweepContinues(c) PROVE TypeOK'
  BY <1>4, SweepTypes DEF SweepContinues
<1>5. ASSUME NEW w \in Workers, WorkerStep(w) \/ WorkerCrash(w) \/ Stall(w) PROVE TypeOK'
  BY <1>5, WorkerTypes DEF WorkerStep
<1>6. ASSUME NEW c \in Callers, ApiCrash(c) PROVE TypeOK'
  BY <1>6, FailureTypes
<1>7. CASE EventLost \/ Quieten \/ GrowOld \/ UNCHANGED vars
  BY <1>7, FailureTypes
<1> QED
  BY <1>1, <1>2, <1>3, <1>4, <1>5, <1>6, <1>7 DEF Next

------------------------------------------------------------------------------
(* A step is quiet for the rows when no row becomes ready to be claimed,   *)
(* and quiet for the calls when no call starts or changes a wave claim.    *)
QuietRows ==
  \A r \in TestRuns : status'[r] \in {"PENDING", "QUEUED"} => status[r] \in {"PENDING", "QUEUED"}

QuietCalls ==
  \A d \in Callers :
    /\ cpc'[d] = "claimWave" => wave'[d] < MaxAttempt
    /\ cpc'[d] = "resetWave" => (cpc[d] = "resetWave" /\ wave'[d] = wave[d])

LEMMA QuietStep ==
  ASSUME WaveOwnership, QuietRows, QuietCalls, UNCHANGED <<attempt, ladderAttempt, claims>>
  PROVE  WaveOwnership'
<1>1. DueWaveExists' /\ ClaimedWaveIsOwned' /\ ClaimedWaveIsUnused'
  BY DEF WaveOwnership, QuietCalls, DueWaveExists, ClaimedWaveIsOwned, ClaimedWaveIsUnused
<1>2. FutureWavesAreUnused' /\ AttemptOnce'
  BY DEF WaveOwnership, FutureWavesAreUnused, AttemptOnce
<1>3. ReadyIsUnclaimed'
  BY DEF WaveOwnership, QuietRows, ReadyIsUnclaimed, Claimable
<1> QED
  BY <1>1, <1>2, <1>3 DEF WaveOwnership

(* Calls that do not go to claimWave or resetWave are quiet.               *)
LEMMA CallsAreQuiet ==
  ASSUME CallsType, DueWaveExists, NEW c \in Callers
  PROVE  /\ UNCHANGED <<cpc, wave>> => QuietCalls
         /\ \A step \in CallSteps \ {"claimWave", "resetWave"} :
              Goto(c, step) /\ UNCHANGED wave => QuietCalls
         /\ \A step \in CallSteps \ {"claimWave", "resetWave"} : \A S, a :
              Proceed(c, step, S, a) => QuietCalls
         /\ Return(c) => QuietCalls
         /\ \A S : EnqueueAll(c, S) => QuietCalls
<1> USE DEF QuietCalls, CallsType, DueWaveExists
<1>1. UNCHANGED <<cpc, wave>> => QuietCalls
  OBVIOUS
<1>2. \A step \in CallSteps \ {"claimWave", "resetWave"} :
        Goto(c, step) /\ UNCHANGED wave => QuietCalls
  BY DEF Goto
<1>3. \A step \in CallSteps \ {"claimWave", "resetWave"} : \A S, a :
        Proceed(c, step, S, a) => QuietCalls
  BY DEF Proceed, Goto
<1>4. Return(c) => QuietCalls
  BY DEF Return, Goto
<1>5. \A S : EnqueueAll(c, S) => QuietCalls
  <2>1. "enqueue" \in CallSteps \ {"claimWave", "resetWave"}
    BY DEF CallSteps
  <2> QED
    BY <1>3, <1>4, <2>1 DEF EnqueueAll
<1> QED
  BY <1>1, <1>2, <1>3, <1>4, <1>5

(* The compare-and-set opens a wave nobody owns and nothing has used.      *)
LEMMA ClaimWaveKeepsOwnership ==
  ASSUME TypeOK, WaveOwnership, NEW c \in Callers, ClaimWave(c)
  PROVE  WaveOwnership'
<1> USE DEF WaveOwnership, TypeOK, runVars
<1>1. CASE ~WaveUnclaimed(c)
  <2>1. QuietCalls
    BY <1>1, CallsAreQuiet DEF ClaimWave
  <2>2. QuietRows /\ UNCHANGED <<attempt, ladderAttempt, claims>>
    BY <1>1 DEF ClaimWave, QuietRows
  <2> QED
    BY <2>1, <2>2, QuietStep
<1>2. CASE WaveUnclaimed(c)
  <2>1. /\ attempt' = attempt + 1 /\ attempt' \in Attempts /\ attempt \in Nat
        /\ UNCHANGED <<status, ladderAttempt, claims>>
        /\ cpc' = [cpc EXCEPT ![c] = "resetWave"]
        /\ wave' = [wave EXCEPT ![c] = attempt']
    BY <1>2, BudgetAssumption
       DEF ClaimWave, WaveUnclaimed, DueWaveExists, FeatureRunType, CallsType, Attempts,
           Proceed, Goto
  <2>2. /\ cpc \in [Callers -> CallSteps] /\ wave \in [Callers -> Nat]
        /\ ladderAttempt \in [TestRuns -> Nat] /\ Attempts \subseteq Nat
    BY ConstantTypes DEF CallsType, RowsType
  <2>3. DueWaveExists'
    BY <2>1, <2>2 DEF DueWaveExists
  <2>4. ClaimedWaveIsOwned'
    BY <2>1, <2>2 DEF ClaimedWaveIsOwned
  <2>5. ClaimedWaveIsUnused'
    BY <2>1, <2>2 DEF ClaimedWaveIsUnused, FutureWavesAreUnused
  <2>6. FutureWavesAreUnused'
    BY <2>1, <2>2 DEF FutureWavesAreUnused
  <2>7. ReadyIsUnclaimed' /\ AttemptOnce'
    BY <2>1 DEF ReadyIsUnclaimed, Claimable, AttemptOnce
  <2> QED
    BY <2>3, <2>4, <2>5, <2>6, <2>7
<1> QED
  BY <1>1, <1>2

(* Resetting rows to an owned wave leaves them ready and unclaimed there.  *)
LEMMA ResetWaveKeepsOwnership ==
  ASSUME TypeOK, WaveOwnership, NEW c \in Callers, ResetWave(c)
  PROVE  WaveOwnership'
<1> USE DEF WaveOwnership, TypeOK
<1>1. /\ UNCHANGED <<attempt, claims>>
      /\ \A r \in TestRuns : \/ status'[r] = status[r] /\ ladderAttempt'[r] = ladderAttempt[r]
                             \/ status'[r] = "PENDING" /\ ladderAttempt'[r] = wave[c]
  BY DEF ResetWave, frVars
<1>2. wave[c] <= attempt /\ \A r \in TestRuns : claims[r][wave[c]] = 0
  BY DEF ResetWave, ClaimedWaveIsOwned, ClaimedWaveIsUnused
<1>3. cpc'[c] # "resetWave" /\ QuietCalls
  <2>1. PICK first \in FirstByDuration(work[c], LadderBudget(wave[c])) : EnqueueAll(c, first)
    BY DEF ResetWave
  <2> QED
    BY <2>1, CallsAreQuiet DEF EnqueueAll, Return, Proceed, Goto, CallsType
<1>4. DueWaveExists' /\ ClaimedWaveIsOwned'
  BY <1>1, <1>3 DEF QuietCalls, DueWaveExists, ClaimedWaveIsOwned
<1>5. ClaimedWaveIsUnused'
  BY <1>1, <1>3 DEF QuietCalls, ClaimedWaveIsUnused, ClaimedWaveIsOwned, ResetWave
<1>6. FutureWavesAreUnused'
  BY <1>1, <1>2 DEF FutureWavesAreUnused
<1>7. ReadyIsUnclaimed' /\ AttemptOnce'
  BY <1>1, <1>2 DEF ReadyIsUnclaimed, Claimable, AttemptOnce
<1> QED
  BY <1>4, <1>5, <1>6, <1>7

(* The worker's claim executes a row for the first time at its attempt.    *)
LEMMA ClaimKeepsOwnership ==
  ASSUME TypeOK, WaveOwnership, NEW w \in Workers, Claim(w)
  PROVE  WaveOwnership'
<1> USE DEF WaveOwnership, TypeOK
<1> DEFINE r == RunOf(w)
           a == ladderAttempt[r]
<1>1. r \in TestRuns /\ a \in Attempts /\ a <= attempt
  BY DEF Claim, RunOf, Jobs, SlotsType, RowsType, FutureWavesAreUnused
<1>2. claims[r][a] = 0 /\ status' = [status EXCEPT ![r] = "RUNNING"]
  BY <1>1 DEF Claim, ReadyIsUnclaimed
<1>3. UNCHANGED <<attempt, ladderAttempt, cpc, wave>>
  BY DEF Claim, frVars, callVars
<1>4. claims' = [claims EXCEPT ![r] = [claims[r] EXCEPT ![a] = 1]]
  BY <1>2 DEF Claim
<1>5. \A q \in TestRuns, b \in Attempts :
        claims'[q][b] = IF q = r /\ b = a THEN 1 ELSE claims[q][b]
  BY <1>1, <1>4 DEF RowsType
<1> HIDE DEF r, a
<1>6. DueWaveExists' /\ ClaimedWaveIsOwned'
  BY <1>3 DEF DueWaveExists, ClaimedWaveIsOwned
<1>7. ClaimedWaveIsUnused'
  BY <1>1, <1>3, <1>5 DEF ClaimedWaveIsUnused, CallsType, a
<1>8. FutureWavesAreUnused'
  <2>1. attempt \in Nat /\ Attempts \subseteq Nat
    BY ConstantTypes DEF FeatureRunType
  <2> QED
    BY <1>1, <1>3, <1>5, <2>1 DEF FutureWavesAreUnused
<1>9. ReadyIsUnclaimed'
  BY <1>1, <1>2, <1>3, <1>5 DEF ReadyIsUnclaimed, Claimable, RowsType
<1>10. AttemptOnce'
  BY <1>5 DEF AttemptOnce
<1> QED
  BY <1>6, <1>7, <1>8, <1>9, <1>10

(* Every other step is quiet.                                              *)
Quiet == QuietRows /\ QuietCalls /\ UNCHANGED <<attempt, ladderAttempt, claims>>

(* The other steps of API calls.                                           *)
LEMMA CallStepsAreQuiet ==
  ASSUME TypeOK, WaveOwnership, NEW c \in Callers
  PROVE  /\ \A r \in TestRuns : AddJob(c, r) => Quiet
         /\ \A r \in TestRuns : MarkQueued(c, r) => Quiet
         /\ OnRunComplete(c) => Quiet
         /\ Stamp(c) => Quiet
         /\ Complete(c) => Quiet
         /\ FailFastCancel(c) => Quiet
         /\ ApiCrash(c) => Quiet
<1> USE DEF TypeOK, WaveOwnership, Quiet, frVars, runVars, queueVars, workerVars, callVars
<1> USE CallsAreQuiet
<1>1. ASSUME NEW r \in TestRuns, AddJob(c, r) PROVE Quiet
  BY <1>1 DEF QuietRows, AddJob
<1>2. ASSUME NEW r \in TestRuns, MarkQueued(c, r) PROVE Quiet
  <2>1. QuietRows
    BY <1>2 DEF QuietRows, MarkQueued, QueuedFrom, RowsType
  <2>2. QuietCalls
    BY <1>2 DEF MarkQueued, CallSteps
  <2> QED
    BY <1>2, <2>1, <2>2 DEF MarkQueued
<1>3. ASSUME OnRunComplete(c) PROVE Quiet
  <2>1. QuietRows
    BY <1>3 DEF QuietRows, OnRunComplete
  <2>2. QuietCalls
    BY <1>3 DEF OnRunComplete, WaveDue, CallSteps, QuietCalls, DueWaveExists, CallsType,
         Proceed, Goto
  <2> QED
    BY <1>3, <2>1, <2>2 DEF OnRunComplete
<1>4. ASSUME Stamp(c) PROVE Quiet
  <2>1. QuietRows
    BY <1>4 DEF QuietRows, Stamp
  <2>2. QuietCalls
    BY <1>4 DEF Stamp, CallSteps
  <2> QED
    BY <1>4, <2>1, <2>2 DEF Stamp
<1>5. ASSUME Complete(c) PROVE Quiet
  BY <1>5 DEF QuietRows, Complete
<1>6. ASSUME FailFastCancel(c) PROVE Quiet
  <2>1. QuietRows
    BY <1>6 DEF QuietRows, FailFastCancel, RowsType
  <2>2. QuietCalls
    BY <1>6 DEF FailFastCancel
  <2> QED
    BY <1>6, <2>1, <2>2 DEF FailFastCancel
<1>7. ASSUME ApiCrash(c) PROVE Quiet
  BY <1>7 DEF QuietRows, ApiCrash
<1> QED
  BY <1>1, <1>2, <1>3, <1>4, <1>5, <1>6, <1>7

(* A tester's requests.                                                    *)
LEMMA RequestsAreQuiet ==
  ASSUME TypeOK, WaveOwnership, NEW c \in Callers
  PROVE  /\ PauseRead(c) => Quiet
         /\ ResumeRead(c) => Quiet
         /\ StopRead(c) => Quiet
         /\ \A r \in TestRuns : SkipRead(c, r) => Quiet
         /\ \A r \in TestRuns : CancelRead(c, r) => Quiet
         /\ Heartbeat(c) => Quiet
         /\ Pause(c) => Quiet
         /\ Resume(c) => Quiet
         /\ StopRows(c) => Quiet
         /\ StopRun(c) => Quiet
         /\ Skip(c) => Quiet
         /\ Cancel(c) => Quiet
<1> USE DEF TypeOK, WaveOwnership, Quiet, frVars, runVars, queueVars, workerVars, callVars
<1> USE CallsAreQuiet
<1>1. ASSUME PauseRead(c) PROVE Quiet
  BY <1>1 DEF QuietRows, PauseRead, Request, CallSteps
<1>2. ASSUME ResumeRead(c) PROVE Quiet
  BY <1>2 DEF QuietRows, ResumeRead, Request, CallSteps
<1>3. ASSUME StopRead(c) PROVE Quiet
  BY <1>3 DEF QuietRows, StopRead, Request, CallSteps
<1>4. ASSUME NEW r \in TestRuns, SkipRead(c, r) PROVE Quiet
  BY <1>4 DEF QuietRows, SkipRead, Request, CallSteps
<1>5. ASSUME NEW r \in TestRuns, CancelRead(c, r) PROVE Quiet
  BY <1>5 DEF QuietRows, CancelRead, Request, CallSteps
<1>6. ASSUME Heartbeat(c) PROVE Quiet
  BY <1>6 DEF QuietRows, Heartbeat
<1>7. ASSUME Pause(c) PROVE Quiet
  <2>1. QuietRows
    BY <1>7 DEF QuietRows, Pause, RequestStep, RowsType
  <2>2. QuietCalls
    BY <1>7 DEF Pause, RequestStep, CallSteps
  <2> QED
    BY <1>7, <2>1, <2>2 DEF Pause, RequestStep
<1>8. ASSUME Resume(c) PROVE Quiet
  <2>1. QuietRows
    BY <1>8 DEF QuietRows, Resume, RequestStep, RowsType
  <2>2. QuietCalls
    BY <1>8 DEF Resume, RequestStep, CallSteps
  <2> QED
    BY <1>8, <2>1, <2>2 DEF Resume, RequestStep
<1>9. ASSUME StopRows(c) PROVE Quiet
  <2>1. QuietRows
    BY <1>9 DEF QuietRows, StopRows, RequestStep, RowsType
  <2>2. QuietCalls
    BY <1>9 DEF StopRows, RequestStep, CallSteps
  <2> QED
    BY <1>9, <2>1, <2>2 DEF StopRows, RequestStep
<1>10. ASSUME StopRun(c) PROVE Quiet
  <2>1. QuietRows
    BY <1>10 DEF QuietRows, StopRun, RequestStep, RowsType
  <2>2. QuietCalls
    BY <1>10 DEF StopRun, RequestStep, CallSteps
  <2> QED
    BY <1>10, <2>1, <2>2 DEF StopRun, RequestStep
<1>11. ASSUME Skip(c) PROVE Quiet
  <2>1. QuietRows
    BY <1>11 DEF QuietRows, Skip, RequestStep, RowsType, CancelRow
  <2>2. QuietCalls
    BY <1>11 DEF Skip, RequestStep, CallSteps, CancelRow
  <2> QED
    BY <1>11, <2>1, <2>2 DEF Skip, RequestStep, CancelRow
<1>12. ASSUME Cancel(c) PROVE Quiet
  <2>1. QuietRows
    BY <1>12 DEF QuietRows, Cancel, RequestStep, RowsType, CancelRow
  <2>2. QuietCalls
    BY <1>12 DEF Cancel, RequestStep, CallSteps, CancelRow
  <2> QED
    BY <1>12, <2>1, <2>2 DEF Cancel, RequestStep, CancelRow
<1> QED
  BY <1>1, <1>2, <1>3, <1>4, <1>5, <1>6, <1>7, <1>8, <1>9, <1>10, <1>11, <1>12

(* The sweep.                                                              *)
LEMMA SweepsAreQuiet ==
  ASSUME TypeOK, WaveOwnership, NEW c \in Callers
  PROVE  /\ SweepStart(c) => Quiet
         /\ Wake(c) => Quiet
         /\ IdlePauseRead(c) => Quiet
         /\ IdlePause(c) => Quiet
         /\ ReapRead(c) => Quiet
         /\ Reap(c) => Quiet
<1> USE DEF TypeOK, WaveOwnership, Quiet, frVars, runVars, queueVars, workerVars, callVars
<1> USE CallsAreQuiet
<1>1. ASSUME SweepStart(c) PROVE Quiet
  BY <1>1 DEF QuietRows, SweepStart, CallSteps
<1>2. ASSUME Wake(c) PROVE Quiet
  <2>1. QuietRows
    BY <1>2 DEF QuietRows, Wake, RequestStep, RowsType
  <2>2. QuietCalls
    BY <1>2 DEF Wake, RequestStep, CallSteps
  <2> QED
    BY <1>2, <2>1, <2>2 DEF Wake, RequestStep
<1>3. ASSUME IdlePauseRead(c) PROVE Quiet
  <2>1. QuietRows
    BY <1>3 DEF QuietRows, IdlePauseRead, RequestStep, RowsType
  <2>2. QuietCalls
    BY <1>3 DEF IdlePauseRead, RequestStep, CallSteps
  <2> QED
    BY <1>3, <2>1, <2>2 DEF IdlePauseRead, RequestStep
<1>4. ASSUME IdlePause(c) PROVE Quiet
  <2>1. QuietRows
    BY <1>4 DEF QuietRows, IdlePause, RequestStep, RowsType
  <2>2. QuietCalls
    BY <1>4 DEF IdlePause, RequestStep, CallSteps
  <2> QED
    BY <1>4, <2>1, <2>2 DEF IdlePause, RequestStep
<1>5. ASSUME ReapRead(c) PROVE Quiet
  <2>1. QuietRows
    BY <1>5 DEF QuietRows, ReapRead, RequestStep, RowsType
  <2>2. QuietCalls
    BY <1>5 DEF ReapRead, RequestStep, CallSteps
  <2> QED
    BY <1>5, <2>1, <2>2 DEF ReapRead, RequestStep
<1>6. ASSUME Reap(c) PROVE Quiet
  <2>1. QuietRows
    BY <1>6 DEF QuietRows, Reap, RequestStep, RowsType, Reaped
  <2>2. QuietCalls
    BY <1>6 DEF Reap, RequestStep, CallSteps, Reaped
  <2> QED
    BY <1>6, <2>1, <2>2 DEF Reap, RequestStep, Reaped
<1> QED
  BY <1>1, <1>2, <1>3, <1>4, <1>5, <1>6

(* The worker slots, except for their claim.                               *)
LEMMA WorkersAreQuiet ==
  ASSUME TypeOK, WaveOwnership, NEW w \in Workers
  PROVE  /\ \A j \in Jobs : Pick(w, j) => Quiet
         /\ SkipDuplicate(w) => Quiet
         /\ \A v \in RunStatuses : Finish(w, v) => Quiet
         /\ \A n \in Deliveries : Publish(w, n) => Quiet
         /\ PublishFails(w) => Quiet
         /\ Close(w) => Quiet
         /\ WorkerCrash(w) => Quiet
         /\ Stall(w) => Quiet
<1> USE DEF TypeOK, WaveOwnership, Quiet, frVars, runVars, queueVars, workerVars, callVars
<1> USE CallsAreQuiet
<1>1. ASSUME NEW j \in Jobs, Pick(w, j) PROVE Quiet
  BY <1>1 DEF QuietRows, Pick, QuietCalls, DueWaveExists
<1>2. ASSUME SkipDuplicate(w) PROVE Quiet
  BY <1>2 DEF QuietRows, SkipDuplicate, QuietCalls, DueWaveExists
<1>3. ASSUME NEW v \in RunStatuses, Finish(w, v) PROVE Quiet
  BY <1>3, EnvironmentAssumption DEF QuietRows, Finish, QuietCalls, DueWaveExists, RowsType
<1>4. ASSUME NEW n \in Deliveries, Publish(w, n) PROVE Quiet
  BY <1>4 DEF QuietRows, Publish, QuietCalls, DueWaveExists
<1>5. ASSUME PublishFails(w) PROVE Quiet
  BY <1>5 DEF QuietRows, PublishFails, QuietCalls, DueWaveExists, RowsType
<1>6. ASSUME Close(w) PROVE Quiet
  BY <1>6 DEF QuietRows, Close, QuietCalls, DueWaveExists
<1>7. ASSUME WorkerCrash(w) PROVE Quiet
  BY <1>7 DEF QuietRows, WorkerCrash, QuietCalls, DueWaveExists
<1>8. ASSUME Stall(w) PROVE Quiet
  BY <1>8 DEF QuietRows, Stall, QuietCalls, DueWaveExists
<1> QED
  BY <1>1, <1>2, <1>3, <1>4, <1>5, <1>6, <1>7, <1>8

LEMMA StepKeepsOwnership == TypeOK /\ WaveOwnership /\ [Next]_vars => WaveOwnership'
<1> SUFFICES ASSUME TypeOK, WaveOwnership, [Next]_vars PROVE WaveOwnership'
  OBVIOUS
<1>1. Quiet => WaveOwnership'
  BY QuietStep DEF Quiet
<1>2. ASSUME NEW c \in Callers, Enqueue(c) \/ CompletionStep(c) \/ ApiCrash(c)
      PROVE  WaveOwnership'
  BY <1>1, <1>2, CallStepsAreQuiet, ClaimWaveKeepsOwnership, ResetWaveKeepsOwnership
     DEF Enqueue, CompletionStep
<1>3. ASSUME NEW c \in Callers, RequestStarts(c) \/ RequestContinues(c) PROVE WaveOwnership'
  BY <1>1, <1>3, RequestsAreQuiet DEF RequestStarts, RequestContinues
<1>4. ASSUME NEW c \in Callers, SweepStart(c) \/ SweepContinues(c) PROVE WaveOwnership'
  BY <1>1, <1>4, SweepsAreQuiet DEF SweepContinues
<1>5. ASSUME NEW w \in Workers, WorkerStep(w) \/ WorkerCrash(w) \/ Stall(w)
      PROVE  WaveOwnership'
  BY <1>1, <1>5, WorkersAreQuiet, ClaimKeepsOwnership DEF WorkerStep
<1>6. CASE EventLost \/ Quieten \/ GrowOld \/ UNCHANGED vars
  <2>1. UNCHANGED <<runVars, callVars, attempt>>
    BY <1>6 DEF EventLost, Quieten, GrowOld, vars, frVars
  <2>2. Quiet
    BY <2>1 DEF Quiet, QuietRows, QuietCalls, WaveOwnership, DueWaveExists, runVars, callVars
  <2> QED
    BY <1>1, <2>2
<1> QED
  BY <1>2, <1>3, <1>4, <1>5, <1>6 DEF Next

LEMMA InitOwnership == Init => WaveOwnership
<1> SUFFICES ASSUME Init PROVE WaveOwnership
  OBVIOUS
<1>1. \A c \in Callers : cpc[c] # "claimWave" /\ cpc[c] # "resetWave"
  BY DEF Init
<1>2. DueWaveExists /\ ClaimedWaveIsOwned /\ ClaimedWaveIsUnused
  BY <1>1 DEF DueWaveExists, ClaimedWaveIsOwned, ClaimedWaveIsUnused
<1>3. FutureWavesAreUnused /\ ReadyIsUnclaimed /\ AttemptOnce
  BY ConstantTypes DEF Init, FutureWavesAreUnused, ReadyIsUnclaimed, AttemptOnce
<1> QED
  BY <1>2, <1>3 DEF WaveOwnership

------------------------------------------------------------------------------
(* Types and wave ownership hold together throughout.                      *)
THEOREM Ownership == Spec => [](TypeOK /\ WaveOwnership)
<1>1. Init => TypeOK /\ WaveOwnership
  BY InitTypes, InitOwnership
<1>2. TypeOK /\ WaveOwnership /\ [Next]_vars => (TypeOK /\ WaveOwnership)'
  BY StepTypes, StepKeepsOwnership DEF WaveOwnership
<1> QED
  BY <1>1, <1>2, PTL DEF Spec

(* Every variable keeps its type.                                          *)
THEOREM TypeCorrectness == Spec => []TypeOK
BY Ownership, PTL

(* At most one execution of a test at each ladder attempt: execute()'s     *)
(* claim and onRunComplete's compare-and-set suffice under every           *)
(* interleaving, redelivery, crash, sweep and request.                     *)
THEOREM AtMostOncePerAttempt == Spec => []AttemptOnce
<1>1. WaveOwnership => AttemptOnce
  BY DEF WaveOwnership
<1> QED
  BY <1>1, Ownership, PTL

(* A step of the implementation is a step of the ladder or leaves it alone.*)
LEMMA StepImplementsLadder ==
  TypeOK /\ WaveOwnership /\ [Next]_vars => [RL!LadderNext]_(RL!ladderVars)
<1> SUFFICES ASSUME TypeOK, WaveOwnership, [Next]_vars
             PROVE  RL!LadderNext \/ UNCHANGED <<attempt, claims>>
  BY DEF RL!ladderVars
<1>1. ASSUME NEW c \in Callers, ClaimWave(c) PROVE RL!LadderNext \/ UNCHANGED <<attempt, claims>>
  BY <1>1, BudgetAssumption
     DEF ClaimWave, WaveUnclaimed, TypeOK, FeatureRunType, CallsType, WaveOwnership,
     DueWaveExists,
         Attempts, runVars, RL!LadderNext, RL!OpenWave
<1>2. ASSUME NEW w \in Workers, Claim(w) PROVE RL!LadderNext
  <2> DEFINE r == RunOf(w)
             a == ladderAttempt[r]
  <2>1. r \in TestRuns /\ a \in Attempts
    BY <1>2 DEF Claim, RunOf, Jobs, TypeOK, SlotsType, RowsType
  <2>2. claims[r][a] = 0 /\ a <= attempt
    BY <1>2, <2>1 DEF Claim, WaveOwnership, ReadyIsUnclaimed, FutureWavesAreUnused
  <2>3. claims' = [claims EXCEPT ![r][a] = 1] /\ UNCHANGED attempt
    BY <1>2, <2>2 DEF Claim, frVars
  <2>4. RL!Execute(r, a)
    BY <2>2, <2>3 DEF RL!Execute
  <2> QED
    BY <2>1, <2>4 DEF RL!LadderNext, RL!Waves, Attempts
<1>3. ASSUME NEW c \in Callers, ResetWave(c) PROVE UNCHANGED <<attempt, claims>>
  BY <1>3 DEF ResetWave, frVars
<1>4. Quiet => UNCHANGED <<attempt, claims>>
  BY DEF Quiet
<1>5. ASSUME NEW c \in Callers, Enqueue(c) \/ CompletionStep(c) \/ ApiCrash(c)
      PROVE  RL!LadderNext \/ UNCHANGED <<attempt, claims>>
  BY <1>1, <1>3, <1>4, <1>5, CallStepsAreQuiet DEF Enqueue, CompletionStep
<1>6. ASSUME NEW c \in Callers, \/ RequestStarts(c) \/ RequestContinues(c)
                                \/ SweepStart(c) \/ SweepContinues(c)
      PROVE  UNCHANGED <<attempt, claims>>
  BY <1>4, <1>6, RequestsAreQuiet, SweepsAreQuiet
     DEF RequestStarts, RequestContinues, SweepContinues
<1>7. ASSUME NEW w \in Workers, WorkerStep(w) \/ WorkerCrash(w) \/ Stall(w)
      PROVE  RL!LadderNext \/ UNCHANGED <<attempt, claims>>
  BY <1>2, <1>4, <1>7, WorkersAreQuiet DEF WorkerStep
<1>8. CASE EventLost \/ Quieten \/ GrowOld \/ UNCHANGED vars
  BY <1>8 DEF EventLost, Quieten, GrowOld, vars, frVars, runVars
<1> QED
  BY <1>5, <1>6, <1>7, <1>8 DEF Next

(* The feature run's executions implement the retry ladder: waves open one *)
(* by one up to MaxAttempt, and every execution is a first one in an       *)
(* opened wave.                                                            *)
THEOREM LadderRefinement == Spec => ImplementsLadder
<1>1. Init => RL!LadderInit
  BY DEF Init, RL!LadderInit, RL!Waves, Attempts
<1>2. TypeOK /\ WaveOwnership /\ [Next]_vars => [RL!LadderNext]_(RL!ladderVars)
  BY StepImplementsLadder
<1> QED
  BY <1>1, <1>2, Ownership, PTL DEF Spec, ImplementsLadder, RL!LadderSpec

------------------------------------------------------------------------------
(* What a step may do to a row, a slot, a call and the FeatureRun, whatever*)
(* action it is.                                                           *)

(* A row's status changes in one of these ways.                            *)
MarkedQueued(r) ==
  /\ status[r] = "PENDING" /\ status'[r] = "QUEUED"
  /\ \E c \in Callers : MarkQueued(c, r)
ClaimedBy(w, r) == Claim(w) /\ r = RunOf(w) /\ status'[r] = "RUNNING"
EndedBy(w, r) ==
  /\ wpc[w] = "exec" /\ wpc'[w] # "exec" /\ r = RunOf(w)
  /\ IsTerminal(status'[r]) /\ UNCHANGED claims
FailedBy(w, r) ==
  /\ "publish" \in Faults /\ wpc[w] = "publish" /\ r = RunOf(w)
  /\ status'[r] = "ERROR"
StoppedBy(c, r) ==
  cpc[c] = "stopRows" /\ status[r] \in UNFINISHED_STATUSES /\ status'[r] = "NOT_TESTED"
CancelledBy(c, r) ==
  cpc[c] \in {"skip", "cancel", "failFast"} /\ r \in work[c] /\ status'[r] = "CANCELLED"
ReapedBy(c, r) ==
  /\ cpc[c] = "reap" /\ status[r] \in UNFINISHED_STATUSES
  /\ status'[r] \in {"NOT_TESTED", "ERROR"}
ResetBy(c, r) ==
  /\ ResetWave(c) /\ r \in work[c] /\ status[r] \in FAILED_STATUSES
  /\ status'[r] = "PENDING" /\ ladderAttempt'[r] = wave[c]

RowMove(r) ==
  /\ \/ status'[r] = status[r]
     \/ MarkedQueued(r)
     \/ \E w \in Workers : ClaimedBy(w, r) \/ EndedBy(w, r) \/ FailedBy(w, r)
     \/ \E c \in Callers :
          StoppedBy(c, r) \/ CancelledBy(c, r) \/ ReapedBy(c, r) \/ ResetBy(c, r)
  /\ ladderAttempt'[r] = ladderAttempt[r] \/ \E c \in Callers : ResetBy(c, r)

(* A slot executes what it has claimed, publishes what it has executed, and*)
(* holds a job of the queue.                                               *)
SlotMove(w) ==
  /\ wpc'[w] = "exec" =>
       /\ wjob'[w] = wjob[w]
       /\ \/ wpc[w] = "exec"
          \/ Claim(w) /\ \A v \in Workers \ {w} : wpc'[v] = wpc[v]
  /\ wpc'[w] = "publish" =>
       wjob'[w] = wjob[w] /\ (wpc[w] = "publish" \/ IsTerminal(status'[RunOf(w)]))
  /\ wpc'[w] # "idle" =>
       (wpc[w] # "idle" /\ wjob'[w] = wjob[w]) \/ jobs'[wjob'[w]] # "absent"

(* The steps a call can be at, given what the code is configured to do.    *)
Possible(step) ==
  /\ step \in {"claimWave", "resetWave"} => LadderEnabled
  /\ step = "failFast" => FailFast /\ ~LadderEnabled
  /\ step = "resume" => "resume" \in UserOps
  /\ step = "skip" => "skip" \in UserOps
  /\ step = "cancel" => "cancel" \in UserOps
  /\ step \in {"wake", "sweepEnqueue", "idlePauseRead", "idlePause", "reapRead", "reap"} => Sweeps
  /\ step = "reap" => MaxAge = 2

Kept(c) ==
  /\ cpc'[c] = cpc[c] /\ work'[c] = work[c]
  /\ wave'[c] = wave[c] /\ passes'[c] = passes[c]

CallMove(c) ==
  /\ Possible(cpc[c]) => Possible(cpc'[c])
  /\ cpc'[c] \in {"claimWave", "resetWave", "stamp", "complete"} =>
       Kept(c) \/ OnRunComplete(c) \/ ClaimWave(c) \/ Stamp(c)
  /\ cpc[c] = "resetWave" => Kept(c) \/ ResetWave(c) \/ ApiCrash(c)
  /\ cpc'[c] = "stopRun" => cpc[c] = "stopRun" \/ StopRows(c)
  /\ passes'[c] \subseteq passes[c] \/ OnRunComplete(c)

RunMove ==
  /\ attempt' = attempt \/ \E c \in Callers : ClaimWave(c) /\ WaveUnclaimed(c)
  /\ frStatus' = "COMPLETE" =>
       frStatus = "COMPLETE" \/ \E c \in Callers : cpc[c] = "complete"
  /\ frStatus' = "CANCELLED" =>
       frStatus = "CANCELLED" \/ \E c \in Callers : cpc[c] = "stopRun" \/ Reap(c)
  /\ UNCHANGED claims \/ \E w \in Workers : Claim(w)
  /\ UNCHANGED passedAt \/ \E c \in Callers : Stamp(c)
  /\ \A j \in Jobs : jobs[j] # "absent" => jobs'[j] # "absent"

RowsMove == \A r \in TestRuns : RowMove(r)
SlotsMove == \A w \in Workers : SlotMove(w)
CallsMove == \A c \in Callers : CallMove(c)
Move == RowsMove /\ SlotsMove /\ CallsMove /\ RunMove

(* What is left alone moves nowhere.                                       *)
LEMMA FrameMoves ==
  /\ UNCHANGED <<status, ladderAttempt>> => RowsMove
  /\ UNCHANGED <<wpc, wjob>> => SlotsMove
  /\ UNCHANGED callVars => CallsMove
  /\ UNCHANGED <<attempt, frStatus, claims, passedAt, jobs>> => RunMove
<1>1. UNCHANGED <<status, ladderAttempt>> => RowsMove
  BY DEF RowsMove, RowMove
<1>2. UNCHANGED <<wpc, wjob>> => SlotsMove
  BY DEF SlotsMove, SlotMove
<1>3. UNCHANGED callVars => CallsMove
  BY DEF CallsMove, CallMove, callVars, Kept
<1>4. UNCHANGED <<attempt, frStatus, claims, passedAt, jobs>> => RunMove
  BY DEF RunMove
<1> QED
  BY <1>1, <1>2, <1>3, <1>4

(* A call that does not enter a step the lemmas watch.                     *)
LEMMA CallFrameMoves ==
  ASSUME CallsType, NEW c \in Callers, cpc[c] # "resetWave"
  PROVE  /\ UNCHANGED <<cpc, wave, passes>> /\ (\A d \in Callers \ {c} : work'[d] = work[d])
              /\ cpc[c] \notin {"claimWave", "stamp", "complete"} => CallsMove
         /\ \A step \in CallSteps \ {"claimWave", "resetWave", "stamp", "complete", "stopRun"} :
              /\ Goto(c, step) /\ UNCHANGED <<wave, work, passes>>
              /\ Possible(cpc[c]) => Possible(step)
              => CallsMove
         /\ \A step \in CallSteps \ {"claimWave", "resetWave", "stamp", "complete", "stopRun"} :
            \A S, a :
              Proceed(c, step, S, a) /\ (Possible(cpc[c]) => Possible(step)) => CallsMove
         /\ Return(c) => CallsMove
         /\ \A S : EnqueueAll(c, S) => CallsMove
<1> USE DEF CallsMove, CallMove, Kept, CallsType
<1>0. Possible("idle") /\ Possible("enqueue")
  BY DEF Possible
<1>1. ASSUME UNCHANGED <<cpc, wave, passes>>, \A d \in Callers \ {c} : work'[d] = work[d],
             cpc[c] \notin {"claimWave", "stamp", "complete"}
      PROVE  CallsMove
  BY <1>1
<1>2. ASSUME NEW step \in CallSteps \ {"claimWave", "resetWave", "stamp", "complete", "stopRun"},
             Goto(c, step), UNCHANGED <<wave, work, passes>>,
             Possible(cpc[c]) => Possible(step)
      PROVE  CallsMove
  BY <1>2 DEF Goto
<1>3. ASSUME NEW step \in CallSteps \ {"claimWave", "resetWave", "stamp", "complete", "stopRun"},
             NEW S, NEW a, Proceed(c, step, S, a), Possible(cpc[c]) => Possible(step)
      PROVE  CallsMove
  BY <1>3 DEF Goto, Proceed
<1>4. ASSUME Return(c) PROVE CallsMove
  BY <1>0, <1>4 DEF Return, Goto
<1>5. ASSUME NEW S, EnqueueAll(c, S) PROVE CallsMove
  <2>1. "enqueue" \in CallSteps \ {"claimWave", "resetWave", "stamp", "complete", "stopRun"}
    BY DEF CallSteps
  <2> QED
    BY <1>0, <1>3, <1>4, <1>5, <2>1 DEF EnqueueAll
<1> QED
  BY <1>1, <1>2, <1>3, <1>4, <1>5

LEMMA CompletionMoves ==
  ASSUME TypeOK, NEW c \in Callers
  PROVE  /\ \A r \in TestRuns : AddJob(c, r) => Move
         /\ \A r \in TestRuns : MarkQueued(c, r) => Move
         /\ OnRunComplete(c) => Move
         /\ ClaimWave(c) => Move
         /\ ResetWave(c) => Move
         /\ Stamp(c) => Move
         /\ Complete(c) => Move
         /\ FailFastCancel(c) => Move
<1> USE DEF TypeOK, Move, frVars, runVars, queueVars, workerVars, callVars
<1> USE FrameMoves, CallFrameMoves
<1>1. ASSUME NEW r \in TestRuns, AddJob(c, r) PROVE Move
  <2>1. CallsMove
    BY <1>1 DEF AddJob, CallsType
  <2>2. RunMove
    BY <1>1 DEF AddJob, RunMove, QueueType
  <2> QED
    BY <1>1, <2>1, <2>2 DEF AddJob
<1>2. ASSUME NEW r \in TestRuns, MarkQueued(c, r) PROVE Move
  <2>1. RowsMove
    <3>1. MarkedQueued(r) \/ status' = status
      BY <1>2 DEF MarkQueued, QueuedFrom, MarkedQueued, RowsType
    <3>2. \A q \in TestRuns \ {r} : status'[q] = status[q]
      BY <1>2 DEF MarkQueued, QueuedFrom, RowsType
    <3>3. UNCHANGED ladderAttempt
      BY <1>2 DEF MarkQueued
    <3> QED
      BY <3>1, <3>2, <3>3 DEF RowsMove, RowMove
  <2>2. CallsMove
    BY <1>2 DEF MarkQueued, CallSteps, Possible
  <2> QED
    BY <1>2, <2>1, <2>2 DEF MarkQueued
<1>3. ASSUME OnRunComplete(c) PROVE Move
  <2>1. CallMove(c)
    BY <1>3 DEF OnRunComplete, CallMove, Proceed, EnqueueAll, Return, Goto, CallsType, Possible,
         WaveDue, FailFastDue
  <2>2. \A d \in Callers \ {c} : CallMove(d)
    BY <1>3 DEF OnRunComplete, CallMove, Kept, Proceed, EnqueueAll, Return, Goto, CallsType
  <2> QED
    BY <1>3, <2>1, <2>2 DEF OnRunComplete, CallsMove
<1>4. ASSUME ClaimWave(c) PROVE Move
  <2>1. CallMove(c)
    BY <1>4 DEF ClaimWave, CallMove, Proceed, Return, Goto, CallsType, Possible
  <2>2. \A d \in Callers \ {c} : CallMove(d)
    BY <1>4 DEF ClaimWave, CallMove, Kept, Proceed, Return, Goto, CallsType
  <2>3. RunMove
    BY <1>4 DEF ClaimWave, RunMove
  <2> QED
    BY <1>4, <2>1, <2>2, <2>3 DEF ClaimWave, CallsMove
<1>5. ASSUME ResetWave(c) PROVE Move
  <2>1. CallMove(c)
    BY <1>5 DEF ResetWave, CallMove, Proceed, EnqueueAll, Return, Goto, CallsType, Possible
  <2>2. \A d \in Callers \ {c} : CallMove(d)
    BY <1>5 DEF ResetWave, CallMove, Kept, Proceed, EnqueueAll, Return, Goto, CallsType
  <2>3. RowsMove
    <3>1. \A r \in TestRuns : ResetBy(c, r) \/ (status'[r] = status[r] /\ ladderAttempt'[r] = ladderAttempt[r])
      BY <1>5 DEF ResetWave, ResetBy, Resettable
    <3> QED
      BY <3>1 DEF RowsMove, RowMove
  <2> QED
    BY <1>5, <2>1, <2>2, <2>3 DEF ResetWave, CallsMove
<1>6. ASSUME Stamp(c) PROVE Move
  <2>1. CallMove(c)
    BY <1>6 DEF Stamp, CallMove, Goto, CallsType, Possible
  <2>2. \A d \in Callers \ {c} : CallMove(d)
    BY <1>6 DEF Stamp, CallMove, Kept, Goto, CallsType
  <2>3. RunMove
    BY <1>6 DEF Stamp, RunMove
  <2> QED
    BY <1>6, <2>1, <2>2, <2>3 DEF Stamp, CallsMove
<1>7. ASSUME Complete(c) PROVE Move
  <2>1. RunMove
    BY <1>7 DEF Complete, RunMove, SetFeatureRun
  <2> QED
    BY <1>7, <2>1 DEF Complete
<1>8. ASSUME FailFastCancel(c) PROVE Move
  <2>1. RowsMove
    BY <1>8 DEF FailFastCancel, RowsMove, RowMove, CancelledBy
  <2> QED
    BY <1>8, <2>1 DEF FailFastCancel
<1> QED
  BY <1>1, <1>2, <1>3, <1>4, <1>5, <1>6, <1>7, <1>8

(* A tester's requests.                                                    *)
LEMMA RequestMoves ==
  ASSUME TypeOK, NEW c \in Callers
  PROVE  /\ PauseRead(c) => Move
         /\ ResumeRead(c) => Move
         /\ StopRead(c) => Move
         /\ \A r \in TestRuns : SkipRead(c, r) => Move
         /\ \A r \in TestRuns : CancelRead(c, r) => Move
         /\ Heartbeat(c) => Move
         /\ Pause(c) => Move
         /\ Resume(c) => Move
         /\ StopRows(c) => Move
         /\ StopRun(c) => Move
         /\ Skip(c) => Move
         /\ Cancel(c) => Move
<1> USE DEF TypeOK, Move, frVars, runVars, queueVars, workerVars, callVars
<1> USE FrameMoves, CallFrameMoves
<1>1. ASSUME PauseRead(c) PROVE Move
  <2>1. CallsMove
    BY <1>1 DEF PauseRead, Request, CallSteps, Possible
  <2> QED
    BY <1>1, <2>1 DEF PauseRead, Request
<1>2. ASSUME ResumeRead(c) PROVE Move
  <2>1. CallsMove
    BY <1>2 DEF ResumeRead, Request, CallSteps, Possible
  <2> QED
    BY <1>2, <2>1 DEF ResumeRead, Request
<1>3. ASSUME StopRead(c) PROVE Move
  <2>1. CallsMove
    BY <1>3 DEF StopRead, Request, CallSteps, Possible
  <2> QED
    BY <1>3, <2>1 DEF StopRead, Request
<1>4. ASSUME NEW r \in TestRuns, SkipRead(c, r) PROVE Move
  <2>1. CallsMove
    BY <1>4 DEF SkipRead, Request, CallSteps, Possible
  <2> QED
    BY <1>4, <2>1 DEF SkipRead, Request
<1>5. ASSUME NEW r \in TestRuns, CancelRead(c, r) PROVE Move
  <2>1. CallsMove
    BY <1>5 DEF CancelRead, Request, CallSteps, Possible
  <2> QED
    BY <1>5, <2>1 DEF CancelRead, Request
<1>6. ASSUME Heartbeat(c) PROVE Move
  BY <1>6 DEF Heartbeat
<1>7. ASSUME Pause(c) PROVE Move
  <2>1. RunMove
    BY <1>7 DEF Pause, RequestStep, RunMove, SetFeatureRun
  <2> QED
    BY <1>7, <2>1 DEF Pause, RequestStep
<1>8. ASSUME Resume(c) PROVE Move
  <2>1. RunMove
    BY <1>8 DEF Resume, RequestStep, RunMove, SetFeatureRun
  <2> QED
    BY <1>8, <2>1 DEF Resume, RequestStep
<1>9. ASSUME StopRows(c) PROVE Move
  <2>1. RowsMove
    BY <1>9 DEF StopRows, RequestStep, RowsMove, RowMove, StoppedBy, Unfinished
  <2>2. CallsMove
    BY <1>9 DEF StopRows, RequestStep, CallsMove, CallMove, Goto, CallsType, Kept, Possible
  <2> QED
    BY <1>9, <2>1, <2>2 DEF StopRows, RequestStep
<1>10. ASSUME StopRun(c) PROVE Move
  <2>1. RunMove
    BY <1>10 DEF StopRun, RequestStep, RunMove, SetFeatureRun
  <2> QED
    BY <1>10, <2>1 DEF StopRun, RequestStep
<1>11. ASSUME Skip(c) PROVE Move
  <2>1. RowsMove
    BY <1>11 DEF Skip, CancelRow, RequestStep, RowsMove, RowMove, CancelledBy
  <2> QED
    BY <1>11, <2>1 DEF Skip, CancelRow, RequestStep
<1>12. ASSUME Cancel(c) PROVE Move
  <2>1. RowsMove
    BY <1>12 DEF Cancel, CancelRow, RequestStep, RowsMove, RowMove, CancelledBy
  <2> QED
    BY <1>12, <2>1 DEF Cancel, CancelRow, RequestStep
<1> QED
  BY <1>1, <1>2, <1>3, <1>4, <1>5, <1>6, <1>7, <1>8, <1>9, <1>10, <1>11, <1>12

(* The sweep.                                                              *)
LEMMA SweepMoves ==
  ASSUME TypeOK, NEW c \in Callers
  PROVE  /\ SweepStart(c) => Move
         /\ Wake(c) => Move
         /\ IdlePauseRead(c) => Move
         /\ IdlePause(c) => Move
         /\ ReapRead(c) => Move
         /\ Reap(c) => Move
<1> USE DEF TypeOK, Move, frVars, runVars, queueVars, workerVars, callVars
<1> USE FrameMoves, CallFrameMoves
<1>1. ASSUME SweepStart(c) PROVE Move
  <2>1. CallsMove
    BY <1>1 DEF SweepStart, CallSteps, Possible
  <2> QED
    BY <1>1, <2>1 DEF SweepStart
<1>2. ASSUME Wake(c) PROVE Move
  <2>1. RunMove
    BY <1>2 DEF Wake, RequestStep, RunMove, SetFeatureRun
  <2>2. CallsMove
    BY <1>2 DEF Wake, RequestStep, CallSteps, Possible
  <2> QED
    BY <1>2, <2>1, <2>2 DEF Wake, RequestStep
<1>3. ASSUME IdlePauseRead(c) PROVE Move
  <2>1. CallsMove
    BY <1>3 DEF IdlePauseRead, RequestStep, CallSteps, Possible
  <2> QED
    BY <1>3, <2>1 DEF IdlePauseRead, RequestStep
<1>4. ASSUME IdlePause(c) PROVE Move
  <2>1. RunMove
    BY <1>4 DEF IdlePause, RequestStep, RunMove, SetFeatureRun
  <2>2. CallsMove
    BY <1>4 DEF IdlePause, RequestStep, CallSteps, Possible
  <2> QED
    BY <1>4, <2>1, <2>2 DEF IdlePause, RequestStep
<1>5. ASSUME ReapRead(c) PROVE Move
  <2>1. CallsMove
    <3>1. ReapDue => MaxAge = 2
      BY ConstantTypes DEF ReapDue, FeatureRunType
    <3> QED
      BY <1>5, <3>1 DEF ReapRead, RequestStep, CallSteps, Possible
  <2> QED
    BY <1>5, <2>1 DEF ReapRead, RequestStep
<1>6. ASSUME Reap(c) PROVE Move
  <2>1. RunMove
    BY <1>6 DEF Reap, RequestStep, RunMove, SetFeatureRun
  <2>2. RowsMove
    <3>1. \A r \in TestRuns :
            ReapedBy(c, r) \/ (status'[r] = status[r] /\ ladderAttempt'[r] = ladderAttempt[r])
      BY <1>6 DEF Reap, RequestStep, Reaped, ReapedBy, UNFINISHED_STATUSES
    <3> QED
      BY <1>6, <3>1 DEF RowsMove, RowMove, Reap, RequestStep
  <2> QED
    BY <1>6, <2>1, <2>2 DEF Reap, RequestStep
<1> QED
  BY <1>1, <1>2, <1>3, <1>4, <1>5, <1>6

(* The worker slots.                                                       *)
LEMMA WorkerMoves ==
  ASSUME TypeOK, NEW w \in Workers
  PROVE  /\ \A j \in Jobs : Pick(w, j) => Move
         /\ Claim(w) => Move
         /\ SkipDuplicate(w) => Move
         /\ \A v \in RunStatuses : Finish(w, v) => Move
         /\ \A n \in Deliveries : Publish(w, n) => Move
         /\ PublishFails(w) => Move
         /\ Close(w) => Move
         /\ WorkerCrash(w) => Move
         /\ Stall(w) => Move
<1> USE DEF TypeOK, Move, frVars, runVars, queueVars, workerVars, callVars
<1> USE FrameMoves
<1>1. ASSUME NEW j \in Jobs, Pick(w, j) PROVE Move
  <2>1. SlotsMove
    BY <1>1 DEF Pick, SlotsMove, SlotMove, SlotsType, QueueType
  <2>2. RunMove
    BY <1>1 DEF Pick, RunMove, QueueType
  <2> QED
    BY <1>1, <2>1, <2>2 DEF Pick
<1>2. ASSUME Claim(w) PROVE Move
  <2>1. RowsMove
    <3>1. ClaimedBy(w, RunOf(w)) /\ \A r \in TestRuns \ {RunOf(w)} : status'[r] = status[r]
      BY <1>2 DEF Claim, ClaimedBy, RunOf, RowsType, SlotsType, Jobs
    <3>2. UNCHANGED ladderAttempt
      BY <1>2 DEF Claim
    <3> QED
      BY <3>1, <3>2 DEF RowsMove, RowMove, ClaimedBy
  <2>2. SlotsMove
    BY <1>2 DEF Claim, Throw, Release, SlotsMove, SlotMove, SlotsType
  <2>3. RunMove
    BY <1>2 DEF Claim, Throw, Release, RunMove, QueueType
  <2>4. CallsMove
    BY <1>2 DEF Claim
  <2> QED
    BY <2>1, <2>2, <2>3, <2>4
<1>3. ASSUME SkipDuplicate(w) PROVE Move
  <2>1. SlotsMove
    BY <1>3 DEF SkipDuplicate, Release, SlotsMove, SlotMove, SlotsType
  <2>2. RunMove
    BY <1>3 DEF SkipDuplicate, Release, RunMove, QueueType
  <2> QED
    BY <1>3, <2>1, <2>2 DEF SkipDuplicate
<1>4. ASSUME NEW v \in RunStatuses, Finish(w, v) PROVE Move
  <2>1. RunOf(w) \in TestRuns /\ IsTerminal(v)
    BY <1>4, EnvironmentAssumption
       DEF Finish, RunOf, SlotsType, Jobs, IsTerminal, TERMINAL_RUN_STATUSES
  <2>2. RowsMove
    <3>1. EndedBy(w, RunOf(w)) /\ \A r \in TestRuns \ {RunOf(w)} : status'[r] = status[r]
      BY <1>4, <2>1 DEF Finish, EndedBy, RowsType, SlotsType
    <3>2. UNCHANGED ladderAttempt
      BY <1>4 DEF Finish
    <3> QED
      BY <3>1, <3>2 DEF RowsMove, RowMove, EndedBy
  <2>3. SlotsMove
    BY <1>4, <2>1 DEF Finish, SlotsMove, SlotMove, SlotsType, RowsType, RunOf
  <2>4. RunMove
    BY <1>4 DEF Finish, RunMove
  <2> QED
    BY <1>4, <2>2, <2>3, <2>4 DEF Finish
<1>5. ASSUME NEW n \in Deliveries, Publish(w, n) PROVE Move
  <2>1. SlotsMove
    BY <1>5 DEF Publish, Throw, Release, SlotsMove, SlotMove, SlotsType
  <2>2. RunMove
    BY <1>5 DEF Publish, Throw, Release, RunMove, QueueType
  <2> QED
    BY <1>5, <2>1, <2>2 DEF Publish
<1>6. ASSUME PublishFails(w) PROVE Move
  <2>1. RowsMove
    <3>1. FailedBy(w, RunOf(w)) /\ \A r \in TestRuns \ {RunOf(w)} : status'[r] = status[r]
      BY <1>6 DEF PublishFails, Fault, FailedBy, RowsType, SlotsType, RunOf, Jobs
    <3>2. UNCHANGED ladderAttempt
      BY <1>6 DEF PublishFails
    <3> QED
      BY <3>1, <3>2 DEF RowsMove, RowMove, FailedBy
  <2>2. SlotsMove
    BY <1>6 DEF PublishFails, SlotsMove, SlotMove, SlotsType
  <2>3. RunMove
    BY <1>6 DEF PublishFails, RunMove
  <2> QED
    BY <1>6, <2>1, <2>2, <2>3 DEF PublishFails
<1>7. ASSUME Close(w) PROVE Move
  <2>1. SlotsMove
    BY <1>7 DEF Close, Release, SlotsMove, SlotMove, SlotsType
  <2>2. RunMove
    BY <1>7 DEF Close, Release, RunMove, QueueType
  <2> QED
    BY <1>7, <2>1, <2>2 DEF Close
<1>8. ASSUME WorkerCrash(w) PROVE Move
  <2>1. SlotsMove
    BY <1>8 DEF WorkerCrash, Release, SlotsMove, SlotMove, SlotsType
  <2>2. RunMove
    BY <1>8 DEF WorkerCrash, Release, RunMove, QueueType
  <2> QED
    BY <1>8, <2>1, <2>2 DEF WorkerCrash
<1>9. ASSUME Stall(w) PROVE Move
  <2>1. RunMove
    BY <1>9 DEF Stall, RunMove, QueueType
  <2> QED
    BY <1>9, <2>1 DEF Stall
<1> QED
  BY <1>1, <1>2, <1>3, <1>4, <1>5, <1>6, <1>7, <1>8, <1>9

(* Every step is a move.                                                   *)
LEMMA StepMoves == TypeOK /\ [Next]_vars => Move
<1> SUFFICES ASSUME TypeOK, [Next]_vars PROVE Move
  OBVIOUS
<1>1. ASSUME NEW c \in Callers, Enqueue(c) \/ CompletionStep(c) PROVE Move
  BY <1>1, CompletionMoves DEF Enqueue, CompletionStep
<1>2. ASSUME NEW c \in Callers, RequestStarts(c) \/ RequestContinues(c) PROVE Move
  BY <1>2, RequestMoves DEF RequestStarts, RequestContinues
<1>3. ASSUME NEW c \in Callers, SweepStart(c) \/ SweepContinues(c) PROVE Move
  BY <1>3, SweepMoves DEF SweepContinues
<1>4. ASSUME NEW w \in Workers, WorkerStep(w) \/ WorkerCrash(w) \/ Stall(w) PROVE Move
  BY <1>4, WorkerMoves DEF WorkerStep
<1>5. ASSUME NEW c \in Callers, ApiCrash(c) PROVE Move
  <2>1. CallsMove
    <3>1. Possible("idle")
      BY DEF Possible
    <3> QED
      BY <1>5, <3>1 DEF ApiCrash, CallsMove, CallMove, Return, Goto, Kept, TypeOK, CallsType
  <2> QED
    BY <1>5, <2>1, FrameMoves DEF ApiCrash, Move, frVars, runVars, queueVars, workerVars
<1>6. CASE EventLost \/ Quieten \/ GrowOld \/ UNCHANGED vars
  BY <1>6, FrameMoves
     DEF EventLost, Quieten, GrowOld, vars, Move, frVars, runVars, queueVars, workerVars, callVars
<1> QED
  BY <1>1, <1>2, <1>3, <1>4, <1>5, <1>6 DEF Next

(* Every call is at a step that the configuration admits.                  *)
CallsPossible == \A c \in Callers : Possible(cpc[c])

BaseInv == TypeOK /\ WaveOwnership /\ CallsPossible

LEMMA Base == Spec => []BaseInv
<1>1. Init => CallsPossible
  BY DEF Init, CallsPossible, Possible
<1>2. TypeOK /\ CallsPossible /\ [Next]_vars => CallsPossible'
  BY StepMoves DEF CallsPossible, Move, CallsMove, CallMove
<1> QED
  BY <1>1, <1>2, Ownership, PTL DEF Spec, BaseInv

------------------------------------------------------------------------------
(* Executions exclude each other.                                          *)

(* No row is reset to another wave beside its execution: the ladder is off,*)
(* or nothing but the execution gives the row a verdict that the ladder    *)
(* attempts again, neither a failed publish nor the reaper.                *)
VerdictsAreOwn == LadderEnabled => "publish" \notin Faults /\ ~(Sweeps /\ MaxAge = 2)

ExecutingIsHeld ==
  \A w \in Workers : wpc[w] = "exec" =>
    /\ ~Claimable(RunOf(w)) /\ status[RunOf(w)] # "PASSED"
    /\ LadderEnabled => status[RunOf(w)] \notin FAILED_STATUSES

ExecInv == ExecutingIsHeld /\ ExclusiveExecution

LEMMA SlotRuns == TypeOK => \A w \in Workers : wpc[w] # "idle" => RunOf(w) \in TestRuns
BY DEF TypeOK, SlotsType, RunOf, Jobs

LEMMA StepKeepsExclusion ==
  ASSUME VerdictsAreOwn, BaseInv, ExecInv, [Next]_vars
  PROVE  ExecInv'
<1>0. TypeOK /\ CallsPossible /\ Move
  BY StepMoves DEF BaseInv
<1> USE DEF ExecInv
<1>1. ASSUME NEW w \in Workers, wpc'[w] = "exec"
      PROVE  RunOf(w)' = RunOf(w) /\ RunOf(w) \in TestRuns /\ (wpc[w] = "exec" \/ Claim(w))
  BY <1>0, <1>1, SlotRuns DEF Move, SlotsMove, SlotMove, RunOf, Claim
<1>2. ASSUME NEW w \in Workers, wpc'[w] = "exec"
      PROVE  /\ ~Claimable(RunOf(w))' /\ status'[RunOf(w)] # "PASSED"
             /\ LadderEnabled => status'[RunOf(w)] \notin FAILED_STATUSES
  <2> DEFINE r == RunOf(w)
  <2>1. RunOf(w)' = r /\ r \in TestRuns /\ (wpc[w] = "exec" \/ Claim(w))
    BY <1>1, <1>2
  <2>2. CASE Claim(w)
    BY <2>1, <2>2, <1>0 DEF Claim, Claimable, TypeOK, RowsType, FAILED_STATUSES
  <2>3. CASE wpc[w] = "exec"
    <3>1. ~Claimable(r) /\ status[r] # "PASSED" /\ (LadderEnabled => status[r] \notin FAILED_STATUSES)
      BY <2>3 DEF ExecutingIsHeld
    <3>2. \A v \in Workers : ~EndedBy(v, r)
      BY <1>2, <2>1, <2>3 DEF EndedBy, ExclusiveExecution
    <3>3. RowMove(r)
      BY <1>0, <2>1 DEF Move, RowsMove
    <3>4. ~MarkedQueued(r) /\ \A v \in Workers : ~ClaimedBy(v, r)
      BY <3>1 DEF MarkedQueued, ClaimedBy, Claim, Claimable
    <3>5. \A c \in Callers : ~StoppedBy(c, r) \/ status'[r] = "NOT_TESTED"
      BY DEF StoppedBy
    <3>6. \A c \in Callers : ~CancelledBy(c, r) \/ status'[r] = "CANCELLED"
      BY DEF CancelledBy
    <3>7. \A c \in Callers : ~ResetBy(c, r)
      <4>1. \A c \in Callers : ResetBy(c, r) => LadderEnabled
        BY <1>0 DEF ResetBy, ResetWave, CallsPossible, Possible
      <4> QED
        BY <3>1, <4>1 DEF ResetBy
    <3>8. \A c \in Callers : ReapedBy(c, r) =>
            status'[r] \in {"NOT_TESTED", "ERROR"} /\ (LadderEnabled => FALSE)
      BY <1>0, VerdictsAreOwn DEF ReapedBy, CallsPossible, Possible, VerdictsAreOwn
    <3>9. \A v \in Workers : FailedBy(v, r) => status'[r] = "ERROR" /\ (LadderEnabled => FALSE)
      BY VerdictsAreOwn DEF FailedBy, VerdictsAreOwn
    <3>10. \/ status'[r] \in {status[r], "NOT_TESTED", "CANCELLED"}
           \/ ~LadderEnabled /\ status'[r] = "ERROR"
      BY <3>2, <3>3, <3>4, <3>5, <3>6, <3>7, <3>8, <3>9 DEF RowMove
    <3> HIDE DEF r
    <3> QED
      BY <2>1, <3>1, <3>10 DEF Claimable, FAILED_STATUSES, r
  <2> QED
    BY <2>1, <2>2, <2>3
<1>3. ExecutingIsHeld'
  BY <1>1, <1>2 DEF ExecutingIsHeld
<1>4. ExclusiveExecution'
  <2> SUFFICES ASSUME NEW v \in Workers, NEW w \in Workers, v # w,
                      wpc'[v] = "exec", wpc'[w] = "exec"
               PROVE  RunOf(v) # RunOf(w)
    BY <1>1 DEF ExclusiveExecution
  <2>1. CASE wpc[v] = "exec" /\ wpc[w] = "exec"
    BY <2>1 DEF ExclusiveExecution
  <2>2. CASE Claim(w)
    BY <1>0, <2>2 DEF Move, SlotsMove, SlotMove, Claim, ExecutingIsHeld
  <2>3. CASE Claim(v)
    BY <1>0, <2>3 DEF Move, SlotsMove, SlotMove, Claim, ExecutingIsHeld
  <2> QED
    BY <1>1, <2>1, <2>2, <2>3
<1> QED
  BY <1>3, <1>4

LEMMA Exclusion == ASSUME VerdictsAreOwn PROVE Spec => [](BaseInv /\ ExecInv)
<1>1. Init => ExecInv
  BY DEF Init, ExecInv, ExecutingIsHeld, ExclusiveExecution
<1>2. BaseInv /\ ExecInv /\ [Next]_vars => ExecInv'
  BY StepKeepsExclusion
<1> QED
  BY <1>1, <1>2, Base, PTL DEF Spec

(* Two slots never drive a browser for one TestRun at once, however jobs   *)
(* are redelivered and calls overlap.                                      *)
THEOREM ExecutionsExclude ==
  ASSUME VerdictsAreOwn PROVE Spec => []ExclusiveExecution
BY Exclusion, PTL DEF ExecInv

------------------------------------------------------------------------------
(* No call writes CANCELLED over a row it has read before.                 *)
NothingIsCancelled ==
  "skip" \notin UserOps /\ "cancel" \notin UserOps /\ (FailFast => LadderEnabled)

LEMMA NobodyCancels ==
  ASSUME NothingIsCancelled, CallsPossible
  PROVE  \A c \in Callers, r \in TestRuns : ~CancelledBy(c, r)
BY DEF NothingIsCancelled, CallsPossible, Possible, CancelledBy

(* A recorded pass is never overwritten: executions keep off it, and so    *)
(* does everybody else as long as no publish fails and nothing cancels.    *)
THEOREM PassesStay ==
  ASSUME VerdictsAreOwn, NothingIsCancelled, "publish" \notin Faults
  PROVE  Spec => PassedStays
<1>1. ASSUME BaseInv, ExecInv, [Next]_vars
      PROVE  \A r \in TestRuns : status[r] = "PASSED" => status'[r] = "PASSED"
  <2> SUFFICES ASSUME NEW r \in TestRuns, status[r] = "PASSED" PROVE status'[r] = "PASSED"
    OBVIOUS
  <2>1. RowMove(r) /\ CallsPossible
    BY <1>1, StepMoves DEF BaseInv, Move, RowsMove
  <2>2. \A w \in Workers : ~ClaimedBy(w, r) /\ ~EndedBy(w, r) /\ ~FailedBy(w, r)
    BY <1>1 DEF ClaimedBy, Claim, Claimable, EndedBy, FailedBy, ExecInv, ExecutingIsHeld
  <2>3. \A c \in Callers : ~StoppedBy(c, r) /\ ~ReapedBy(c, r) /\ ~ResetBy(c, r)
    BY DEF StoppedBy, ReapedBy, ResetBy, UNFINISHED_STATUSES, FAILED_STATUSES
  <2>4. \A c \in Callers : ~CancelledBy(c, r)
    BY <2>1, NobodyCancels
  <2> QED
    BY <2>1, <2>2, <2>3, <2>4 DEF RowMove, MarkedQueued
<1>2. BaseInv /\ ExecInv /\ [Next]_vars =>
        [\A r \in TestRuns : status[r] = "PASSED" => status'[r] = "PASSED"]_vars
  BY <1>1
<1> QED
  BY <1>2, Exclusion, PTL DEF Spec, PassedStays

------------------------------------------------------------------------------
(* Without the ladder nothing finished starts again.                       *)

Finished == \A r \in TestRuns : status[r] \notin UNFINISHED_STATUSES

LEMMA FinishedStays ==
  ASSUME ~LadderEnabled, BaseInv, [Next]_vars, NEW r \in TestRuns
  PROVE  /\ status[r] \notin UNFINISHED_STATUSES => status'[r] \notin UNFINISHED_STATUSES
         /\ IsTerminal(status[r]) => IsTerminal(status'[r])
<1>1. RowMove(r) /\ CallsPossible
  BY StepMoves DEF BaseInv, Move, RowsMove
<1>2. \A c \in Callers : ~ResetBy(c, r)
  BY <1>1 DEF ResetBy, ResetWave, CallsPossible, Possible
<1>3. ASSUME status[r] \notin UNFINISHED_STATUSES
      PROVE  status'[r] = status[r] \/ IsTerminal(status'[r])
  BY <1>1, <1>2, <1>3
     DEF RowMove, MarkedQueued, ClaimedBy, Claim, Claimable, EndedBy, FailedBy, StoppedBy,
         CancelledBy, ReapedBy, UNFINISHED_STATUSES, IsTerminal, TERMINAL_RUN_STATUSES
<1> QED
  BY <1>3 DEF UNFINISHED_STATUSES, IsTerminal, TERMINAL_RUN_STATUSES

(* A stop and a reap close the rows before, or with, the FeatureRun.       *)
StopInv == (frStatus = "CANCELLED" \/ \E c \in Callers : cpc[c] = "stopRun") => Finished

LEMMA StepKeepsStop ==
  ASSUME ~LadderEnabled, BaseInv, StopInv, [Next]_vars
  PROVE  StopInv'
<1>0. Move
  BY StepMoves DEF BaseInv
<1>1. Finished => Finished'
  BY FinishedStays DEF Finished
<1>2. ASSUME NEW c \in Callers, StopRows(c) PROVE Finished'
  BY <1>2 DEF StopRows, Unfinished, Finished, UNFINISHED_STATUSES
<1>3. ASSUME NEW c \in Callers, Reap(c) PROVE Finished'
  BY <1>3 DEF Reap, Reaped, Finished, UNFINISHED_STATUSES
<1>4. ASSUME NEW c \in Callers, cpc'[c] = "stopRun" PROVE Finished'
  BY <1>0, <1>1, <1>2, <1>4 DEF Move, CallsMove, CallMove, StopInv
<1>5. frStatus' = "CANCELLED" => Finished'
  BY <1>0, <1>1, <1>3 DEF Move, RunMove, StopInv
<1> QED
  BY <1>4, <1>5 DEF StopInv

(* A FeatureRun that was stopped or reaped has no test waiting or executing*)
(* whatever else goes on, when there is no ladder to restart one.          *)
THEOREM CancelledStaysQuiet ==
  ASSUME ~LadderEnabled PROVE Spec => []CancelledIsQuiescent
<1>1. Init => StopInv
  BY DEF Init, StopInv
<1>2. BaseInv /\ StopInv /\ [Next]_vars => StopInv'
  BY StepKeepsStop
<1>3. StopInv => CancelledIsQuiescent
  BY DEF StopInv, Finished, CancelledIsQuiescent
<1> QED
  BY <1>1, <1>2, <1>3, Base, PTL DEF Spec

------------------------------------------------------------------------------
(* From the read of onRunComplete that finds every test done to COMPLETE.  *)

Closing == frStatus = "COMPLETE" \/ \E c \in Callers : cpc[c] \in {"stamp", "complete"}

LEMMA ClosingStarts ==
  ASSUME TypeOK, [Next]_vars, Closing'
  PROVE  Closing \/ (AllDone /\ ~WaveDue /\ UNCHANGED <<status, attempt>>)
<1>0. Move
  BY StepMoves
<1>1. CASE frStatus' = "COMPLETE"
  BY <1>0, <1>1 DEF Move, RunMove, Closing
<1>2. ASSUME NEW c \in Callers, cpc'[c] \in {"stamp", "complete"}
      PROVE  Closing \/ (AllDone /\ ~WaveDue /\ UNCHANGED <<status, attempt>>)
  <2>1. CASE Kept(c)
    BY <1>2, <2>1 DEF Kept, Closing
  <2>2. CASE OnRunComplete(c)
    <3>1. cpc \in [Callers -> CallSteps] /\ cpc[c] = "idle"
      BY <2>2 DEF TypeOK, CallsType, OnRunComplete
    <3>2. UNCHANGED <<status, attempt>>
      BY <2>2 DEF OnRunComplete, frVars, runVars
    <3>3. AllDone /\ ~WaveDue
      BY <1>2, <2>2, <3>1 DEF OnRunComplete, Proceed, EnqueueAll, Return, Goto, callVars
    <3> QED
      BY <3>2, <3>3
  <2>3. CASE ClaimWave(c)
    BY <1>2, <2>3 DEF ClaimWave, Proceed, Return, Goto, TypeOK, CallsType
  <2>4. CASE Stamp(c)
    BY <2>4 DEF Stamp, Closing
  <2> QED
    BY <1>0, <1>2, <2>1, <2>2, <2>3, <2>4 DEF Move, CallsMove, CallMove
<1> QED
  BY <1>1, <1>2 DEF Closing

(* Without the ladder, that every test is done stays true.                 *)
LEMMA ClosesWithoutLadder ==
  ASSUME ~LadderEnabled PROVE Spec => [](Closing => AllDone)
<1>1. Init => (Closing => AllDone)
  BY DEF Init, Closing
<1>2. ASSUME BaseInv, Closing => AllDone, [Next]_vars PROVE (Closing => AllDone)'
  <2>1. AllDone => AllDone'
    BY <1>2, FinishedStays DEF AllDone
  <2> QED
    BY <1>2, <2>1, ClosingStarts DEF BaseInv
<1> QED
  BY <1>1, <1>2, Base, PTL DEF Spec

(* With the ladder: onRunComplete is handled by one call at a time, no     *)
(* publish fails, and only its own execution ends a test.                  *)
OneCall == LadderEnabled => "publish" \notin Faults /\ \A c, d \in Callers : c = d
Undisturbed == NothingIsCancelled /\ ~(Sweeps /\ MaxAge = 2)

ExecutingIsOpen == \A w \in Workers : wpc[w] = "exec" => ~IsTerminal(status[RunOf(w)])
PublishedIsClosed ==
  ~LadderEnabled => \A w \in Workers : wpc[w] = "publish" => IsTerminal(status[RunOf(w)])
ClosedStays == Closing => AllDone /\ ~WaveDue
WaveHeld ==
  \A c \in Callers : cpc[c] \in {"claimWave", "resetWave"} =>
    AllDone /\ work[c] = FailedRuns /\ wave[c] = attempt /\ frStatus # "COMPLETE"

CloseInv ==
  ExecutingIsOpen /\ PublishedIsClosed /\ ClosedStays /\ (LadderEnabled => WaveHeld)

(* A test with a verdict changes it only by a reset, or, without the       *)
(* ladder, by a publish that fails.                                        *)
LEMMA VerdictMoves ==
  ASSUME OneCall, Undisturbed, BaseInv, ExecutingIsOpen, [Next]_vars,
         NEW r \in TestRuns, IsTerminal(status[r])
  PROVE  \/ status'[r] = status[r]
         \/ \E c \in Callers : ResetBy(c, r)
         \/ ~LadderEnabled /\ status'[r] = "ERROR"
<1>1. RowMove(r) /\ CallsPossible
  BY StepMoves DEF BaseInv, Move, RowsMove
<1>2. \A w \in Workers : ~ClaimedBy(w, r) /\ ~EndedBy(w, r)
  BY DEF ClaimedBy, Claim, Claimable, EndedBy, ExecutingIsOpen, IsTerminal, TERMINAL_RUN_STATUSES
<1>3. \A c \in Callers : ~StoppedBy(c, r) /\ ~ReapedBy(c, r) /\ ~CancelledBy(c, r)
  BY <1>1, NobodyCancels
     DEF Undisturbed, StoppedBy, ReapedBy, UNFINISHED_STATUSES, IsTerminal, TERMINAL_RUN_STATUSES
<1>4. \A w \in Workers : FailedBy(w, r) => ~LadderEnabled /\ status'[r] = "ERROR"
  BY DEF FailedBy, OneCall
<1>5. ~MarkedQueued(r)
  BY DEF MarkedQueued, IsTerminal, TERMINAL_RUN_STATUSES
<1> QED
  BY <1>1, <1>2, <1>3, <1>4, <1>5 DEF RowMove

LEMMA StepKeepsOpen ==
  ASSUME OneCall, Undisturbed, BaseInv, ExecInv, CloseInv, [Next]_vars
  PROVE  ExecutingIsOpen' /\ PublishedIsClosed'
<1>0. TypeOK /\ Move /\ CallsPossible
  BY StepMoves DEF BaseInv
<1>1. ASSUME NEW w \in Workers, wpc'[w] = "exec" PROVE ~IsTerminal(status[RunOf(w)])'
  <2> DEFINE r == RunOf(w)
  <2>1. RunOf(w)' = r /\ r \in TestRuns /\ (wpc[w] = "exec" \/ Claim(w))
    BY <1>0, <1>1, SlotRuns DEF Move, SlotsMove, SlotMove, RunOf, Claim
  <2>2. CASE Claim(w)
    BY <2>1, <2>2, <1>0
       DEF Claim, TypeOK, RowsType, IsTerminal, TERMINAL_RUN_STATUSES
  <2>3. CASE wpc[w] = "exec"
    <3>1. ~IsTerminal(status[r]) /\ RowMove(r)
      BY <1>0, <2>1, <2>3 DEF CloseInv, ExecutingIsOpen, Move, RowsMove
    <3>2. \A v \in Workers : ~EndedBy(v, r)
      BY <1>1, <2>1, <2>3 DEF EndedBy, ExecInv, ExclusiveExecution
    <3>3. \A v \in Workers : ~FailedBy(v, r)
      BY <3>1 DEF FailedBy, OneCall, CloseInv, PublishedIsClosed
    <3>4. \A c \in Callers : ~CancelledBy(c, r) /\ ~ReapedBy(c, r)
      BY <1>0, NobodyCancels, <2>1 DEF Undisturbed, ReapedBy, CallsPossible, Possible
    <3> HIDE DEF r
    <3>5. ~IsTerminal(status'[r])
      BY <3>1, <3>2, <3>3, <3>4
         DEF RowMove, MarkedQueued, ClaimedBy, StoppedBy, ResetBy, IsTerminal, TERMINAL_RUN_STATUSES
    <3> QED
      BY <2>1, <3>5 DEF r
  <2> QED
    BY <2>1, <2>2, <2>3
<1>2. ASSUME ~LadderEnabled, NEW w \in Workers, wpc'[w] = "publish"
      PROVE  IsTerminal(status[RunOf(w)])'
  <2>1. RunOf(w)' = RunOf(w)
    BY <1>0, <1>2 DEF Move, SlotsMove, SlotMove, RunOf
  <2>2. CASE wpc[w] = "publish"
    <3>1. RunOf(w) \in TestRuns /\ IsTerminal(status[RunOf(w)])
      BY <1>0, <1>2, <2>2, SlotRuns DEF CloseInv, PublishedIsClosed
    <3> QED
      BY <1>2, <2>1, <3>1, FinishedStays
  <2>3. CASE IsTerminal(status'[RunOf(w)])
    BY <2>1, <2>3
  <2> QED
    BY <1>0, <1>2, <2>2, <2>3 DEF Move, SlotsMove, SlotMove
<1> QED
  BY <1>1, <1>2 DEF ExecutingIsOpen, PublishedIsClosed

(* In a run whose tests are all done, rows change only when a wave resets. *)
LEMMA DoneStays ==
  ASSUME OneCall, Undisturbed, BaseInv, CloseInv, [Next]_vars, LadderEnabled, AllDone,
         \A c \in Callers : cpc[c] # "resetWave"
  PROVE  \A r \in TestRuns : status'[r] = status[r]
BY VerdictMoves DEF CloseInv, AllDone, ResetBy, ResetWave

LEMMA StepKeepsClosed ==
  ASSUME OneCall, Undisturbed, BaseInv, CloseInv, [Next]_vars
  PROVE  ClosedStays'
<1>0. TypeOK /\ Move
  BY StepMoves DEF BaseInv
<1> SUFFICES ASSUME Closing' PROVE AllDone' /\ ~WaveDue'
  BY DEF ClosedStays
<1>1. CASE AllDone /\ ~WaveDue /\ UNCHANGED <<status, attempt>>
  BY <1>1 DEF AllDone, WaveDue, FailedRuns
<1>2. CASE Closing
  <2>1. AllDone /\ ~WaveDue
    BY <1>2 DEF CloseInv, ClosedStays
  <2>2. CASE ~LadderEnabled
    BY <2>1, <2>2, FinishedStays DEF AllDone, WaveDue
  <2>3. CASE LadderEnabled
    <3>1. \A c \in Callers : cpc[c] \notin {"claimWave", "resetWave"}
      BY <1>2, <2>3 DEF Closing, CloseInv, WaveHeld, OneCall
    <3>2. \A r \in TestRuns : status'[r] = status[r]
      BY <2>1, <2>3, <3>1, DoneStays
    <3>3. attempt' = attempt
      BY <1>0, <3>1 DEF Move, RunMove, ClaimWave
    <3> QED
      BY <2>1, <3>2, <3>3 DEF AllDone, WaveDue, FailedRuns
  <2> QED
    BY <2>2, <2>3
<1> QED
  BY <1>0, <1>1, <1>2, ClosingStarts

LEMMA StepKeepsWave ==
  ASSUME OneCall, Undisturbed, BaseInv, CloseInv, [Next]_vars, LadderEnabled
  PROVE  WaveHeld'
<1>0. TypeOK /\ Move /\ DueWaveExists
  BY StepMoves DEF BaseInv, WaveOwnership
<1> SUFFICES ASSUME NEW c \in Callers, cpc'[c] \in {"claimWave", "resetWave"}
             PROVE  AllDone' /\ work'[c] = FailedRuns' /\ wave'[c] = attempt' /\ frStatus' # "COMPLETE"
  BY DEF WaveHeld
<1>1. cpc \in [Callers -> CallSteps] /\ wave \in [Callers -> Attempts]
      /\ work \in [Callers -> SUBSET TestRuns]
  BY <1>0 DEF TypeOK, CallsType
<1>2. \A d \in Callers : d = c
  BY DEF OneCall
<1>3. CASE OnRunComplete(c)
  <2>1. UNCHANGED <<status, attempt, frStatus>> /\ cpc[c] = "idle"
    BY <1>3 DEF OnRunComplete, frVars, runVars
  <2>2. AllDone /\ WaveDue /\ Proceed(c, "claimWave", FailedRuns, attempt)
    BY <1>1, <1>3, <2>1 DEF OnRunComplete, Proceed, EnqueueAll, Return, Goto, callVars
  <2>3. work'[c] = FailedRuns /\ wave'[c] = attempt
    BY <1>1, <2>2 DEF Proceed
  <2>4. frStatus # "COMPLETE"
    BY <2>2 DEF CloseInv, ClosedStays, Closing
  <2> QED
    BY <2>1, <2>2, <2>3, <2>4 DEF AllDone, FailedRuns
<1>4. CASE cpc[c] = "claimWave" /\ ClaimWave(c)
  <2>1. AllDone /\ work[c] = FailedRuns /\ wave[c] = attempt /\ frStatus # "COMPLETE"
    BY <1>4 DEF CloseInv, WaveHeld
  <2>2. UNCHANGED <<status, frStatus>> /\ attempt' = wave[c] + 1
        /\ work'[c] = work[c] /\ wave'[c] = wave[c] + 1
    BY <1>1, <1>4, <2>1 DEF ClaimWave, WaveUnclaimed, Proceed, runVars
  <2> QED
    BY <2>1, <2>2 DEF AllDone, FailedRuns
<1>5. CASE Kept(c)
  <2>1. AllDone /\ work[c] = FailedRuns /\ wave[c] = attempt /\ frStatus # "COMPLETE"
        /\ cpc[c] \in {"claimWave", "resetWave"}
    BY <1>5 DEF CloseInv, WaveHeld, Kept
  <2>2. ~ResetWave(c)
    <3>1. ResetWave(c) => cpc'[c] \in {"idle", "enqueue"}
      BY <1>1 DEF ResetWave, EnqueueAll, Return, Proceed, Goto
    <3> QED
      BY <3>1
  <2>3. ~(ClaimWave(c) /\ WaveUnclaimed(c))
    BY <1>1, <1>5 DEF Kept, ClaimWave, Proceed, Goto
  <2>4. \A r \in TestRuns : status'[r] = status[r]
    <3>1. \A r \in TestRuns : ~\E d \in Callers : ResetBy(d, r)
      BY <1>2, <2>2 DEF ResetBy
    <3> QED
      BY <2>1, <3>1, VerdictMoves DEF CloseInv, AllDone
  <2>5. attempt' = attempt /\ frStatus' # "COMPLETE"
    BY <1>0, <1>2, <2>1, <2>3 DEF Move, RunMove
  <2> QED
    BY <1>5, <2>1, <2>4, <2>5 DEF Kept, AllDone, FailedRuns
<1>6. ~Stamp(c)
  BY <1>1 DEF Stamp, Goto
<1> QED
  BY <1>0, <1>3, <1>4, <1>5, <1>6 DEF Move, CallsMove, CallMove, ClaimWave

LEMMA Closes ==
  ASSUME OneCall, Undisturbed PROVE Spec => [](BaseInv /\ ExecInv /\ CloseInv)
<1>0. VerdictsAreOwn
  BY DEF OneCall, Undisturbed, VerdictsAreOwn
<1>1. Init => CloseInv
  BY DEF Init, CloseInv, ExecutingIsOpen, PublishedIsClosed, ClosedStays, Closing, WaveHeld
<1>2. BaseInv /\ ExecInv /\ CloseInv /\ [Next]_vars => CloseInv'
  BY StepKeepsOpen, StepKeepsClosed, StepKeepsWave DEF CloseInv
<1>3. Spec => [](BaseInv /\ ExecInv)
  BY <1>0, Exclusion
<1> QED
  BY <1>1, <1>2, <1>3, PTL DEF Spec

(* A FeatureRun reported COMPLETE has no test left to run or running, for  *)
(* ever: always without the ladder; with it, when calls do not overlap.    *)
THEOREM CompleteStaysFinished ==
  ASSUME ~LadderEnabled \/ (OneCall /\ Undisturbed)
  PROVE  Spec => []CompleteMeansFinished
<1>1. (Closing => AllDone) => CompleteMeansFinished
  BY DEF Closing, AllDone, CompleteMeansFinished
<1>2. CASE ~LadderEnabled
  BY <1>1, <1>2, ClosesWithoutLadder, PTL
<1>3. CASE OneCall /\ Undisturbed
  <2>1. CloseInv => CompleteMeansFinished
    BY <1>1 DEF CloseInv, ClosedStays
  <2>2. Spec => [](BaseInv /\ ExecInv /\ CloseInv)
    BY <1>3, Closes
  <2> QED
    BY <2>1, <2>2, PTL
<1> QED
  BY <1>2, <1>3

------------------------------------------------------------------------------
(* Passes carry the wave they were read at.                                *)

StampIsCurrent ==
  \A r \in TestRuns : passedAt[r] # 0 =>
    passedAt[r] = ladderAttempt[r] /\ (LadderEnabled => status[r] = "PASSED")
PassesAreCurrent ==
  \A c \in Callers, r \in TestRuns, a \in Attempts : <<r, a>> \in passes[c] =>
    a = ladderAttempt[r] /\ (LadderEnabled => status[r] = "PASSED")
PassesAreKnown ==
  \A c \in Callers : cpc[c] = "stamp" =>
    \A r \in TestRuns : status[r] = "PASSED" =>
      passedAt[r] # 0 \/ <<r, ladderAttempt[r]>> \in passes[c]
PassesAreStamped ==
  (frStatus = "COMPLETE" \/ \E c \in Callers : cpc[c] = "complete") =>
    \A r \in TestRuns : status[r] = "PASSED" => passedAt[r] = ladderAttempt[r]

StampInv == StampIsCurrent /\ PassesAreCurrent /\ PassesAreKnown /\ PassesAreStamped

(* A current stamp or pass stays current.                                  *)
LEMMA CurrentStays ==
  ASSUME OneCall, Undisturbed, BaseInv, CloseInv, [Next]_vars,
         NEW r \in TestRuns, LadderEnabled => status[r] = "PASSED"
  PROVE  ladderAttempt'[r] = ladderAttempt[r] /\ (LadderEnabled => status'[r] = "PASSED")
<1>1. RowMove(r) /\ CallsPossible
  BY StepMoves DEF BaseInv, Move, RowsMove
<1>2. \A c \in Callers : ~ResetBy(c, r)
  BY <1>1 DEF ResetBy, ResetWave, CallsPossible, Possible, FAILED_STATUSES
<1>3. LadderEnabled => status'[r] = "PASSED"
  BY <1>2, VerdictMoves DEF CloseInv, IsTerminal, TERMINAL_RUN_STATUSES
<1> QED
  BY <1>1, <1>2, <1>3 DEF RowMove

(* What a stamp writes.                                                    *)
LEMMA StampWrites ==
  ASSUME TypeOK, PassesAreCurrent, NEW c \in Callers, Stamp(c), NEW r \in TestRuns
  PROVE  /\ \/ passedAt'[r] = passedAt[r] /\ <<r, ladderAttempt[r]>> \notin passes[c]
            \/ passedAt'[r] = ladderAttempt[r] /\ (LadderEnabled => status[r] = "PASSED")
         /\ UNCHANGED <<status, ladderAttempt>>
<1> DEFINE Known == \E a \in Attempts : <<r, a>> \in passes[c]
           W == CHOOSE a \in Attempts : <<r, a>> \in passes[c]
<1>1. passedAt'[r] = IF Known THEN W ELSE passedAt[r]
  BY DEF Stamp
<1>2. UNCHANGED <<status, ladderAttempt>>
  BY DEF Stamp
<1>3. CASE Known
  <2>1. W \in Attempts /\ <<r, W>> \in passes[c]
    BY <1>3
  <2> HIDE DEF W
  <2>2. W = ladderAttempt[r] /\ (LadderEnabled => status[r] = "PASSED")
    BY <2>1 DEF PassesAreCurrent
  <2> QED
    BY <1>1, <1>2, <1>3, <2>2
<1>4. CASE ~Known
  <2>1. ladderAttempt[r] \in Attempts
    BY DEF TypeOK, RowsType
  <2> QED
    BY <1>1, <1>2, <1>4, <2>1
<1> QED
  BY <1>3, <1>4

LEMMA StepKeepsStamps ==
  ASSUME OneCall, Undisturbed, BaseInv, CloseInv, StampInv, [Next]_vars
  PROVE  StampInv'
<1>0. TypeOK /\ Move
  BY StepMoves DEF BaseInv
<1>a. \A r \in TestRuns : ladderAttempt[r] \in Attempts /\ ladderAttempt[r] # 0
  BY <1>0 DEF TypeOK, RowsType, Attempts
<1>b. cpc \in [Callers -> CallSteps] /\ passes \in [Callers -> SUBSET Jobs]
  BY <1>0 DEF TypeOK, CallsType
<1>c. PassesAreCurrent
  BY DEF StampInv
<1>1. ASSUME NEW r \in TestRuns
      PROVE  passedAt'[r] = passedAt[r] \/ (/\ passedAt'[r] = ladderAttempt'[r]
                                            /\ LadderEnabled => status'[r] = "PASSED")
  <2>1. CASE UNCHANGED passedAt
    BY <2>1
  <2>2. ASSUME NEW c \in Callers, Stamp(c)
        PROVE  passedAt'[r] = passedAt[r] \/ (/\ passedAt'[r] = ladderAttempt'[r]
                                              /\ LadderEnabled => status'[r] = "PASSED")
    BY <1>0, <1>c, <2>2, StampWrites
  <2> QED
    BY <1>0, <2>1, <2>2 DEF Move, RunMove
<1>2. StampIsCurrent'
  <2> SUFFICES ASSUME NEW r \in TestRuns, passedAt'[r] # 0
               PROVE  passedAt'[r] = ladderAttempt'[r] /\ (LadderEnabled => status'[r] = "PASSED")
    BY DEF StampIsCurrent
  <2>1. CASE passedAt'[r] = passedAt[r]
    BY <2>1, CurrentStays DEF StampInv, StampIsCurrent
  <2> QED
    BY <1>1, <2>1
<1>3. PassesAreCurrent'
  <2> SUFFICES ASSUME NEW c \in Callers, NEW r \in TestRuns, NEW a \in Attempts,
                      <<r, a>> \in passes'[c]
               PROVE  a = ladderAttempt'[r] /\ (LadderEnabled => status'[r] = "PASSED")
    BY DEF PassesAreCurrent
  <2>1. CASE <<r, a>> \in passes[c]
    BY <1>c, <2>1, CurrentStays DEF PassesAreCurrent
  <2>2. CASE OnRunComplete(c)
    <3>1. UNCHANGED <<status, ladderAttempt>>
      BY <2>2 DEF OnRunComplete, runVars
    <3>2. passes'[c] \in {passes[c], {}, UnstampedPasses}
      BY <1>b, <2>2 DEF OnRunComplete, Proceed, EnqueueAll, Return, Goto, callVars
    <3>3. <<r, a>> \in UnstampedPasses => a = ladderAttempt[r] /\ status[r] = "PASSED"
      BY DEF UnstampedPasses
    <3> QED
      BY <2>1, <3>1, <3>2, <3>3
  <2> QED
    BY <1>0, <2>1, <2>2 DEF Move, CallsMove, CallMove
<1>4. ASSUME Closing, NEW r \in TestRuns, status'[r] = "PASSED"
      PROVE  status[r] = "PASSED" /\ ladderAttempt'[r] = ladderAttempt[r]
  <2>1. IsTerminal(status[r]) /\ RowMove(r)
    BY <1>0, <1>4 DEF CloseInv, ClosedStays, AllDone, Move, RowsMove
  <2>2. status[r] = "PASSED"
    BY <1>4, <2>1, VerdictMoves DEF CloseInv, ResetBy
  <2> QED
    BY <2>2, CurrentStays
<1>5. PassesAreKnown'
  <2> SUFFICES ASSUME NEW c \in Callers, cpc'[c] = "stamp", NEW r \in TestRuns, status'[r] = "PASSED"
               PROVE  passedAt'[r] # 0 \/ <<r, ladderAttempt'[r]>> \in passes'[c]
    BY DEF PassesAreKnown
  <2>1. CASE Kept(c)
    <3>1. status[r] = "PASSED" /\ ladderAttempt'[r] = ladderAttempt[r]
      BY <1>4, <2>1 DEF Kept, Closing
    <3>2. passedAt[r] # 0 \/ <<r, ladderAttempt[r]>> \in passes[c]
      BY <2>1, <3>1 DEF Kept, StampInv, PassesAreKnown
    <3> QED
      BY <1>1, <1>a, <2>1, <3>1, <3>2 DEF Kept
  <2>2. CASE OnRunComplete(c)
    <3>1. UNCHANGED <<status, ladderAttempt, passedAt>> /\ cpc[c] = "idle"
      BY <2>2 DEF OnRunComplete, runVars
    <3>2. passes'[c] = UnstampedPasses
      BY <1>b, <2>2, <3>1 DEF OnRunComplete, Proceed, EnqueueAll, Return, Goto, callVars
    <3> QED
      BY <3>1, <3>2 DEF UnstampedPasses
  <2>3. ~ClaimWave(c) /\ ~Stamp(c)
    BY <1>b DEF ClaimWave, Stamp, Proceed, Return, Goto
  <2> QED
    BY <1>0, <2>1, <2>2, <2>3 DEF Move, CallsMove, CallMove
<1>6. PassesAreStamped'
  <2> SUFFICES ASSUME frStatus' = "COMPLETE" \/ \E c \in Callers : cpc'[c] = "complete",
                      NEW r \in TestRuns, status'[r] = "PASSED"
               PROVE  passedAt'[r] = ladderAttempt'[r]
    BY DEF PassesAreStamped
  <2>1. CASE frStatus = "COMPLETE" \/ \E c \in Callers : cpc[c] = "complete"
    <3>1. status[r] = "PASSED" /\ ladderAttempt'[r] = ladderAttempt[r]
      BY <1>4, <2>1 DEF Closing
    <3>2. passedAt[r] = ladderAttempt[r]
      BY <2>1, <3>1 DEF StampInv, PassesAreStamped
    <3> QED
      BY <1>1, <3>1, <3>2
  <2>2. ASSUME NEW c \in Callers, Stamp(c) PROVE passedAt'[r] = ladderAttempt'[r]
    <3>1. cpc[c] = "stamp"
      BY <2>2 DEF Stamp
    <3>2. status[r] = "PASSED" /\ ladderAttempt'[r] = ladderAttempt[r]
      BY <1>4, <3>1 DEF Closing
    <3>3. passedAt[r] # 0 \/ <<r, ladderAttempt[r]>> \in passes[c]
      BY <3>1, <3>2 DEF StampInv, PassesAreKnown
    <3>4. passedAt[r] # 0 => passedAt[r] = ladderAttempt[r]
      BY DEF StampInv, StampIsCurrent
    <3> QED
      BY <1>0, <1>c, <2>2, <3>2, <3>3, <3>4, StampWrites
  <2>3. ASSUME NEW c \in Callers, cpc'[c] = "complete", ~Stamp(c) PROVE cpc[c] = "complete"
    <3>1. ~OnRunComplete(c) /\ ~ClaimWave(c)
      BY <1>b, <2>3 DEF OnRunComplete, ClaimWave, Proceed, EnqueueAll, Return, Goto, callVars
    <3> QED
      BY <1>0, <2>3, <3>1 DEF Move, CallsMove, CallMove, Kept
  <2> QED
    BY <1>0, <2>1, <2>2, <2>3 DEF Move, RunMove
<1> QED
  BY <1>2, <1>3, <1>5, <1>6 DEF StampInv

(* In a COMPLETE FeatureRun every pass tells the wave it passed at.        *)
THEOREM PassesTellTheirWave ==
  ASSUME OneCall, Undisturbed PROVE Spec => []StampedPasses
<1>1. Init => StampInv
  BY DEF Init, StampInv, StampIsCurrent, PassesAreCurrent, PassesAreKnown, PassesAreStamped
<1>2. BaseInv /\ CloseInv /\ StampInv /\ [Next]_vars => StampInv'
  BY StepKeepsStamps
<1>3. StampInv => StampedPasses
  BY DEF StampInv, PassesAreStamped, StampedPasses
<1>4. Spec => [](BaseInv /\ ExecInv /\ CloseInv)
  BY Closes
<1> QED
  BY <1>1, <1>2, <1>3, <1>4, PTL DEF Spec

------------------------------------------------------------------------------
(* Every failed test was attempted in the wave before the next one opens.  *)

ExecutingWasClaimed ==
  \A w \in Workers : wpc[w] = "exec" => claims[RunOf(w)][ladderAttempt[RunOf(w)]] = 1
FailedWasClaimed ==
  \A r \in TestRuns : status[r] \in FAILED_STATUSES => claims[r][ladderAttempt[r]] = 1
OpenIsCurrent ==
  \A r \in TestRuns \ Quarantined : status[r] \notin {"PASSED", "CANCELLED"} =>
    \/ ladderAttempt[r] = attempt
    \/ \E c \in Callers : cpc[c] = "resetWave" /\ r \in work[c]

ReportInv == ExecutingWasClaimed /\ FailedWasClaimed /\ OpenIsCurrent

(* A claim counts one execution of its own row and leaves others alone.    *)
LEMMA ClaimCounts ==
  ASSUME BaseInv, NEW w \in Workers, Claim(w)
  PROVE  /\ UNCHANGED ladderAttempt /\ RunOf(w) \in TestRuns
         /\ claims'[RunOf(w)][ladderAttempt[RunOf(w)]] = 1
         /\ \A r \in TestRuns : r # RunOf(w) => claims'[r] = claims[r]
<1> DEFINE r == RunOf(w)
           a == ladderAttempt[r]
<1>1. r \in TestRuns /\ UNCHANGED ladderAttempt /\ TypeOK
  BY SlotRuns DEF BaseInv, Claim
<1>2. claims[r][a] = 0 /\ a \in Attempts
  BY <1>1 DEF BaseInv, WaveOwnership, ReadyIsUnclaimed, Claim, TypeOK, RowsType
<1>3. claims' = [claims EXCEPT ![r] = [claims[r] EXCEPT ![a] = claims[r][a] + 1]]
  BY DEF Claim
<1>4. claims \in [TestRuns -> [Attempts -> Nat]]
  BY <1>1 DEF TypeOK, RowsType
<1> HIDE DEF r, a
<1>5. claims'[r][a] = 1 /\ \A q \in TestRuns : q # r => claims'[q] = claims[q]
  BY <1>1, <1>2, <1>3, <1>4
<1> QED
  BY <1>1, <1>5 DEF r, a

LEMMA StepKeepsReports ==
  ASSUME OneCall, Undisturbed, LadderEnabled, "api" \notin Faults,
         BaseInv, ExecInv, CloseInv, ReportInv, [Next]_vars
  PROVE  ReportInv'
<1>0. TypeOK /\ Move /\ CallsPossible
  BY StepMoves DEF BaseInv
<1>1. ExecutingWasClaimed'
  <2> SUFFICES ASSUME NEW w \in Workers, wpc'[w] = "exec"
               PROVE  claims'[RunOf(w)'][ladderAttempt'[RunOf(w)']] = 1
    BY DEF ExecutingWasClaimed
  <2> DEFINE r == RunOf(w)
  <2>1. RunOf(w)' = r /\ r \in TestRuns /\ (wpc[w] = "exec" \/ Claim(w))
    BY <1>0, SlotRuns DEF Move, SlotsMove, SlotMove, RunOf, Claim
  <2>2. CASE Claim(w)
    BY <2>1, <2>2, ClaimCounts
  <2>3. CASE wpc[w] = "exec"
    <3>1. claims[r][ladderAttempt[r]] = 1 /\ ~Claimable(r) /\ status[r] \notin FAILED_STATUSES
      BY <2>3 DEF ReportInv, ExecutingWasClaimed, ExecInv, ExecutingIsHeld
    <3>2. ladderAttempt'[r] = ladderAttempt[r]
      BY <1>0, <2>1, <3>1 DEF Move, RowsMove, RowMove, ResetBy
    <3>3. ASSUME NEW v \in Workers, Claim(v) PROVE claims'[r] = claims[r]
      BY <2>1, <3>1, <3>3, ClaimCounts DEF Claim
    <3>4. claims'[r] = claims[r]
      BY <1>0, <3>3 DEF Move, RunMove
    <3> QED
      BY <2>1, <3>1, <3>2, <3>4
  <2> QED
    BY <2>1, <2>2, <2>3
<1>2. FailedWasClaimed'
  <2> SUFFICES ASSUME NEW r \in TestRuns, status'[r] \in FAILED_STATUSES
               PROVE  claims'[r][ladderAttempt'[r]] = 1
    BY DEF FailedWasClaimed
  <2>1. RowMove(r)
    BY <1>0 DEF Move, RowsMove
  <2>2. ladderAttempt'[r] = ladderAttempt[r]
    BY <2>1 DEF RowMove, ResetBy, FAILED_STATUSES
  <2>3. CASE status'[r] = status[r]
    <3>1. claims[r][ladderAttempt[r]] = 1
      BY <2>3 DEF ReportInv, FailedWasClaimed
    <3>2. ASSUME NEW v \in Workers, Claim(v) PROVE claims'[r] = claims[r]
      BY <2>3, <3>2, ClaimCounts DEF Claim, Claimable, FAILED_STATUSES
    <3>3. claims'[r] = claims[r]
      BY <1>0, <3>2 DEF Move, RunMove
    <3> QED
      BY <2>2, <3>1, <3>3
  <2>4. ASSUME NEW w \in Workers, EndedBy(w, r) PROVE claims'[r][ladderAttempt'[r]] = 1
    BY <2>2, <2>4 DEF EndedBy, ReportInv, ExecutingWasClaimed
  <2>5. \A w \in Workers : ~FailedBy(w, r)
    BY DEF FailedBy, OneCall
  <2>6. \A c \in Callers : ~ReapedBy(c, r)
    BY <1>0 DEF ReapedBy, Undisturbed, CallsPossible, Possible
  <2> QED
    BY <2>1, <2>3, <2>4, <2>5, <2>6
       DEF RowMove, MarkedQueued, ClaimedBy, StoppedBy, CancelledBy, ResetBy, FAILED_STATUSES
<1>3. OpenIsCurrent'
  <2> SUFFICES ASSUME NEW r \in TestRuns \ Quarantined, status'[r] \notin {"PASSED", "CANCELLED"}
               PROVE  \/ ladderAttempt'[r] = attempt'
                      \/ \E c \in Callers : cpc'[c] = "resetWave" /\ r \in work'[c]
    BY DEF OpenIsCurrent
  <2>0. /\ cpc \in [Callers -> CallSteps] /\ work \in [Callers -> SUBSET TestRuns]
        /\ wave \in [Callers -> Attempts] /\ Attempts \subseteq Nat
    BY <1>0, ConstantTypes DEF TypeOK, CallsType
  <2>1. RowMove(r)
    BY <1>0 DEF Move, RowsMove
  <2>2. CASE \E c \in Callers : ResetWave(c)
    <3>1. PICK c \in Callers : ResetWave(c)
      BY <2>2
    <3>2. AllDone /\ work[c] = FailedRuns /\ wave[c] = attempt
      BY <3>1 DEF CloseInv, WaveHeld, ResetWave
    <3>3. \A d \in Callers : d = c
      BY DEF OneCall
    <3>4. UNCHANGED attempt
      BY <3>1 DEF ResetWave, frVars
    <3>5. CASE r \in Resettable(c)
      BY <3>1, <3>2, <3>4, <3>5 DEF ResetWave
    <3>6. CASE r \notin Resettable(c)
      <4>1. status'[r] = status[r] /\ ladderAttempt'[r] = ladderAttempt[r]
        BY <3>1, <3>6 DEF ResetWave
      <4>2. r \notin FailedRuns
        BY <3>2, <3>6 DEF Resettable, FailedRuns
      <4>3. ladderAttempt[r] = attempt
        BY <3>2, <3>3, <4>1, <4>2 DEF ReportInv, OpenIsCurrent
      <4> QED
        BY <3>4, <4>1, <4>3
    <3> QED
      BY <3>5, <3>6
  <2>3. CASE \E c \in Callers : ClaimWave(c) /\ WaveUnclaimed(c)
    <3>1. PICK c \in Callers : ClaimWave(c) /\ WaveUnclaimed(c)
      BY <2>3
    <3>2. AllDone /\ work[c] = FailedRuns
      BY <3>1 DEF CloseInv, WaveHeld, ClaimWave
    <3>3. UNCHANGED status /\ cpc'[c] = "resetWave" /\ work'[c] = work[c]
      BY <2>0, <3>1 DEF ClaimWave, Proceed, Goto, runVars
    <3>4. r \in FailedRuns
      BY <3>2, <3>3 DEF AllDone, FailedRuns, IsTerminal, TERMINAL_RUN_STATUSES, FAILED_STATUSES
    <3> QED
      BY <3>2, <3>3, <3>4
  <2>4. CASE /\ ~\E c \in Callers : ResetWave(c)
             /\ ~\E c \in Callers : ClaimWave(c) /\ WaveUnclaimed(c)
    <3>1. attempt' = attempt /\ ladderAttempt'[r] = ladderAttempt[r]
      BY <1>0, <2>1, <2>4 DEF Move, RunMove, RowMove, ResetBy
    <3>2. status[r] \notin {"PASSED", "CANCELLED"}
      <4>1. status[r] \in {"PASSED", "CANCELLED"} => status'[r] = status[r]
        BY VerdictMoves DEF CloseInv, ResetBy, FAILED_STATUSES, IsTerminal, TERMINAL_RUN_STATUSES
      <4> QED
        BY <4>1
    <3>3. CASE ladderAttempt[r] = attempt
      BY <3>1, <3>3
    <3>4. ASSUME NEW c \in Callers, cpc[c] = "resetWave", r \in work[c]
          PROVE  cpc'[c] = "resetWave" /\ r \in work'[c]
      BY <1>0, <2>4, <3>4 DEF Move, CallsMove, CallMove, Kept, ApiCrash, Fault
    <3> QED
      BY <3>2, <3>3, <3>4 DEF ReportInv, OpenIsCurrent
  <2> QED
    BY <2>2, <2>3, <2>4
<1> QED
  BY <1>1, <1>2, <1>3 DEF ReportInv

(* When a wave opens, no test is unfinished and each failed one was        *)
(* attempted in the wave before.                                           *)
THEOREM WavesReport ==
  ASSUME OneCall, Undisturbed, "api" \notin Faults
  PROVE  Spec => WaveReports
<1> DEFINE Report ==
      attempt' > attempt =>
        /\ \A r \in TestRuns : status[r] \notin UNFINISHED_STATUSES
        /\ \A r \in FailedRuns : claims[r][attempt] = 1
<1>1. ASSUME BaseInv, ExecInv, CloseInv, LadderEnabled => ReportInv, [Next]_vars
      PROVE  Report
  <2> SUFFICES ASSUME attempt' > attempt
               PROVE  /\ \A r \in TestRuns : status[r] \notin UNFINISHED_STATUSES
                      /\ \A r \in FailedRuns : claims[r][attempt] = 1
    OBVIOUS
  <2>1. attempt \in Nat /\ Move /\ CallsPossible
    BY <1>1, StepMoves, ConstantTypes DEF BaseInv, TypeOK, FeatureRunType
  <2>2. PICK c \in Callers : ClaimWave(c)
    BY <2>1 DEF Move, RunMove
  <2>3. LadderEnabled /\ AllDone /\ cpc[c] = "claimWave"
    BY <1>1, <2>1, <2>2 DEF ClaimWave, CallsPossible, Possible, CloseInv, WaveHeld
  <2>4. \A r \in FailedRuns : ladderAttempt[r] = attempt /\ claims[r][ladderAttempt[r]] = 1
    BY <1>1, <2>3
       DEF OneCall, ReportInv, OpenIsCurrent, FailedWasClaimed, FailedRuns, FAILED_STATUSES
  <2> QED
    BY <2>3, <2>4 DEF AllDone, IsTerminal, TERMINAL_RUN_STATUSES, UNFINISHED_STATUSES
<1>2. Init => ReportInv
  BY DEF Init, ReportInv, ExecutingWasClaimed, FailedWasClaimed, OpenIsCurrent, FAILED_STATUSES
<1>3. ASSUME BaseInv, ExecInv, CloseInv, LadderEnabled => ReportInv, [Next]_vars
      PROVE  (LadderEnabled => ReportInv)'
  BY <1>3, StepKeepsReports
<1>4. Spec => [](BaseInv /\ ExecInv /\ CloseInv)
  BY Closes
<1>5. BaseInv /\ ExecInv /\ CloseInv /\ (LadderEnabled => ReportInv) /\ [Next]_vars => [Report]_vars
  BY <1>1
<1>6. Spec => [][Report]_vars
  <2> HIDE DEF Report
  <2> QED
    BY <1>2, <1>3, <1>4, <1>5, PTL DEF Spec
<1> QED
  BY <1>6 DEF WaveReports

------------------------------------------------------------------------------
(* The window: how much calls that select at once can hold between them.   *)

(* A union of a few small sets is small.                                   *)
LEMMA UnionBound ==
  ASSUME NEW D, IsFiniteSet(D), NEW n \in Nat, NEW f,
         \A d \in D : IsFiniteSet(f[d]) /\ Cardinality(f[d]) <= n
  PROVE  /\ IsFiniteSet(UNION {f[d] : d \in D})
         /\ Cardinality(UNION {f[d] : d \in D}) <= Cardinality(D) * n
<1> DEFINE U == UNION {f[d] : d \in D}
           place == [d \in D |-> CHOOSE p : p \in Injection(f[d], 1..n)]
           owner == [x \in U |-> CHOOSE d \in D : x \in f[d]]
           g == [x \in U |-> <<owner[x], place[owner[x]][x]>>]
<1>1. ASSUME NEW d \in D PROVE place[d] \in Injection(f[d], 1..n)
  <2> DEFINE m == Cardinality(f[d])
  <2>1. m \in Nat /\ m <= n /\ ExistsBijection(1..m, f[d])
    BY FS_CardinalityType
  <2>2. ExistsBijection(f[d], 1..m)
    BY <2>1, Fun_ExistsBijSymmetric
  <2>3. PICK p : p \in Injection(f[d], 1..m)
    BY <2>2 DEF ExistsBijection, Bijection
  <2>4. p \in [f[d] -> 1..m] /\ \A a, b \in f[d] : p[a] = p[b] => a = b
    BY <2>3 DEF Injection, IsInjective
  <2>5. p \in [f[d] -> 1..n]
    BY <2>1, <2>4
  <2>6. p \in Injection(f[d], 1..n)
    BY <2>4, <2>5, Fun_IsInj
  <2> QED
    BY <2>6
<1>2. \A x \in U : owner[x] \in D /\ x \in f[owner[x]]
  OBVIOUS
<1>3. \A d \in D : /\ place[d] \in [f[d] -> 1..n]
                   /\ \A a, b \in f[d] : place[d][a] = place[d][b] => a = b
  <2> HIDE DEF place
  <2> QED
    BY <1>1 DEF Injection, IsInjective
<1> HIDE DEF place, owner
<1>4. g \in [U -> D \X (1..n)]
  BY <1>2, <1>3
<1>5. ASSUME NEW a \in U, NEW b \in U, g[a] = g[b] PROVE a = b
  BY <1>2, <1>3, <1>5
<1> HIDE DEF g, U
<1>6. g \in Injection(U, D \X (1..n))
  BY <1>4, <1>5, Fun_IsInj
<1>7. /\ IsFiniteSet(D \X (1..n))
      /\ Cardinality(D \X (1..n)) = Cardinality(D) * n
  <2>1. IsFiniteSet(1..n) /\ Cardinality(1..n) = n
    BY FS_Interval
  <2> QED
    BY <2>1, FS_Product
<1>8. IsFiniteSet(U) /\ Cardinality(U) <= Cardinality(D) * n
  BY <1>6, <1>7, FS_Injection
<1> QED
  BY <1>8 DEF U

(* The tests a call has selected and not marked yet.                       *)
Selecting == {"enqueue", "resume", "wake", "sweepEnqueue"}
Held(c) == mark[c] \cup (IF cpc[c] \in Selecting THEN work[c] ELSE {})
HeldPending == [c \in Callers |-> Held(c) \cap Pending]

(* In flight, or about to be: selected before it is counted.               *)
Taken == InFlight \cup UNION {HeldPending[c] : c \in Callers}

(* Each call holds at most a window, and a pending test that has a job is  *)
(* still held by the call that added it.                                   *)
WindowInv ==
  /\ attempt = 1
  /\ \A w \in Workers : wpc[w] # "idle" => jobs[wjob[w]] # "absent"
  /\ \A r \in Pending, a \in Attempts :
       jobs[<<r, a>>] # "absent" => \E c \in Callers : r \in mark[c]
  /\ \A c \in Callers : mark[c] # {} => cpc[c] \in {"enqueue", "sweepEnqueue"}
  /\ \A c \in Callers : Cardinality(HeldPending[c]) <= Concurrency
  /\ Cardinality(Taken) <= Cardinality(Callers) * Concurrency

LEMMA Counting ==
  ASSUME NEW S \in SUBSET TestRuns
  PROVE  /\ IsFiniteSet(S) /\ Cardinality(S) \in Nat
         /\ \A T \in SUBSET S : Cardinality(T) <= Cardinality(S)
<1>1. IsFiniteSet(S)
  BY RunsAssumption, FS_Subset
<1> QED
  BY <1>1, FS_CardinalityType, FS_Subset

(* What a call may select: nothing, or no more than fits beside what is in *)
(* flight.                                                                 *)
Fits(S) ==
  /\ S \in SUBSET Pending
  /\ S = {} \/ Cardinality(InFlight \cup S) <= Concurrency

LEMMA SelectionFits ==
  ASSUME NEW S \in FirstByDuration(Pending, Slots(Concurrency)) PROVE Fits(S)
<1>1. /\ S \in SUBSET Pending /\ Pending \in SUBSET TestRuns /\ InFlight \in SUBSET TestRuns
      /\ Cardinality(S) = IF Cardinality(Pending) < Slots(Concurrency)
                            THEN Cardinality(Pending) ELSE Slots(Concurrency)
  BY SelectionTypes DEF FirstByDuration
<1>2. /\ Cardinality(S) \in Nat /\ Cardinality(Pending) \in Nat /\ Cardinality(InFlight) \in Nat
      /\ IsFiniteSet(S) /\ IsFiniteSet(InFlight) /\ IsFiniteSet(S \cap InFlight)
      /\ Cardinality(S \cap InFlight) \in Nat
  BY <1>1, Counting
<1>3. Concurrency \in Nat
  BY BudgetAssumption
<1>4. CASE Slots(Concurrency) = 0
  <2>1. Cardinality(S) = 0
    BY <1>1, <1>2, <1>4
  <2>2. S = {}
    BY <1>2, <2>1, FS_EmptySet
  <2> QED
    BY <1>1, <2>2 DEF Fits
<1>5. CASE Slots(Concurrency) # 0
  <2>1. Cardinality(S) <= Concurrency - Cardinality(InFlight)
    BY <1>1, <1>2, <1>3, <1>5 DEF Slots
  <2>2. Cardinality(InFlight \cup S)
          = Cardinality(InFlight) + Cardinality(S) - Cardinality(InFlight \cap S)
    BY <1>2, FS_Union
  <2>3. Cardinality(InFlight \cap S) = Cardinality(S \cap InFlight)
    OBVIOUS
  <2>4. Cardinality(InFlight \cup S) \in Nat
    BY <1>1, Counting
  <2> QED
    BY <1>1, <1>2, <1>3, <2>1, <2>2, <2>3, <2>4 DEF Fits
<1> QED
  BY <1>4, <1>5
(* What enters flight was held: a call marks it, or a slot claims its job. *)
LEMMA FlightMoves ==
  ASSUME ~LadderEnabled, BaseInv, WindowInv, [Next]_vars
  PROVE  Pending' \subseteq Pending /\ InFlight' \subseteq Taken
<1>0. TypeOK /\ Move /\ CallsPossible
  BY StepMoves DEF BaseInv
<1>1. \A r \in TestRuns, c \in Callers : ~ResetBy(c, r)
  BY <1>0 DEF ResetBy, ResetWave, CallsPossible, Possible
<1>2. Pending' \subseteq Pending
  BY <1>0, <1>1
     DEF Pending, Move, RowsMove, RowMove, MarkedQueued, ClaimedBy, EndedBy, FailedBy,
         StoppedBy, CancelledBy, ReapedBy, IsTerminal, TERMINAL_RUN_STATUSES
<1> DEFINE Flies(x) == status'[x] \in IN_FLIGHT_STATUSES /\ status[x] \notin IN_FLIGHT_STATUSES
<1>3. ASSUME NEW x \in TestRuns, Flies(x)
      PROVE  MarkedQueued(x) \/ \E w \in Workers : ClaimedBy(w, x) /\ status[x] = "PENDING"
  BY <1>0, <1>1, <1>3
     DEF Move, RowsMove, RowMove, ClaimedBy, Claim, Claimable, EndedBy, FailedBy, StoppedBy,
         CancelledBy, ReapedBy, IsTerminal, TERMINAL_RUN_STATUSES, IN_FLIGHT_STATUSES
<1>4. ASSUME NEW c \in Callers, NEW x \in mark[c], x \in Pending PROVE x \in Taken
  BY <1>4 DEF Taken, HeldPending, Held
<1>5. ASSUME NEW x \in TestRuns, NEW w \in Workers, ClaimedBy(w, x), status[x] = "PENDING"
      PROVE  x \in Taken
  <2>1. wjob[w] \in Jobs /\ jobs[wjob[w]] # "absent"
    BY <1>0, <1>5 DEF ClaimedBy, Claim, TypeOK, SlotsType, WindowInv
  <2>2. PICK a \in Attempts : wjob[w] = <<x, a>>
    BY <1>5, <2>1 DEF ClaimedBy, RunOf, Jobs
  <2>3. x \in Pending
    BY <1>5 DEF Pending
  <2> QED
    BY <1>4, <2>1, <2>2, <2>3 DEF WindowInv
<1>6. ASSUME NEW x \in TestRuns, MarkedQueued(x) PROVE x \in Taken
  BY <1>4, <1>6 DEF MarkedQueued, MarkQueued, Pending
<1>7. ASSUME NEW x \in InFlight' PROVE x \in Taken
  <2>1. x \in TestRuns /\ status'[x] \in IN_FLIGHT_STATUSES
    BY <1>7 DEF InFlight
  <2>2. CASE x \in InFlight
    BY <2>2 DEF Taken
  <2>3. CASE x \notin InFlight
    BY <1>3, <1>5, <1>6, <2>1, <2>3 DEF InFlight
  <2> QED
    BY <2>2, <2>3
<1> QED
  BY <1>2, <1>7

(* A call without rows to mark selects at most the tests of S anew.        *)
Selects(c, S) ==
  /\ UNCHANGED <<jobs, mark>> /\ mark[c] = {}
  /\ \A d \in Callers \ {c} : cpc'[d] = cpc[d] /\ work'[d] = work[d]
  /\ cpc'[c] \in Selecting =>
       \/ cpc[c] \in Selecting /\ work'[c] \subseteq work[c]
       \/ work'[c] \subseteq S

(* The steps every call is built from.                                     *)
LEMMA CallsSelect ==
  ASSUME CallsType, NEW c \in Callers, UNCHANGED jobs, mark[c] = {}
  PROVE  /\ \A step \in CallSteps \ Selecting :
              Goto(c, step) /\ UNCHANGED <<work, mark>> => Selects(c, {})
         /\ \A step \in CallSteps : \A S, a : Proceed(c, step, S, a) => Selects(c, S)
         /\ \A step \in CallSteps \ Selecting : \A S, a :
              Proceed(c, step, S, a) => Selects(c, {})
         /\ Return(c) => Selects(c, {})
         /\ \A S : EnqueueAll(c, S) => Selects(c, S)
<1> USE DEF Selects, CallsType
<1>1. ASSUME NEW step \in CallSteps \ Selecting, Goto(c, step), UNCHANGED <<work, mark>>
      PROVE  Selects(c, {})
  BY <1>1 DEF Goto
<1>2. ASSUME NEW step \in CallSteps, NEW S, NEW a, Proceed(c, step, S, a) PROVE Selects(c, S)
  BY <1>2 DEF Proceed, Goto
<1>3. ASSUME NEW step \in CallSteps \ Selecting, NEW S, NEW a, Proceed(c, step, S, a)
      PROVE  Selects(c, {})
  BY <1>3 DEF Proceed, Goto
<1>4. Return(c) => Selects(c, {})
  BY DEF Return, Goto, Selecting
<1>5. ASSUME NEW S, EnqueueAll(c, S) PROVE Selects(c, S)
  <2>1. "enqueue" \in CallSteps
    BY DEF CallSteps
  <2>2. CASE Return(c)
    BY <2>2 DEF Return, Goto, Selecting
  <2> QED
    BY <1>2, <1>5, <2>1, <2>2 DEF EnqueueAll
<1> QED
  BY <1>1, <1>2, <1>3, <1>4, <1>5

(* A selection that fits, made from the rows as they still are.            *)
SelectsFitting(c) == UNCHANGED status /\ \E S : Fits(S) /\ Selects(c, S)

(* Without ladder, calls select what fits beside the tests in flight.      *)
LEMMA CompletionSelects ==
  ASSUME ~LadderEnabled, BaseInv, WindowInv, NEW c \in Callers
  PROVE  /\ OnRunComplete(c) => SelectsFitting(c) \/ Selects(c, {})
         /\ Stamp(c) => Selects(c, {})
         /\ Complete(c) => Selects(c, {})
         /\ FailFastCancel(c) => Selects(c, {})
<1>0. CallsType /\ (mark[c] # {} => cpc[c] \in {"enqueue", "sweepEnqueue"}) /\ attempt = 1
  BY DEF BaseInv, TypeOK, WindowInv
<1> USE <1>0, CallsSelect DEF frVars, runVars, queueVars, workerVars, callVars, Selecting
<1>1. ASSUME OnRunComplete(c) PROVE SelectsFitting(c) \/ Selects(c, {})
  <2>0. UNCHANGED <<jobs, status>> /\ ~WaveDue /\ mark[c] = {}
    BY <1>1 DEF OnRunComplete, WaveDue
  <2>1. CASE Goto(c, "stamp") /\ UNCHANGED <<wave, work, mark>>
    BY <2>0, <2>1 DEF Goto, Selects, CallsType
  <2>2. CASE Proceed(c, "failFast", Pending, 1)
    BY <2>0, <2>2 DEF Proceed, Goto, Selects, CallsType
  <2>3. ASSUME NEW first \in TopUp, EnqueueAll(c, first) PROVE SelectsFitting(c)
    <3>1. Fits(first)
      BY SelectionFits DEF TopUp, LadderBudget
    <3>2. Selects(c, first)
      BY <2>0, <2>3
    <3> QED
      BY <2>0, <3>1, <3>2 DEF SelectsFitting
  <2>4. CASE UNCHANGED callVars
    BY <2>0, <2>4 DEF Selects
  <2> QED
    BY <1>1, <2>0, <2>1, <2>2, <2>3, <2>4 DEF OnRunComplete
<1>2. Stamp(c) => Selects(c, {})
  BY DEF Stamp, CallSteps
<1>3. Complete(c) => Selects(c, {})
  BY DEF Complete
<1>4. FailFastCancel(c) => Selects(c, {})
  BY DEF FailFastCancel
<1> QED
  BY <1>1, <1>2, <1>3, <1>4

LEMMA RequestsSelect ==
  ASSUME BaseInv, WindowInv, NEW c \in Callers,
         RequestStarts(c) \/ RequestContinues(c)
  PROVE  SelectsFitting(c) \/ Selects(c, {})
<1>0. CallsType /\ (mark[c] # {} => cpc[c] \in {"enqueue", "sweepEnqueue"})
  BY DEF BaseInv, TypeOK, WindowInv
<1> USE <1>0, CallsSelect DEF frVars, runVars, queueVars, workerVars, callVars, Selecting
<1>1. PauseRead(c) => Selects(c, {})
  BY DEF PauseRead, Request, CallSteps
<1>2. ASSUME ResumeRead(c) PROVE SelectsFitting(c)
  <2>1. PICK first \in FirstByDuration(Pending, Slots(Concurrency)) : Proceed(c, "resume", first, 1)
    BY <1>2 DEF ResumeRead
  <2>2. Selects(c, first) /\ UNCHANGED status
    BY <1>2, <2>1 DEF ResumeRead, Request, CallSteps
  <2> QED
    BY <2>2, SelectionFits DEF SelectsFitting
<1>3. StopRead(c) => Selects(c, {})
  BY DEF StopRead, Request, CallSteps
<1>4. ASSUME NEW r \in TestRuns, SkipRead(c, r) PROVE Selects(c, {})
  BY <1>4 DEF SkipRead, Request, CallSteps
<1>5. ASSUME NEW r \in TestRuns, CancelRead(c, r) PROVE Selects(c, {})
  BY <1>5 DEF CancelRead, Request, CallSteps
<1>6. Heartbeat(c) => Selects(c, {})
  BY DEF Heartbeat, Selects
<1>7. Pause(c) => Selects(c, {})
  BY DEF Pause, RequestStep
<1>8. ASSUME Resume(c) PROVE Selects(c, {})
  BY <1>8 DEF Resume, RequestStep, EnqueueAll, Return, Proceed, Goto, Selects, CallsType
<1>9. StopRows(c) => Selects(c, {})
  BY DEF StopRows, RequestStep, CallSteps
<1>10. StopRun(c) => Selects(c, {})
  BY DEF StopRun, RequestStep
<1>11. Skip(c) => Selects(c, {})
  BY DEF Skip, CancelRow, RequestStep
<1>12. Cancel(c) => Selects(c, {})
  BY DEF Cancel, CancelRow, RequestStep
<1> QED
  BY <1>1, <1>2, <1>3, <1>4, <1>5, <1>6, <1>7, <1>8, <1>9, <1>10, <1>11, <1>12
     DEF RequestStarts, RequestContinues

(* The sweep takes up one test of a FeatureRun with nothing in flight.     *)
LEMMA SweepsSelect ==
  ASSUME BaseInv, WindowInv, NEW c \in Callers, SweepStart(c) \/ SweepContinues(c)
  PROVE  SelectsFitting(c) \/ Selects(c, {})
<1>0. CallsType /\ (mark[c] # {} => cpc[c] \in {"enqueue", "sweepEnqueue"})
  BY DEF BaseInv, TypeOK, WindowInv
<1> USE <1>0, CallsSelect DEF frVars, runVars, queueVars, workerVars, callVars, Selecting
<1>1. ASSUME SweepStart(c) PROVE SelectsFitting(c) \/ Selects(c, {})
  <2>1. UNCHANGED <<jobs, status>> /\ mark[c] = {}
    BY <1>1 DEF SweepStart
  <2>2. CASE Proceed(c, "idlePauseRead", {}, 1)
    BY <2>1, <2>2 DEF CallSteps
  <2>3. ASSUME Severed, NEW r \in Pending, NEW step \in CallSteps, Proceed(c, step, {r}, 1)
        PROVE  SelectsFitting(c)
    <3>1. InFlight \cup {r} = {r} /\ Cardinality({r}) = 1
      BY <2>3, FS_Singleton DEF Severed
    <3>2. Fits({r})
      BY <3>1, BudgetAssumption DEF Fits
    <3> QED
      BY <2>1, <2>3, <3>2 DEF SelectsFitting
  <2>4. "wake" \in CallSteps /\ "sweepEnqueue" \in CallSteps
    BY DEF CallSteps
  <2> QED
    BY <1>1, <2>2, <2>3, <2>4 DEF SweepStart
<1>2. Wake(c) => Selects(c, {})
  BY DEF Wake, RequestStep, Goto, Selects, CallsType
<1>3. IdlePauseRead(c) => Selects(c, {})
  BY DEF IdlePauseRead, RequestStep, CallSteps
<1>4. IdlePause(c) => Selects(c, {})
  BY DEF IdlePause, RequestStep, CallSteps
<1>5. ReapRead(c) => Selects(c, {})
  BY DEF ReapRead, RequestStep, CallSteps
<1>6. Reap(c) => Selects(c, {})
  BY DEF Reap, RequestStep
<1> QED
  BY <1>1, <1>2, <1>3, <1>4, <1>5, <1>6 DEF SweepContinues
(* Slots keep the jobs they hold: none is new.                             *)
LEMMA SlotsAddNoJob ==
  ASSUME TypeOK, NEW w \in Workers, wpc[w] # "idle" => jobs[wjob[w]] # "absent",
         WorkerStep(w) \/ WorkerCrash(w) \/ Stall(w)
  PROVE  UNCHANGED callVars /\ \A j \in Jobs : jobs'[j] # "absent" => jobs[j] # "absent"
<1> USE DEF TypeOK, QueueType, SlotsType, queueVars, callVars
<1>1. ASSUME NEW s, Release(w, s), wpc[w] # "idle"
      PROVE  \A j \in Jobs : jobs'[j] # "absent" => jobs[j] # "absent"
  BY <1>1 DEF Release
<1>2. ASSUME NEW j \in Jobs, Pick(w, j)
      PROVE  UNCHANGED callVars /\ \A i \in Jobs : jobs'[i] # "absent" => jobs[i] # "absent"
  BY <1>2 DEF Pick
<1>3. ASSUME Claim(w) \/ (\E n \in Deliveries : Publish(w, n))
      PROVE  UNCHANGED callVars /\ \A j \in Jobs : jobs'[j] # "absent" => jobs[j] # "absent"
  BY <1>1, <1>3 DEF Claim, Publish, Throw
<1>4. ASSUME SkipDuplicate(w) \/ Close(w) \/ WorkerCrash(w)
      PROVE  UNCHANGED callVars /\ \A j \in Jobs : jobs'[j] # "absent" => jobs[j] # "absent"
  BY <1>1, <1>4 DEF SkipDuplicate, Close, WorkerCrash
<1>5. ASSUME PublishFails(w) \/ (\E v \in RunStatuses : Finish(w, v)) \/ Stall(w)
      PROVE  UNCHANGED callVars /\ \A j \in Jobs : jobs'[j] # "absent" => jobs[j] # "absent"
  BY <1>5 DEF PublishFails, Finish, Stall
<1> QED
  BY <1>2, <1>3, <1>4, <1>5 DEF WorkerStep

(* One call selects anew, or none does.                                    *)
SelectsAnew(c, S) ==
  /\ UNCHANGED status /\ S \in SUBSET Pending /\ Cardinality(InFlight \cup S) <= Concurrency
  /\ Held(c)' \subseteq S
  /\ \A d \in Callers \ {c} : Held(d)' \subseteq Held(d)

HeldMoves ==
  \/ \E c \in Callers : \E S : SelectsAnew(c, S)
  \/ \A d \in Callers : Held(d)' \subseteq Held(d)

JobsAreHeld ==
  \A r \in Pending', a \in Attempts :
    jobs'[<<r, a>>] # "absent" => \E c \in Callers : r \in mark'[c]

MarksAreDue == \A c \in Callers : mark'[c] # {} => cpc'[c] \in {"enqueue", "sweepEnqueue"}

WindowMoves == HeldMoves /\ JobsAreHeld /\ MarksAreDue

LEMMA SelectingMoves ==
  ASSUME WindowInv, Pending' \subseteq Pending, NEW c \in Callers, NEW S, Selects(c, S),
         S = {} \/ (Fits(S) /\ UNCHANGED status)
  PROVE  WindowMoves
<1>1. \A d \in Callers \ {c} : Held(d)' = Held(d)
  BY DEF Selects, Held
<1>2. Held(c)' \subseteq S \/ Held(c)' \subseteq Held(c)
  BY DEF Selects, Held
<1>3. HeldMoves
  BY <1>1, <1>2 DEF HeldMoves, SelectsAnew, Fits
<1>4. JobsAreHeld /\ MarksAreDue
  BY DEF JobsAreHeld, MarksAreDue, Selects, WindowInv
<1> QED
  BY <1>3, <1>4 DEF WindowMoves

LEMMA EnqueueMovesWindow ==
  ASSUME TypeOK, WindowInv, Pending' \subseteq Pending, NEW c \in Callers, Enqueue(c)
  PROVE  WindowMoves
<1> USE DEF WindowMoves, HeldMoves, JobsAreHeld, MarksAreDue, Held, Selecting, TypeOK, CallsType
<1>1. ASSUME NEW q \in TestRuns, AddJob(c, q) PROVE WindowMoves
  <2>1. /\ cpc[c] \in {"enqueue", "sweepEnqueue"} /\ q \in work[c] /\ UNCHANGED cpc
        /\ work' = [work EXCEPT ![c] = @ \ {q}] /\ mark' = [mark EXCEPT ![c] = @ \cup {q}]
    BY <1>1 DEF AddJob
  <2>2. \A p \in TestRuns : p # q => \A a \in Attempts : jobs'[<<p, a>>] = jobs[<<p, a>>]
    <3>1. \A j \in Jobs : j # JobOf(q) => jobs'[j] = jobs[j]
      BY <1>1 DEF AddJob, JobOf, QueueType
    <3> QED
      BY <3>1 DEF JobOf, Jobs
  <2>3. \A d \in Callers : Held(d)' \subseteq Held(d)
    BY <2>1
  <2>4. JobsAreHeld
    BY <2>1, <2>2 DEF WindowInv, Pending
  <2>5. MarksAreDue
    BY <2>1 DEF WindowInv
  <2> QED
    BY <2>3, <2>4, <2>5
<1>2. ASSUME NEW q \in TestRuns, MarkQueued(c, q) PROVE WindowMoves
  <2>1. /\ q \in mark[c] /\ UNCHANGED <<work, jobs>>
        /\ mark' = [mark EXCEPT ![c] = @ \ {q}]
        /\ \/ UNCHANGED cpc
           \/ mark[c] = {q} /\ cpc' = [cpc EXCEPT ![c] = IF cpc[c] = "enqueue" THEN "idle" ELSE "idlePauseRead"]
    BY <1>2 DEF MarkQueued, Goto, queueVars
  <2>2. q \notin Pending'
    BY <1>2 DEF MarkQueued, QueuedFrom, Pending, RowsType
  <2>3. \A d \in Callers : Held(d)' \subseteq Held(d)
    BY <2>1
  <2>4. JobsAreHeld
    BY <2>1, <2>2 DEF WindowInv
  <2>5. MarksAreDue
    BY <2>1 DEF WindowInv
  <2> QED
    BY <2>3, <2>4, <2>5
<1> QED
  BY <1>1, <1>2 DEF Enqueue

LEMMA StepMovesWindow ==
  ASSUME ~LadderEnabled, "api" \notin Faults, BaseInv, WindowInv, [Next]_vars
  PROVE  WindowMoves
<1>0. TypeOK /\ CallsPossible /\ Pending' \subseteq Pending
  BY FlightMoves DEF BaseInv
<1>1. ASSUME NEW c \in Callers, SelectsFitting(c) \/ Selects(c, {}) PROVE WindowMoves
  BY <1>0, <1>1, SelectingMoves DEF SelectsFitting
<1>2. ASSUME NEW c \in Callers, CompletionStep(c) PROVE WindowMoves
  <2>1. ~ClaimWave(c) /\ ~ResetWave(c)
    BY <1>0 DEF ClaimWave, ResetWave, CallsPossible, Possible
  <2> QED
    BY <1>1, <1>2, <2>1, CompletionSelects DEF CompletionStep
<1>3. ASSUME NEW c \in Callers, RequestStarts(c) \/ RequestContinues(c) PROVE WindowMoves
  BY <1>1, <1>3, RequestsSelect
<1>4. ASSUME NEW c \in Callers, SweepStart(c) \/ SweepContinues(c) PROVE WindowMoves
  BY <1>1, <1>4, SweepsSelect
<1>5. ASSUME NEW c \in Callers, ApiCrash(c) PROVE FALSE
  BY <1>5 DEF ApiCrash, Fault
<1>6. ASSUME UNCHANGED callVars, \A j \in Jobs : jobs'[j] # "absent" => jobs[j] # "absent"
      PROVE  WindowMoves
  <2>1. \A d \in Callers : Held(d)' = Held(d)
    BY <1>6 DEF Held, callVars
  <2>2. JobsAreHeld
    <3>1. \A r \in Pending' : r \in Pending /\ \A a \in Attempts : <<r, a>> \in Jobs
      BY <1>0 DEF Jobs, Pending
    <3> QED
      BY <1>6, <3>1 DEF JobsAreHeld, WindowInv, callVars
  <2>3. MarksAreDue
    BY <1>6 DEF MarksAreDue, WindowInv, callVars
  <2> QED
    BY <2>1, <2>2, <2>3 DEF WindowMoves, HeldMoves
<1>7. ASSUME NEW w \in Workers, WorkerStep(w) \/ WorkerCrash(w) \/ Stall(w) PROVE WindowMoves
  BY <1>0, <1>6, <1>7, SlotsAddNoJob DEF WindowInv
<1>8. ASSUME EventLost \/ Quieten \/ GrowOld \/ UNCHANGED vars PROVE WindowMoves
  BY <1>6, <1>8 DEF EventLost, Quieten, GrowOld, vars, queueVars
<1> QED
  BY <1>0, <1>2, <1>3, <1>4, <1>5, <1>7, <1>8, EnqueueMovesWindow DEF Next

(* What one call selects anew and what the others hold leave the bound.    *)
LEMMA SelectionCounts ==
  ASSUME WindowInv, NEW c \in Callers, NEW S, SelectsAnew(c, S)
  PROVE  /\ \A d \in Callers : Cardinality(HeldPending'[d]) <= Concurrency
         /\ Cardinality(Taken') <= Cardinality(Callers) * Concurrency
<1>0. /\ UNCHANGED <<InFlight, Pending>> /\ S \in SUBSET TestRuns
      /\ InFlight \in SUBSET TestRuns /\ Pending \in SUBSET TestRuns
      /\ Concurrency \in Nat /\ Cardinality(InFlight \cup S) <= Concurrency
  BY BudgetAssumption DEF SelectsAnew, InFlight, Pending
<1> DEFINE D == Callers \ {c}
           Others == UNION {HeldPending[d] : d \in D}
<1>1. HeldPending'[c] \subseteq S /\ \A d \in D : HeldPending'[d] \subseteq HeldPending[d]
  BY <1>0 DEF SelectsAnew, HeldPending
<1>2. \A d \in Callers : HeldPending[d] \in SUBSET TestRuns
  BY <1>0 DEF HeldPending
<1>3. \A d \in Callers : Cardinality(HeldPending[d]) <= Concurrency /\ IsFiniteSet(HeldPending[d])
  BY <1>2, Counting DEF WindowInv
<1>4. \A d \in Callers : Cardinality(HeldPending'[d]) <= Concurrency
  <2>1. ASSUME NEW d \in D PROVE Cardinality(HeldPending'[d]) <= Concurrency
    <3>1. Cardinality(HeldPending'[d]) <= Cardinality(HeldPending[d])
          /\ Cardinality(HeldPending[d]) \in Nat /\ Cardinality(HeldPending'[d]) \in Nat
      BY <1>1, <1>2, <2>1, Counting
    <3> QED
      BY <1>0, <1>3, <3>1
  <2>2. Cardinality(HeldPending'[c]) <= Concurrency
    <3>1. InFlight \cup S \in SUBSET TestRuns /\ HeldPending'[c] \in SUBSET (InFlight \cup S)
      BY <1>0, <1>1
    <3>2. Cardinality(HeldPending'[c]) <= Cardinality(InFlight \cup S)
          /\ Cardinality(InFlight \cup S) \in Nat
      BY <3>1, Counting
    <3>3. Cardinality(HeldPending'[c]) \in Nat
      BY <3>1, Counting
    <3> QED
      BY <1>0, <3>2, <3>3
  <2> QED
    BY <2>1, <2>2
<1>5. IsFiniteSet(D) /\ Cardinality(D) = Cardinality(Callers) - 1 /\ Cardinality(Callers) \in Nat
      /\ Cardinality(D) \in Nat
  BY RunsAssumption, FS_RemoveElement, FS_CardinalityType
<1>6. IsFiniteSet(Others) /\ Cardinality(Others) <= Cardinality(D) * Concurrency
  <2>1. \A d \in D : IsFiniteSet(HeldPending[d]) /\ Cardinality(HeldPending[d]) <= Concurrency
    BY <1>3
  <2> HIDE DEF D
  <2> QED
    BY <1>0, <1>5, <2>1, UnionBound
<1>7. Taken' \subseteq (InFlight \cup S) \cup Others
  BY <1>0, <1>1 DEF Taken
<1>8. Others \in SUBSET TestRuns
  BY <1>2
<1> HIDE DEF Others, D
<1>9. Cardinality(Taken') <= Cardinality(InFlight \cup S) + Cardinality(Others)
  <2> DEFINE A == InFlight \cup S
  <2>1. A \in SUBSET TestRuns /\ A \cup Others \in SUBSET TestRuns /\ A \cap Others \in SUBSET TestRuns
    BY <1>0, <1>8
  <2>2. /\ IsFiniteSet(A) /\ IsFiniteSet(Others) /\ Cardinality(A) \in Nat /\ Cardinality(Others) \in Nat
        /\ Cardinality(A \cap Others) \in Nat /\ Cardinality(A \cup Others) \in Nat
    BY <1>8, <2>1, Counting
  <2> HIDE DEF A
  <2>3. Cardinality(A \cup Others) = Cardinality(A) + Cardinality(Others) - Cardinality(A \cap Others)
    BY <2>2, FS_Union
  <2>4. Taken' \in SUBSET (A \cup Others)
    BY <1>7 DEF A
  <2>5. Cardinality(Taken') <= Cardinality(A \cup Others) /\ Cardinality(Taken') \in Nat
    <3>1. Taken' \in SUBSET TestRuns
      BY <2>1, <2>4
    <3> QED
      BY <2>1, <2>4, <3>1, Counting
  <2> QED
    BY <2>2, <2>3, <2>5 DEF A
<1>10. /\ Cardinality(Taken') \in Nat /\ Cardinality(Others) \in Nat
       /\ Cardinality(InFlight \cup S) \in Nat
  <2>1. Taken' \in SUBSET TestRuns /\ InFlight \cup S \in SUBSET TestRuns
    BY <1>0, <1>7, <1>8
  <2> QED
    BY <1>8, <2>1, Counting
<1>11. Cardinality(D) * Concurrency + Concurrency = Cardinality(Callers) * Concurrency
       /\ Cardinality(D) * Concurrency \in Nat
  BY <1>0, <1>5
<1>12. Cardinality(Taken') <= Cardinality(Callers) * Concurrency
  BY <1>0, <1>6, <1>9, <1>10, <1>11
<1> QED
  BY <1>4, <1>12

LEMMA StepKeepsWindow ==
  ASSUME ~LadderEnabled, "api" \notin Faults, BaseInv, WindowInv, [Next]_vars
  PROVE  WindowInv'
<1>0. TypeOK /\ Move /\ CallsPossible
  BY StepMoves DEF BaseInv
<1>1. attempt' = 1
  BY <1>0 DEF Move, RunMove, WindowInv, ClaimWave, CallsPossible, Possible
<1>2. \A w \in Workers : wpc'[w] # "idle" => jobs'[wjob'[w]] # "absent"
  BY <1>0 DEF Move, SlotsMove, SlotMove, RunMove, WindowInv, TypeOK, SlotsType
<1>3. Pending' \subseteq Pending /\ InFlight' \subseteq Taken
  BY FlightMoves
<1>4. HeldMoves /\ JobsAreHeld /\ MarksAreDue
  BY StepMovesWindow DEF WindowMoves
<1>5. ASSUME \A d \in Callers : Held(d)' \subseteq Held(d)
      PROVE  /\ \A d \in Callers : Cardinality(HeldPending'[d]) <= Concurrency
             /\ Cardinality(Taken') <= Cardinality(Callers) * Concurrency
  <2>0. Pending \in SUBSET TestRuns /\ InFlight \in SUBSET TestRuns
    BY DEF Pending, InFlight
  <2>1. \A d \in Callers : /\ HeldPending[d] \in SUBSET TestRuns
                           /\ HeldPending'[d] \in SUBSET HeldPending[d]
    BY <1>3, <1>5, <2>0 DEF HeldPending
  <2>2. Taken \in SUBSET TestRuns /\ Taken' \in SUBSET Taken
    BY <1>3, <2>0, <2>1 DEF Taken
  <2>3. Concurrency \in Nat /\ Cardinality(Callers) * Concurrency \in Nat
    BY BudgetAssumption, RunsAssumption, FS_CardinalityType
  <2>4. Cardinality(Taken') <= Cardinality(Taken) /\ Cardinality(Taken) \in Nat
        /\ Cardinality(Taken') \in Nat
    BY <2>2, Counting
  <2>5. \A d \in Callers : /\ Cardinality(HeldPending'[d]) <= Cardinality(HeldPending[d])
                           /\ Cardinality(HeldPending'[d]) \in Nat
                           /\ Cardinality(HeldPending[d]) \in Nat
    BY <2>1, Counting
  <2> QED
    BY <2>3, <2>4, <2>5 DEF WindowInv
<1>6. /\ \A d \in Callers : Cardinality(HeldPending'[d]) <= Concurrency
      /\ Cardinality(Taken') <= Cardinality(Callers) * Concurrency
  BY <1>4, <1>5, SelectionCounts DEF HeldMoves
<1> QED
  BY <1>1, <1>2, <1>4, <1>6 DEF WindowInv, JobsAreHeld, MarksAreDue

LEMMA InitWindow == Init => WindowInv
<1> SUFFICES ASSUME Init PROVE WindowInv
  OBVIOUS
<1>1. InFlight = {} /\ Pending = TestRuns
  BY DEF Init, InFlight, Pending, IN_FLIGHT_STATUSES
<1>2. /\ attempt = 1
      /\ \A w \in Workers : wpc[w] = "idle"
      /\ \A j \in Jobs : jobs[j] = "absent"
      /\ \A c \in Callers : mark[c] = {}
  BY DEF Init
<1>3. PICK starter \in Callers, first \in FirstByDuration(TestRuns, Concurrency) :
        /\ cpc = [c \in Callers |-> IF c = starter THEN "enqueue" ELSE "idle"]
        /\ work = [c \in Callers |-> IF c = starter THEN first ELSE {}]
  BY DEF Init
<1>4. /\ Cardinality(first) <= Concurrency /\ Cardinality(first) \in Nat
      /\ Concurrency \in Nat /\ first \in SUBSET TestRuns
  BY Counting, BudgetAssumption DEF FirstByDuration
<1>5. Cardinality({}) = 0
  BY FS_EmptySet
<1>6. HeldPending[starter] = first /\ \A c \in Callers \ {starter} : HeldPending[c] = {}
  BY <1>1, <1>2, <1>3, <1>4 DEF HeldPending, Held, Selecting
<1>7. Taken = first
  BY <1>1, <1>6 DEF Taken
<1>8. Cardinality(Callers) \in Nat /\ Cardinality(Callers) >= 1
  <2>1. IsFiniteSet(Callers) /\ Callers # {}
    BY RunsAssumption, <1>3
  <2> QED
    BY <2>1, FS_CardinalityType, FS_EmptySet
<1>9. Concurrency <= Cardinality(Callers) * Concurrency
  BY <1>4, <1>8
<1>10. Cardinality(Taken) <= Cardinality(Callers) * Concurrency
  BY <1>4, <1>7, <1>8, <1>9
<1>11. \A c \in Callers : Cardinality(HeldPending[c]) <= Concurrency
  BY <1>4, <1>5, <1>6
<1>12. \A r \in Pending, a \in Attempts : jobs[<<r, a>>] = "absent"
  BY <1>1, <1>2 DEF Jobs
<1> QED
  BY <1>2, <1>10, <1>11, <1>12 DEF WindowInv

(* Calls that select at once, each by an order of its own, put at most one *)
(* window each into the queue, however slots crash, stall and deliver jobs *)
(* again, events repeat and the sweep cuts in.  Excluded: a call that dies *)
(* between adding a job and marking its row, whose test no later count     *)
(* sees, and the ladder, where a redelivered job executes a reset row      *)
(* outside its batch.                                                      *)
THEOREM WindowIsKept ==
  ASSUME ~LadderEnabled, "api" \notin Faults PROVE Spec => []WithinBudget
<1>1. BaseInv /\ WindowInv /\ [Next]_vars => WindowInv'
  BY StepKeepsWindow
<1>2. WindowInv => WithinBudget
  <2> SUFFICES ASSUME WindowInv PROVE WithinBudget
    OBVIOUS
  <2>1. InFlight \in SUBSET Taken /\ Taken \in SUBSET TestRuns
    BY DEF Taken, InFlight, HeldPending, Pending
  <2>2. /\ Cardinality(InFlight) <= Cardinality(Taken) /\ Cardinality(Taken) \in Nat
        /\ Cardinality(InFlight) \in Nat
    <3>1. InFlight \in SUBSET TestRuns
      BY <2>1
    <3> QED
      BY <2>1, <3>1, Counting
  <2>3. Cardinality(Callers) * Concurrency \in Nat
    BY BudgetAssumption, RunsAssumption, FS_CardinalityType
  <2>4. Cardinality(InFlight) <= Cardinality(Callers) * Concurrency
    BY <2>2, <2>3 DEF WindowInv
  <2> QED
    BY <2>4 DEF WithinBudget, InFlight
<1> QED
  BY <1>1, <1>2, InitWindow, Base, PTL DEF Spec
==============================================================================
