------------------------------ MODULE Pipeline ------------------------------
(***************************************************************************)
(* The sequencer of pipeline runs (modules/pipelines/pipelines.service.ts) *)
(* and the cron lock of its tick.                                          *)
(*                                                                         *)
(* A run executes its stages in order, each as a feature run.  What drives *)
(* it from one stage to the next is a call of some API process: the        *)
(* request that triggered it, the signal that a feature run may have       *)
(* ended, or the minute tick.  A call is a record of the locals it carries *)
(* from one database statement to the next, so each statement is an action *)
(* and calls interleave between their statements.                          *)
(***************************************************************************)
EXTENDS Naturals, Sequences

CONSTANTS
  Runs,            \* pipeline runs that requests may trigger
  Calls,           \* calls the API processes may have open at once
  Last,            \* order of the last stage
  Policies,        \* the on-failure policies a pipeline may give its stages
  Faults,          \* the kinds of failure that can happen
  MaxFaults,       \* bound on the number of those failures
  Ops,             \* the interventions that can happen
  MaxOps,          \* bound on the number of those interventions
  MaxFeatureRuns   \* bound on the number of feature runs

ASSUME StagesAssumption ==
  Last \in Nat /\ Policies \subseteq [0 .. Last -> {"HALT", "CONTINUE"}]
ASSUME EnvironmentAssumption ==
  /\ Faults \subseteq {"crash", "refuse", "enqueue", "cancel", "redis", "expire", "slow"}
  /\ Ops \subseteq {"stop", "stall"}
  /\ MaxFaults \in Nat /\ MaxOps \in Nat /\ MaxFeatureRuns \in Nat
ASSUME CallsAssumption == Calls \subseteq Nat \ {0}

Orders == 0 .. Last

\* A stage's result; featureRun is 0 when no feature run gave it.
Result == [order : Nat, status : {"PASSED", "FAILED", "CANCELLED", "SKIPPED"},
           featureRun : Nat]
RunStatuses == {"new", "RUNNING", "COMPLETE", "FAILED", "CANCELLED"}
FeatureStatuses == {"RUNNING", "PASSED", "FAILED", "CANCELLED"}
Statements == {"idle", "create", "start", "launch", "claimFailed", "claim", "record",
               "recordWrite", "skip", "skipWrite", "finalize", "finish", "stopClaim",
               "stopFind", "stopFeature", "tick"}
Continuations == {"end", "advance", "finalize", "COMPLETE", "FAILED"}

VARIABLES run,          \* run[r]: status, currentStageOrder, stageResults, policy
          featureRuns,  \* the feature runs started, in order of creation
          call,         \* call[c]: the locals of an API call, pc: its next statement
          lock,         \* the call that holds the cron lock of the tick, or 0
          lapsed,       \* the runs whose grace period is over
          faults, ops   \* failures and interventions so far

vars == <<run, featureRuns, call, lock, lapsed, faults, ops>>

Idle == [pc |-> "idle", run |-> "none", order |-> 0,
         result |-> [order |-> 0, status |-> "SKIPPED", featureRun |-> 0],
         seen |-> {}, then |-> "end", token |-> FALSE]

-----------------------------------------------------------------------------
(* What a call reads.                                                      *)

\* COMPLETE or CANCELLED; a COMPLETE feature run is PASSED or FAILED here, by
\* whether one of its tests failed.
TerminalUnchecked(f) == f \in DOMAIN featureRuns
Terminal(f) == featureRuns[f].status # "RUNNING"

Recorded(results, f) == \E x \in results : x.featureRun = f
Landed(results, o) == \E x \in results : x.order = o

\* The feature runs of a run, and the one created last (0: none).
Started(r) == {f \in 1 .. Len(featureRuns) : featureRuns[f].run = r}
Latest(r) == IF Started(r) = {} THEN 0
             ELSE CHOOSE f \in Started(r) : \A g \in Started(r) : g <= f

Bad(result) == result.status # "PASSED"

Skipped(o) == [order |-> o, status |-> "SKIPPED", featureRun |-> 0]

\* skipRemaining, over the results it has read.
SkipFrom(results, o) ==
  results \cup {Skipped(s) : s \in {t \in Orders : t >= o /\ ~Landed(results, t)}}

VerdictOfFailures(results) ==
  IF \E x \in results : x.status = "FAILED" THEN "FAILED" ELSE "COMPLETE"
Verdict(results) == IF \E x \in results : Bad(x) THEN "FAILED" ELSE "COMPLETE"

\* A result filed under no stage counts as HALT.
Halts(r, o) == o \in Orders => run[r].policy[o] = "HALT"

\* The halt test of the tick; it does not look for CANCELLED stages.
HaltHitByLast(r, results) ==
  \E x \in results : x.order = Last /\ x.status = "FAILED" /\ Halts(r, x.order)
HaltHit(r, results) == \E x \in results : x.status = "FAILED" /\ Halts(r, x.order)

-----------------------------------------------------------------------------
(* The steps a call takes.                                                 *)

\* The claim: count = 1 of the updateMany on the status and the stage.
ClaimsWhileRunning(r, o) == run[r].status = "RUNNING"
Claims(r, o) == run[r].status = "RUNNING" /\ run[r].current = o

\* applyPolicyAndAdvance, once stage o of the call's run is decided.
AfterStage(k, o, bad) ==
  IF bad /\ Halts(k.run, o)
  THEN [k EXCEPT !.pc = "skip", !.order = o + 1, !.then = "finalize"]
  ELSE IF o < Last THEN [k EXCEPT !.pc = "start", !.order = o + 1]
  ELSE [k EXCEPT !.pc = "finalize"]

Go(c, k) == call' = [call EXCEPT ![c] = k] /\ UNCHANGED lock

\* A call ends; a tick deletes the lock if it still holds its own token.
End(c) == /\ call' = [call EXCEPT ![c] = Idle]
          /\ lock' = IF call[c].token /\ lock = c THEN 0 ELSE lock

At(c, pc) == call[c].pc = pc

\* A new call takes the lowest free number.
Free(c) == At(c, "idle") /\ \A d \in Calls : d < c => ~At(d, "idle")

SetRun(r, row) == run' = [run EXCEPT ![r] = row]

Fault(kind) == kind \in Faults /\ faults < MaxFaults /\ faults' = faults + 1
Op(kind) == kind \in Ops /\ ops < MaxOps /\ ops' = ops + 1
Quiet == UNCHANGED <<faults, ops>>

-----------------------------------------------------------------------------
(* Trigger.                                                                *)

\* The check of the transaction; it does not exclude another one's.
Trigger(c, r) ==
  /\ Free(c) /\ run[r].status = "new" /\ \A d \in Calls : call[d].run # r
  /\ \A q \in Runs : run[q].status # "RUNNING"
  /\ Go(c, [Idle EXCEPT !.pc = "create", !.run = r])
  /\ Quiet /\ UNCHANGED <<run, featureRuns, lapsed>>

Create(c) ==
  /\ At(c, "create")
  /\ \E p \in Policies : SetRun(call[c].run, [run[call[c].run] EXCEPT !.status = "RUNNING",
                                                                     !.policy = p])
  /\ Go(c, [call[c] EXCEPT !.pc = "start"])
  /\ lapsed' = lapsed \ {call[c].run}
  /\ Quiet /\ UNCHANGED featureRuns

-----------------------------------------------------------------------------
(* startStage.                                                             *)

\* The run is read; a run that has ended, or has no such stage, starts nothing.
Start(c) ==
  LET k == call[c] IN
  /\ At(c, "start")
  /\ \/ run[k.run].status # "RUNNING" /\ End(c)
     \/ run[k.run].status = "RUNNING"
        /\ Go(c, [k EXCEPT !.pc = IF k.order <= Last THEN "launch" ELSE "finalize"])
  /\ Quiet /\ UNCHANGED <<run, featureRuns, lapsed>>

\* Its row is new, and so is its updatedAt.
NewFeatureRun(k) ==
  /\ featureRuns' = Append(featureRuns,
                           [run |-> k.run, order |-> k.order, status |-> "RUNNING"])
  /\ lapsed' = lapsed \ {k.run}

\* featureRuns.start succeeds.
Launch(c) ==
  /\ At(c, "launch") /\ Len(featureRuns) < MaxFeatureRuns
  /\ NewFeatureRun(call[c]) /\ End(c)
  /\ Quiet /\ UNCHANGED run

\* It throws before it has created anything, or after its transaction: the
\* queue is out of reach when the first jobs are added.
Refuse(c) ==
  /\ At(c, "launch")
  /\ \E kind \in {"refuse", "enqueue"} :
       /\ Fault(kind)
       /\ IF kind = "refuse" THEN UNCHANGED <<featureRuns, lapsed>>
          ELSE Len(featureRuns) < MaxFeatureRuns /\ NewFeatureRun(call[c])
  /\ Go(c, [call[c] EXCEPT !.pc = "claimFailed"])
  /\ UNCHANGED <<run, ops>>

ClaimFailed(c) ==
  LET k == call[c] IN
  /\ At(c, "claimFailed")
  /\ \/ /\ Claims(k.run, k.order)
        /\ SetRun(k.run, [run[k.run] EXCEPT !.current = k.order + 1])
        /\ Go(c, [k EXCEPT !.pc = "record", !.then = "advance",
                           !.result = [order |-> k.order, status |-> "FAILED",
                                       featureRun |-> 0]])
     \/ ~Claims(k.run, k.order) /\ End(c) /\ UNCHANGED run
  /\ Quiet /\ UNCHANGED <<featureRuns, lapsed>>

-----------------------------------------------------------------------------
(* onFeatureRunMaybeTerminal.                                              *)

\* What it carries on with.  The stage is taken to be the current one, and
\* the feature run, being terminal, does not change any more.
ReadForSignal(k, f) ==
  LET row == run[featureRuns[f].run] IN
  [k EXCEPT !.pc = "claim", !.run = featureRuns[f].run, !.order = row.current,
            !.result = [order |-> row.current, status |-> featureRuns[f].status,
                        featureRun |-> f]]
Signals(f) ==
  LET row == run[featureRuns[f].run] IN
  /\ Terminal(f)
  /\ row.status = "RUNNING"
  /\ ~Recorded(row.results, f)

\* Called for each terminal test of the feature run, by every API process,
\* as late as a straggling worker reports - or never, if the event is lost.
Signal(c, f) ==
  /\ Free(c) /\ Signals(f) /\ Go(c, ReadForSignal(Idle, f))
  /\ Quiet /\ UNCHANGED <<run, featureRuns, lapsed>>

\* The claim and the result are one transaction.
Claim(c) ==
  LET k == call[c]
      results == run[k.run].results
  IN
  /\ At(c, "claim")
  /\ \/ /\ Claims(k.run, k.order)
        /\ SetRun(k.run, [run[k.run] EXCEPT !.current = k.order + 1,
                    !.results = IF Landed(results, k.order) THEN results
                                ELSE results \cup {k.result}])
        /\ Go(c, AfterStage(k, k.order, Bad(k.result)))
     \/ ~Claims(k.run, k.order) /\ End(c) /\ UNCHANGED run
  /\ Quiet /\ UNCHANGED <<featureRuns, lapsed>>

-----------------------------------------------------------------------------
(* recordStageResult, skipRemaining, finalize.                             *)

AfterRecord(k) == IF k.then = "advance" THEN AfterStage(k, k.order, TRUE)
                  ELSE [k EXCEPT !.pc = "skip", !.order = k.order + 1]

RecordRead(c) ==
  LET k == call[c]
      results == run[k.run].results
  IN
  /\ At(c, "record")
  /\ Go(c, IF Landed(results, k.order) THEN AfterRecord(k)
           ELSE [k EXCEPT !.pc = "recordWrite", !.seen = results])
  /\ Quiet /\ UNCHANGED <<run, featureRuns, lapsed>>

RecordWrite(c) ==
  LET k == call[c] IN
  /\ At(c, "recordWrite")
  /\ SetRun(k.run, [run[k.run] EXCEPT !.results = k.seen \cup {k.result}])
  /\ Go(c, AfterRecord([k EXCEPT !.seen = {}]))
  /\ Quiet /\ UNCHANGED <<featureRuns, lapsed>>

SkipRead(c) ==
  /\ At(c, "skip")
  /\ Go(c, [call[c] EXCEPT !.pc = "skipWrite", !.seen = run[call[c].run].results])
  /\ Quiet /\ UNCHANGED <<run, featureRuns, lapsed>>

SkipWrite(c) ==
  LET k == call[c] IN
  /\ At(c, "skipWrite")
  /\ SetRun(k.run, [run[k.run] EXCEPT !.results = SkipFrom(k.seen, k.order)])
  /\ IF k.then = "finalize" THEN Go(c, [k EXCEPT !.pc = "finalize", !.seen = {}])
     ELSE End(c)
  /\ Quiet /\ UNCHANGED <<featureRuns, lapsed>>

Finalize(c) ==
  LET k == call[c] IN
  /\ At(c, "finalize")
  /\ IF run[k.run].status = "RUNNING"
     THEN Go(c, [k EXCEPT !.pc = "finish", !.then = Verdict(run[k.run].results)])
     ELSE End(c)
  /\ Quiet /\ UNCHANGED <<run, featureRuns, lapsed>>

Finish(c) ==
  LET k == call[c] IN
  /\ At(c, "finish")
  /\ run' = [run EXCEPT ![k.run].status = IF @ = "RUNNING" THEN k.then ELSE @]
  /\ End(c)
  /\ Quiet /\ UNCHANGED <<featureRuns, lapsed>>

-----------------------------------------------------------------------------
(* stop.                                                                   *)

StopRead(c, r) ==
  /\ Free(c) /\ run[r].status = "RUNNING" /\ Op("stop")
  /\ Go(c, [Idle EXCEPT !.pc = "stopClaim", !.run = r, !.order = run[r].current,
                        !.seen = run[r].results])
  /\ UNCHANGED <<run, featureRuns, lapsed, faults>>

StopClaim(c) ==
  LET k == call[c] IN
  /\ At(c, "stopClaim")
  /\ IF run[k.run].status = "RUNNING"
     THEN /\ SetRun(k.run, [run[k.run] EXCEPT !.status = "CANCELLED"])
          /\ Go(c, [k EXCEPT !.pc = "stopFind"])
     ELSE End(c) /\ UNCHANGED run
  /\ Quiet /\ UNCHANGED <<featureRuns, lapsed>>

Unfinished(r) == {f \in Started(r) : ~Terminal(f)}

StopFind(c) ==
  LET k == call[c]
      found(f) == [k EXCEPT !.pc = "stopFeature",
                            !.result = [order |-> k.order, status |-> "CANCELLED",
                                        featureRun |-> f]]
  IN
  /\ At(c, "stopFind")
  /\ \/ Unfinished(k.run) = {} /\ Go(c, found(0))
     \/ \E f \in Unfinished(k.run) : Go(c, found(f))
  /\ Quiet /\ UNCHANGED <<run, featureRuns, lapsed>>

\* Stops that feature run, unless it has ended meanwhile, and goes on to file
\* the interrupted stage by the order and the results read before the claim.
StopFeature(c) ==
  LET k == call[c]
      interrupted == k.order <= Last /\ ~Landed(k.seen, k.order)
  IN
  /\ At(c, "stopFeature")
  /\ featureRuns' = IF k.result.featureRun \in Unfinished(k.run)
                    THEN [featureRuns EXCEPT ![k.result.featureRun].status = "CANCELLED"]
                    ELSE featureRuns
  /\ Go(c, IF interrupted
           THEN [k EXCEPT !.pc = "record", !.then = "end", !.seen = {}]
           ELSE [k EXCEPT !.pc = "skip", !.then = "end", !.order = @ + 1, !.seen = {}])
  /\ Quiet /\ UNCHANGED <<run, lapsed>>

-----------------------------------------------------------------------------
(* The tick.                                                               *)

\* Statements of a call that is driving run r to its next stage or its end.
Driving == {"start", "launch", "claimFailed", "record", "recordWrite", "skip",
            "skipWrite", "finalize", "finish"}
Driven(r) == \E d \in Calls : call[d].run = r /\ call[d].pc \in Driving

\* The latest feature run has ended, and its result is not filed yet.
Unsignalled(r) == LET f == Latest(r) IN f # 0 /\ Terminal(f) /\ ~Recorded(run[r].results, f)

\* Three minutes without an update of the run's latest feature run, or from the
\* start of a run that has none.  That they pass while a call drives the run, or
\* while the end of its feature run waits for a signal, is the failure "slow".
Lapse(r) ==
  /\ run[r].status = "RUNNING" /\ r \notin lapsed
  /\ Latest(r) # 0 => Terminal(Latest(r))
  /\ IF Driven(r) \/ Unsignalled(r) THEN Fault("slow") /\ UNCHANGED ops ELSE Quiet
  /\ lapsed' = lapsed \cup {r}
  /\ UNCHANGED <<run, featureRuns, call, lock>>

\* Only the time is looked at, not whether anybody drives the run.
SeveredAlways(r) == TRUE
Severed(r) == r \in lapsed

\* The cron lock: SET NX with a token.  A tick that cannot reach Redis runs
\* without it.
TickRead(c, r) ==
  /\ Free(c) /\ run[r].status = "RUNNING"
  /\ LET k == [Idle EXCEPT !.pc = "tick", !.run = r, !.order = run[r].current,
                           !.seen = run[r].results]
     IN \/ /\ lock = 0 /\ lock' = c /\ Quiet
           /\ call' = [call EXCEPT ![c] = [k EXCEPT !.token = TRUE]]
        \/ Fault("redis") /\ UNCHANGED ops /\ Go(c, k)
  /\ UNCHANGED <<run, featureRuns, lapsed>>

\* The tick reads the run, and only later its latest feature run.
CurrentRecorded(k) == LET f == Latest(k.run) IN f # 0 /\ Recorded(k.seen, f)
StageWithoutRunAfterFirst(k) == CurrentRecorded(k)
StageWithoutRun(k) == Latest(k.run) = 0 \/ CurrentRecorded(k)

\* A feature run has ended whose signal never came.
TickSignal(c) ==
  LET k == call[c]
      f == Latest(k.run)
      cleared == [k EXCEPT !.seen = {}]
  IN
  /\ At(c, "tick") /\ f # 0 /\ ~CurrentRecorded(k) /\ Terminal(f)
  /\ IF Signals(f) THEN Go(c, ReadForSignal(cleared, f)) ELSE End(c)
  /\ Quiet /\ UNCHANGED <<run, featureRuns, lapsed>>

\* The stage that is due has no feature run: after the grace period the tick
\* drives the run on, from the order and the results it has read, unless an
\* earlier tick of its own process (`resuming`) may be at it still.
TickResume(c) ==
  LET k == call[c]
      cleared == [k EXCEPT !.seen = {}]
  IN
  /\ At(c, "tick") /\ StageWithoutRun(k)
  /\ \/ (Severed(k.run) => Driven(k.run)) /\ End(c)
     \/ /\ Severed(k.run)
        /\ Go(c, IF HaltHit(k.run, k.seen)
                 THEN [cleared EXCEPT !.pc = "skip", !.then = "finalize"]
                 ELSE [cleared EXCEPT !.pc = "start"])
  /\ Quiet /\ UNCHANGED <<run, featureRuns, lapsed>>

\* A feature run is under way; after two hours without an update of it the
\* run is cancelled, but not the feature run.
TickWait(c) ==
  LET k == call[c]
      f == Latest(k.run)
  IN
  /\ At(c, "tick") /\ f # 0 /\ ~CurrentRecorded(k) /\ ~Terminal(f)
  /\ \/ End(c) /\ Quiet /\ UNCHANGED run
     \/ /\ Op("stall") /\ UNCHANGED faults
        /\ IF run[k.run].status = "RUNNING"
           THEN /\ SetRun(k.run, [run[k.run] EXCEPT !.status = "CANCELLED"])
                /\ Go(c, [k EXCEPT !.pc = "record", !.then = "end", !.seen = {},
                              !.result = [order |-> k.order, status |-> "CANCELLED",
                                          featureRun |-> 0]])
           ELSE End(c) /\ UNCHANGED run
  /\ UNCHANGED <<featureRuns, lapsed>>

-----------------------------------------------------------------------------
(* The environment: feature runs, crashes, the lock's expiry.              *)

Complete(f) ==
  /\ ~Terminal(f)
  /\ \E verdict \in {"PASSED", "FAILED"} :
       featureRuns' = [featureRuns EXCEPT ![f].status = verdict]
  /\ Quiet /\ UNCHANGED <<run, call, lock, lapsed>>

\* A tester stops the stage's feature run, or the reaper cancels it.
CancelFeatureRun(f) ==
  /\ ~Terminal(f) /\ Fault("cancel")
  /\ featureRuns' = [featureRuns EXCEPT ![f].status = "CANCELLED"]
  /\ UNCHANGED <<run, call, lock, lapsed, ops>>

Crash(c) ==
  /\ call[c].pc # "idle" /\ Fault("crash")
  /\ call' = [call EXCEPT ![c] = Idle]
  /\ UNCHANGED <<run, featureRuns, lock, lapsed, ops>>

\* The key expires: its holder is dead, or outlives the ttl.
Expire ==
  /\ lock # 0 /\ lock' = 0
  /\ \/ ~call[lock].token /\ Quiet
     \/ call[lock].token /\ Fault("expire") /\ UNCHANGED ops
  /\ UNCHANGED <<run, featureRuns, call, lapsed>>

-----------------------------------------------------------------------------
Init ==
  /\ run = [r \in Runs |-> [status |-> "new", current |-> 0,
                            results |-> {}, policy |-> [o \in Orders |-> "HALT"]]]
  /\ featureRuns = <<>>
  /\ call = [c \in Calls |-> Idle]
  /\ lock = 0 /\ lapsed = {} /\ faults = 0 /\ ops = 0

CallStep(c) ==
  \/ Create(c) \/ Start(c) \/ Launch(c) \/ ClaimFailed(c) \/ Claim(c)
  \/ RecordRead(c) \/ RecordWrite(c) \/ SkipRead(c) \/ SkipWrite(c)
  \/ Finalize(c) \/ Finish(c) \/ StopClaim(c) \/ StopFind(c) \/ StopFeature(c)
  \/ TickSignal(c) \/ TickResume(c) \/ TickWait(c)

Next ==
  \/ \E c \in Calls : CallStep(c) \/ Refuse(c) \/ Crash(c)
  \/ \E c \in Calls, r \in Runs : Trigger(c, r) \/ StopRead(c, r) \/ TickRead(c, r)
  \/ \E f \in 1 .. Len(featureRuns) :
       \/ Complete(f) \/ CancelFeatureRun(f)
       \/ \E c \in Calls : Signal(c, f)
  \/ \E r \in Runs : Lapse(r)
  \/ Expire

Spec == Init /\ [][Next]_vars

FairSpec ==
  /\ Spec
  /\ \A c \in Calls : WF_vars(CallStep(c))
  /\ \A r \in Runs : WF_vars(\E c \in Calls : TickRead(c, r))
  /\ \A r \in Runs : WF_vars(~Driven(r) /\ ~Unsignalled(r) /\ Lapse(r))
  /\ \A f \in 1 .. MaxFeatureRuns : WF_vars(f <= Len(featureRuns) /\ Complete(f))
  /\ WF_vars(Expire)

-----------------------------------------------------------------------------
\* Every row and every call has the statuses and results the code can write.
TypeOK ==
  /\ run \in [Runs -> [status : RunStatuses, current : Nat, results : SUBSET Result,
                       policy : [Orders -> {"HALT", "CONTINUE"}]]]
  /\ featureRuns \in Seq([run : Runs, order : Orders, status : FeatureStatuses])
  /\ call \in [Calls -> [pc : Statements, run : Runs \cup {"none"}, order : Nat,
                         result : Result, seen : SUBSET Result,
                         then : Continuations, token : BOOLEAN]]
  /\ lock \in Calls \cup {0}
  /\ lapsed \subseteq Runs

\* The signal does not say which stage its feature run executed; the run's
\* current stage is taken for it (line 329).  It is that stage: a result is
\* filed under the stage whose feature run gave it.
Attribution ==
  \A r \in Runs : \A x \in run[r].results :
    x.featureRun # 0 => /\ featureRuns[x.featureRun].order = x.order
                        /\ featureRuns[x.featureRun].run = r

\* Signals, ticks and crashes can ask for the same stage any number of times:
\* no stage is executed twice (lines 338-341, 486-501).
StageOnce ==
  \A f, g \in 1 .. Len(featureRuns) :
    /\ featureRuns[f].run = featureRuns[g].run
    /\ featureRuns[f].order = featureRuns[g].order
    => f = g

\* finalize (570-584) judges by the results it finds, whoever wrote them: a
\* run that COMPLETEs has passed every stage, and one that ends without being
\* stopped has accounted for every stage.
VerdictIsEarned ==
  \A r \in Runs :
    /\ run[r].status \in {"COMPLETE", "FAILED"}
         => \A o \in Orders : Landed(run[r].results, o)
    /\ run[r].status = "COMPLETE" => \A x \in run[r].results : ~Bad(x)

\* After a stage with the HALT policy that did not pass, no later stage is
\* executed, whichever of the three drivers decides what comes next.
HaltHolds ==
  \A f \in 1 .. Len(featureRuns) :
    \A x \in run[featureRuns[f].run].results :
      Bad(x) /\ x.order < featureRuns[f].order
        => run[featureRuns[f].run].policy[x.order] = "CONTINUE"

\* A run executes its stages one at a time, in their order, and decides a
\* stage only when nothing of it executes any more (comment at lines 328-329).
Sequence == INSTANCE StageSequence WITH
  at <- [r \in Runs |-> run[r].current],
  started <- [r \in Runs |-> {featureRuns[f].order : f \in Started(r)}],
  busy <- [r \in Runs |-> \E f \in Started(r) : ~Terminal(f)]

ImplementsSequence == Sequence!SequenceSpec

\* Whatever is lost, refused or crashes, a run ends: the tick drives on what
\* nobody drives any more (lines 436-443).
EventuallyEnds == \A r \in Runs : run[r].status = "RUNNING" ~> run[r].status # "RUNNING"
=============================================================================
