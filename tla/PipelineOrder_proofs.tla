------------------------ MODULE PipelineOrder_proofs ------------------------
(***************************************************************************)
(* For any number of runs, stages, calls, failures and interventions: a    *)
(* run executes its stages in their order, one at a time and none twice,   *)
(* files each result under the stage it is about, executes nothing after a *)
(* stage that halts it, and ends with a verdict it has earned.             *)
(***************************************************************************)
EXTENDS Pipeline_proofs

\* The failures these theorems are about.  No run lapses while a call drives it
\* or a signal is due ("slow"), and no feature run that has been started is
\* reported as refused ("enqueue").  No behaviour has a crash beside
\*  - a refused start or a cancelled feature run: a tick that resumes the run
\*    after both finds a stage that was decided without a result, or a CANCELLED
\*    one that its halt test ignores;
\*  - a tick without the lock of the tick, or one that outlives it: two ticks
\*    then resume one run, and both start the stage that is due.
\* Any number of failures may come together otherwise.
Unmixed(F) == "crash" \notin F \/ F \cap {"refuse", "cancel", "redis", "expire"} = {}
Separately ==
  /\ "slow" \notin Faults /\ "enqueue" \notin Faults
  /\ Unmixed(Faults) \/ MaxFaults <= 1

\* A tick goes on, or comes, without the lock.
Unlocked == \/ (\E c \in Calls, r \in Runs : TickRead(c, r)) /\ Fault("redis")
            \/ Expire /\ Fault("expire")

\* In what follows F holds the failures that a behaviour is prepared for.  With
\* "crash" in it, no start has been refused, no feature run cancelled and no
\* lock lost; without it, no call has died.
Prepared(F) ==
  /\ (\E c \in Calls : Crash(c)) => "crash" \in F
  /\ \/ \E c \in Calls : Refuse(c)
     \/ \E f \in 1 .. Len(featureRuns) : CancelFeatureRun(f)
     \/ Unlocked
     => "crash" \notin F

\* The current stage has a feature run.
Entered(r) == \E f \in Started(r) : featureRuns[f].order = run[r].current

\* A call is about to start a stage of run r.
Launching(r) == \E c \in Calls : call[c].run = r /\ call[c].pc = "launch"

\* Stage o is over: it is decided, and so is what comes after it.
Past(r, o) == /\ o < run[r].current
              /\ o + 1 < run[r].current \/ Entered(r) \/ Launching(r)

\* Stage o has a result, and none that halts the run.
Settled(r, results, o) ==
  /\ Landed(results, o)
  /\ \A x \in results : x.order = o /\ Bad(x) => ~Halts(r, o)

PastSettled(r, results) == \A o \in Nat : Past(r, o) => Settled(r, results, o)
AllSettled(r) == \A o \in Nat : o < run[r].current => Settled(r, run[r].results, o)
AllLanded(r) == \A o \in Nat : o < run[r].current => Landed(run[r].results, o)

\* Every result that a feature run gave is filed under its stage.
Attributed(r, results) ==
  \A x \in results : x.featureRun # 0 =>
    x.featureRun \in Started(r) /\ featureRuns[x.featureRun].order = x.order

NoneAhead(r) == \A x \in run[r].results : x.order < run[r].current

\* What the verdict of a run that ended by itself rests on.
Finished(r) == run[r].status \in {"COMPLETE", "FAILED"}
Judged(r, results) ==
  /\ \A o \in Orders : Landed(results, o)
  /\ run[r].status = "COMPLETE" => \A x \in results : ~Bad(x)

\* With crashes every decided stage was executed, and what a tick has to know
\* is in the results.
CrashProof(r) ==
  /\ \A o \in Nat : o < run[r].current => \E f \in Started(r) : featureRuns[f].order = o
  /\ run[r].status = "RUNNING" =>
       /\ \A f \in Started(r) : featureRuns[f].status # "CANCELLED"
       /\ AllLanded(r)
       /\ \A x \in run[r].results : x.order < run[r].current => x.status \in {"PASSED", "FAILED"}
       /\ NoneAhead(r) \/ HaltHit(r, run[r].results)

RowInOrder(r, F) ==
  /\ \A f \in Started(r) : featureRuns[f].order < run[r].current => Terminal(f)
  /\ PastSettled(r, run[r].results)
  /\ Attributed(r, run[r].results)
  /\ run[r].status = "new" => run[r].results = {}
  /\ run[r].status = "RUNNING" =>
       /\ \A f \in Started(r) :
            featureRuns[f].order < run[r].current => Recorded(run[r].results, f)
       /\ Entered(r) => NoneAhead(r)
  /\ Finished(r) => Judged(r, run[r].results)
  /\ "crash" \in F => CrashProof(r)

\* A call that closes a run it has ended.
Closing(k) == \/ k.pc \in {"stopFind", "stopFeature"}
              \/ k.pc \in {"record", "recordWrite"} /\ k.then # "advance"
              \/ k.pc \in {"skip", "skipWrite"} /\ k.then # "finalize"

\* What a driver k of a RUNNING run knows.
DriverInOrder(k, F) ==
  LET r == k.run
      results == run[r].results
  IN
  /\ ~Entered(r)
  /\ k.pc \in {"start", "launch", "claimFailed"} =>
       k.order = run[r].current /\ AllSettled(r) /\ NoneAhead(r)
  /\ k.pc \in {"record", "recordWrite"} => k.order + 1 = run[r].current /\ NoneAhead(r)
  /\ k.pc \in {"skip", "skipWrite"} =>
       /\ k.order = run[r].current /\ AllLanded(r)
       /\ "crash" \in F => HaltHit(r, results)
  /\ k.pc \in {"recordWrite", "skipWrite"} => k.seen = results
  /\ k.pc \in {"finalize", "finish"} => \A o \in Orders : Landed(results, o)
  /\ k.pc = "finish" => k.then = Verdict(results)

\* The signal a call carries is about a feature run that has ended, and about
\* the stage it read while that stage is current.
ClaimInOrder(k) ==
  LET r == k.run
      f == k.result.featureRun
  IN
  /\ f \in Started(r) /\ Terminal(f) /\ k.result.status = featureRuns[f].status
  /\ k.result.order = k.order /\ k.order <= run[r].current
  /\ run[r].status = "RUNNING" /\ k.order = run[r].current => featureRuns[f].order = k.order

RecordInOrder(k, F) ==
  /\ run[k.run].status \in {"RUNNING", "CANCELLED"}
  /\ k.result.order = k.order /\ k.then \in {"advance", "end"}
  /\ "crash" \in F => k.then # "advance"

\* What a tick has read is at most out of date.
TickInOrder(k, F) ==
  LET r == k.run IN
  /\ Unfiled(r, k.seen)
  /\ run[r].status = "RUNNING" => k.seen \subseteq run[r].results
  /\ "crash" \in F /\ run[r].status = "RUNNING" /\ k.order = run[r].current
       /\ HaltHit(r, run[r].results) => HaltHit(r, k.seen)

CallInOrder(k, F) ==
  LET r == k.run
      f == k.result.featureRun
  IN
  /\ k.pc = "claim" => ClaimInOrder(k)
  /\ Closing(k) => run[r].status = "CANCELLED"
  /\ k.pc \in {"record", "recordWrite"} => RecordInOrder(k, F)
  /\ "crash" \in F => k.pc # "claimFailed"
  /\ k.pc \in {"stopClaim", "stopFind", "stopFeature", "record", "recordWrite"} =>
       k.order <= run[r].current
  /\ k.pc \in {"stopFeature", "record"} /\ f # 0 =>
       f \in Started(r) /\ featureRuns[f].order = run[r].current
  /\ k.pc = "stopFeature" => k.result.order = k.order
  /\ k.pc = "recordWrite" => /\ ~Landed(k.seen, k.order)
                             /\ f # 0 => f \in Started(r) /\ featureRuns[f].order = k.order
  /\ k.pc \in {"recordWrite", "skipWrite"} => PastSettled(r, k.seen) /\ Attributed(r, k.seen)
  /\ k.pc = "skipWrite" /\ Finished(r) => Judged(r, k.seen)
  /\ Driver(k) /\ run[r].status = "RUNNING" => DriverInOrder(k, F)
  /\ k.pc = "launch" => k.order = run[r].current /\ ~Entered(r)
  /\ k.pc = "tick" => TickInOrder(k, F)

DrivenBy(r, c) == call[c].run = r /\ Driver(call[c])

OneDriver == \A c, d \in Calls : c # d /\ Driver(call[c]) /\ Driver(call[d]) => call[c].run # call[d].run

\* Without crashes a run that goes on has a feature run to wait for or a call
\* that drives it.
Attended(r) == run[r].status = "RUNNING" => Entered(r) \/ \E c \in Calls : DrivenBy(r, c)

OInv(F) ==
  /\ \A r \in Runs : RowInOrder(r, F)
  /\ \A c \in Calls : call[c].pc # "idle" => CallInOrder(call[c], F)
  /\ OneDriver
  /\ "crash" \notin F => \A r \in Runs : Attended(r)

-----------------------------------------------------------------------------
(* Frames.                                                                 *)

\* The feature runs of r are the same, the ended ones as they were; none is
\* cancelled under a run that goes on where crashes are possible.
SameExecutions(r, F) ==
  /\ Started(r)' = Started(r)
  /\ \A f \in Started(r) :
       /\ featureRuns'[f].order = featureRuns[f].order
       /\ Terminal(f) => featureRuns'[f].status = featureRuns[f].status
       /\ \/ "crash" \notin F \/ run[r].status # "RUNNING"
          \/ featureRuns'[f].status # "CANCELLED"
          \/ featureRuns'[f].status = featureRuns[f].status

LEMMA RowTypes ==
  ASSUME IInv, NEW r \in Runs
  PROVE  /\ run[r] \in RowType /\ run[r].current \in Nat /\ run[r].results \in SUBSET Result
         /\ \A x \in run[r].results : x.order \in Nat
         /\ \A f \in Started(r) :
              /\ f \in 1 .. Len(featureRuns) /\ f # 0
              /\ featureRuns[f].order \in Nat /\ featureRuns[f].order <= run[r].current
         /\ \A f, g \in Started(r) : featureRuns[f].order = featureRuns[g].order => f = g
<1>1. Typed /\ RowOK(r) /\ run[r] \in RowType
  BY Types DEF IInv
<1>2. \A f \in 1 .. Len(featureRuns) : featureRuns[f].order \in Nat /\ f # 0
  BY <1>1, FeatureRunTypes
<1>3. run[r].current \in Nat /\ run[r].results \in SUBSET Result
  BY <1>1 DEF RowType
<1> QED
  BY <1>1, <1>2, <1>3 DEF RowOK, Started, Result

LEMMA StatusKept ==
  ASSUME NEW F, IInv, NEW r \in Runs, SameExecutions(r, F), NEW f \in Started(r)
  PROVE  Terminal(f) => Terminal(f)' /\ featureRuns'[f].status = featureRuns[f].status
BY DEF SameExecutions, Terminal

LEMMA PastKept ==
  ASSUME NEW F, NEW r, run'[r].current = run[r].current, SameExecutions(r, F),
         Launching(r)' => Launching(r)
  PROVE  /\ Entered(r)' <=> Entered(r)
         /\ \A o : Past(r, o)' => Past(r, o)
<1>1. Entered(r)' <=> Entered(r)
  BY DEF Entered, SameExecutions
<1> QED
  BY <1>1 DEF Past

LEMMA SettledKept ==
  ASSUME NEW r, run'[r].policy = run[r].policy, NEW results, NEW o, Settled(r, results, o)
  PROVE  Settled(r, results, o)'
BY DEF Settled, Landed, Bad, Halts, Orders

LEMMA AttributedKept ==
  ASSUME NEW F, NEW r, SameExecutions(r, F), NEW results, Attributed(r, results)
  PROVE  Attributed(r, results)'
BY DEF Attributed, SameExecutions

LEMMA RowInOrderKept ==
  ASSUME NEW F, IInv, NEW r \in Runs, RowInOrder(r, F), run'[r] = run[r], SameExecutions(r, F),
         Launching(r)' => Launching(r) \/ AllSettled(r)
  PROVE  RowInOrder(r, F)'
<1>1. Entered(r)' <=> Entered(r)
  BY DEF Entered, SameExecutions
<1>2. \A results, o : Settled(r, results, o) => Settled(r, results, o)'
  BY SettledKept
<1>3. PastSettled(r, run[r].results)' /\ Attributed(r, run[r].results)'
  <2>1. \A o \in Nat : Past(r, o)' => Settled(r, run[r].results, o)
    BY <1>1 DEF RowInOrder, PastSettled, Past, AllSettled
  <2> QED
    BY <1>2, <2>1, AttributedKept DEF RowInOrder, PastSettled, Attributed
<1>4. \A f \in Started(r)' : featureRuns'[f].order < run'[r].current => Terminal(f)'
  BY StatusKept DEF RowInOrder, SameExecutions
<1>5. Finished(r)' => Judged(r, run[r].results)'
  BY DEF RowInOrder, Finished, Judged, Landed, Bad
<1>6. "crash" \in F => CrashProof(r)'
  BY DEF RowInOrder, CrashProof, SameExecutions, AllLanded, Landed, NoneAhead, HaltHit, Halts
<1>7. run'[r].status = "RUNNING" =>
        /\ \A f \in Started(r)' :
             featureRuns'[f].order < run'[r].current => Recorded(run'[r].results, f)
        /\ Entered(r)' => NoneAhead(r)'
  BY <1>1 DEF RowInOrder, SameExecutions, Recorded, NoneAhead
<1> QED
  BY <1>3, <1>4, <1>5, <1>6, <1>7 DEF RowInOrder

\* A call whose run's row and feature runs are as they were.
LEMMA CallInOrderKept ==
  ASSUME NEW F, IInv, IInv', NEW k \in CallType, NEW r \in Runs, k.run = r, CallInOrder(k, F),
         run'[r] = run[r], SameExecutions(r, F), Launching(r)' => Launching(r),
         k.pc = "tick" => Unfiled(r, k.seen)'
  PROVE  CallInOrder(k, F)'
<1> DEFINE f == k.result.featureRun
<1>1. (Entered(r)' <=> Entered(r)) /\ \A o : Past(r, o)' => Past(r, o)
  BY PastKept
<1>2. \A results, o : Settled(r, results, o) => Settled(r, results, o)'
  BY SettledKept
<1>3. \A results : PastSettled(r, results) => PastSettled(r, results)'
  BY <1>1, <1>2 DEF PastSettled
<1>4. \A results : Attributed(r, results) => Attributed(r, results)'
  BY AttributedKept
<1>5. k.pc = "claim" => ClaimInOrder(k)'
  BY StatusKept DEF CallInOrder, ClaimInOrder, SameExecutions
<1>6. k.pc \in {"record", "recordWrite"} => RecordInOrder(k, F)'
  BY DEF CallInOrder, RecordInOrder
<1>7. k.pc = "tick" => TickInOrder(k, F)'
  BY DEF CallInOrder, TickInOrder, HaltHit, Halts
<1>8. Driver(k) /\ run[r].status = "RUNNING" => DriverInOrder(k, F)'
  BY <1>1, <1>2 DEF CallInOrder, DriverInOrder, AllSettled, AllLanded, Landed, NoneAhead, HaltHit,
                    Halts, Verdict, Bad
<1>9. k.pc = "skipWrite" /\ Finished(r)' => Judged(r, k.seen)'
  BY DEF CallInOrder, Finished, Judged, Landed, Bad
<1>10. k.pc = "recordWrite" => ~Landed(k.seen, k.order)'
  BY DEF CallInOrder, Landed
<1>11. \A g \in Started(r) : g \in Started(r)' /\ featureRuns'[g].order = featureRuns[g].order
  BY DEF SameExecutions
<1> QED
  BY <1>1, <1>3, <1>4, <1>5, <1>6, <1>7, <1>8, <1>9, <1>10, <1>11 DEF CallInOrder, Driver, Closing

LEMMA UnfiledKept ==
  ASSUME NEW F, NEW r, SameExecutions(r, F), AtStage(r)' => AtStage(r), NEW results, Unfiled(r, results)
  PROVE  Unfiled(r, results)'
<1>1. \A f : IsLatest(r, f)' <=> IsLatest(r, f)
  BY DEF IsLatest, SameExecutions
<1> QED
  BY <1>1 DEF Unfiled, Recorded, SameExecutions

\* A call whose run has ended, by now at the latest.
LEMMA CallOutlives ==
  ASSUME NEW F, IInv, IInv', NEW k \in CallType, NEW r \in Runs, k.run = r, CallInOrder(k, F),
         run'[r].current = run[r].current, run'[r].policy = run[r].policy,
         run'[r].status # "RUNNING",
         \/ run'[r].status = run[r].status
         \/ run[r].status = "RUNNING" /\ (run'[r].status = "CANCELLED" \/ ~Driver(k)),
         SameExecutions(r, F), Launching(r)' => Launching(r)
  PROVE  CallInOrder(k, F)'
<1> DEFINE f == k.result.featureRun
<1>1. (Entered(r)' <=> Entered(r)) /\ \A o : Past(r, o)' => Past(r, o)
  BY PastKept
<1>2. \A results, o : Settled(r, results, o) => Settled(r, results, o)'
  BY SettledKept
<1>3. \A results : PastSettled(r, results) => PastSettled(r, results)'
  BY <1>1, <1>2 DEF PastSettled
<1>4. \A results : Attributed(r, results) => Attributed(r, results)'
  BY AttributedKept
<1>5. k.pc = "claim" => ClaimInOrder(k)'
  BY StatusKept DEF CallInOrder, ClaimInOrder, SameExecutions
<1>6. k.pc \in {"record", "recordWrite"} => RecordInOrder(k, F)'
  BY DEF CallInOrder, RecordInOrder, Driver, Closing
<1>7. k.pc = "tick" => TickInOrder(k, F)'
  <2>1. ~AtStage(r)'
    BY DEF AtStage
  <2> QED
    BY <2>1, UnfiledKept DEF CallInOrder, TickInOrder
<1>8. Closing(k) => run'[r].status = "CANCELLED"
  BY DEF CallInOrder
<1>9. k.pc = "skipWrite" /\ Finished(r)' => Judged(r, k.seen)'
  BY <1>8 DEF CallInOrder, Finished, Judged, Landed, Bad, Driver, Closing
<1>10. k.pc = "recordWrite" => ~Landed(k.seen, k.order)'
  BY DEF CallInOrder, Landed
<1>11. \A g \in Started(r) : g \in Started(r)' /\ featureRuns'[g].order = featureRuns[g].order
  BY DEF SameExecutions
<1> QED
  BY <1>1, <1>3, <1>4, <1>5, <1>6, <1>7, <1>8, <1>9, <1>10, <1>11 DEF CallInOrder, Closing

\* A call that does not drive its run, while the run goes on.
LEMMA CallWaits ==
  ASSUME NEW F, IInv, IInv', NEW k \in CallType, NEW r \in Runs, k.run = r, CallOK(k), CallInOrder(k, F),
         ~Driver(k),
         run[r].status = "RUNNING", run'[r].status = "RUNNING",
         run'[r].policy = run[r].policy, run[r].results \subseteq run'[r].results,
         \/ run'[r].current = run[r].current + 1
         \/ run'[r].current = run[r].current
            /\ ("crash" \in F /\ HaltHit(r, run[r].results)' => HaltHit(r, run[r].results)),
         Started(r) \subseteq Started(r)',
         \A f \in Started(r) : featureRuns'[f].order = featureRuns[f].order
                               /\ (Terminal(f) => featureRuns'[f].status = featureRuns[f].status),
         k.pc = "tick" => Unfiled(r, k.seen)'
  PROVE  CallInOrder(k, F)'
<1>1. k.order \in Nat /\ run[r].current \in Nat
  BY RowTypes DEF CallType
<1>2. ~Closing(k) /\ k.pc \notin {"record", "recordWrite", "skip", "skipWrite"}
  BY DEF CallInOrder, Closing, Driver
<1>3. k.pc = "claim" => ClaimInOrder(k)'
  BY <1>1 DEF CallInOrder, ClaimInOrder, Terminal
<1>4. k.pc = "tick" => TickInOrder(k, F)'
  <2> SUFFICES ASSUME k.pc = "tick" PROVE TickInOrder(k, F)'
    OBVIOUS
  <2>1. k.order <= run[r].current
    BY DEF CallOK
  <2> QED
    BY <1>1, <2>1 DEF CallInOrder, TickInOrder, HaltHit, Halts
<1>5. k.pc = "stopClaim" => k.order <= run'[r].current
  BY <1>1 DEF CallInOrder
<1> QED
  BY <1>2, <1>3, <1>4, <1>5 DEF CallInOrder, Closing, Driver

\* A call that moves and the row of its run.
LEMMA StepInOrder ==
  ASSUME NEW F, IInv, IInv', OInv(F), NEW c \in Calls, NEW r \in Runs,
         \A q \in Runs \ {r} : run'[q] = run[q] /\ SameExecutions(q, F),
         \A d \in Calls \ {c} : call'[d] = call[d],
         call[c].pc = "idle" \/ call[c].run = r,
         call'[c].pc = "idle" \/ call'[c].run = r,
         RowInOrder(r, F)',
         call'[c].pc # "idle" => CallInOrder(call[c], F)',
         \A d \in Calls \ {c} : call[d].pc # "idle" /\ call[d].run = r => CallInOrder(call[d], F)',
         Driver(call'[c]) => Driver(call[c]) \/ \A d \in Calls \ {c} : ~DrivenBy(r, d),
         "crash" \notin F => Attended(r)'
  PROVE  OInv(F)'
<1>1. ASSUME NEW q \in Runs \ {r}
      PROVE  /\ Launching(q)' => Launching(q)
             /\ \A d \in Calls : call'[d].pc # "idle" /\ call'[d].run = q =>
                                 call'[d] = call[d] /\ d # c
             /\ \A d \in Calls : call[d].pc # "idle" /\ call[d].run = q => d # c
  BY DEF Launching
<1>2. ASSUME NEW q \in Runs \ {r} PROVE RowInOrder(q, F)'
  BY <1>1, RowInOrderKept DEF OInv
<1>3. ASSUME NEW d \in Calls \ {c}, call[d].pc # "idle", call[d].run # r
      PROVE  CallInOrder(call[d], F)'
  <2>0. PICK k \in CallType : k = call[d]
    BY Local
  <2>1. PICK q \in Runs \ {r} : q = k.run
    BY <1>3, <2>0, Local
  <2>2. CallInOrder(k, F) /\ run'[q] = run[q] /\ SameExecutions(q, F) /\ (Launching(q)' => Launching(q))
    BY <1>1, <1>3, <2>0, <2>1 DEF OInv
  <2>3. k.pc = "tick" => Unfiled(q, k.seen)'
    <3>1. AtStage(q)' => AtStage(q)
      BY <2>2 DEF AtStage, SameExecutions
    <3> QED
      BY <2>1, <2>2, <3>1, UnfiledKept DEF CallInOrder, TickInOrder
  <2>4. CallInOrder(k, F)'
    BY <2>1, <2>2, <2>3, CallInOrderKept
  <2> QED
    BY <2>0, <2>4
<1>4. \A d \in Calls : call'[d].pc # "idle" => CallInOrder(call[d], F)'
  BY <1>3
<1>5. OneDriver'
  <2>1. ASSUME NEW d \in Calls \ {c}, Driver(call[d]), Driver(call'[c])
        PROVE  call[d].run # call'[c].run
    <3>1. call'[c].run = r
      BY <2>1 DEF Driver
    <3>2. call[c].run = r \/ ~Driver(call[c])
      BY DEF Driver
    <3> QED
      BY <2>1, <3>1, <3>2 DEF OInv, OneDriver, DrivenBy
  <2> QED
    BY <2>1 DEF OInv, OneDriver
<1>6. ASSUME "crash" \notin F, NEW q \in Runs \ {r} PROVE Attended(q)'
  <2>1. Attended(q) /\ run'[q] = run[q] /\ SameExecutions(q, F)
    BY <1>6 DEF OInv
  <2>2. Entered(q) => Entered(q)'
    BY <2>1 DEF Entered, SameExecutions
  <2>3. \A d \in Calls : DrivenBy(q, d) => DrivenBy(q, d)'
    BY DEF DrivenBy, Driver
  <2> QED
    BY <2>1, <2>2, <2>3 DEF Attended
<1> QED
  BY <1>2, <1>4, <1>5, <1>6 DEF OInv

-----------------------------------------------------------------------------
(* Calls that move and write nothing.                                      *)

LEMMA Nothing ==
  ASSUME NEW F, UNCHANGED <<run, featureRuns>>
  PROVE  \A r : run'[r] = run[r] /\ SameExecutions(r, F)
BY DEF SameExecutions, Started

\* The call and the row it is about.
LEMMA OrderLocal ==
  ASSUME NEW F, IInv, OInv(F), NEW c \in Calls, call[c].pc # "idle"
  PROVE  /\ call[c] \in CallType /\ CallOK(call[c]) /\ CallInOrder(call[c], F)
         /\ call[c].run \in Runs /\ RowOK(call[c].run) /\ RowInOrder(call[c].run, F)
         /\ run[call[c].run].status # "RUNNING" \/ ~Driver(call[c]) \/ DriverInOrder(call[c], F)
         /\ Driver(call[c]) => \A d \in Calls \ {c} : ~DrivenBy(call[c].run, d)
BY Local DEF OInv, CallInOrder, OneDriver, DrivenBy

\* While a run goes on, the other calls of it wait for the driver.
LEMMA OthersWait ==
  ASSUME NEW F, IInv, IInv', OInv(F), NEW c \in Calls, NEW r \in Runs,
         \A d \in Calls \ {c} : ~DrivenBy(r, d),
         run[r].status = "RUNNING", run'[r].status = "RUNNING",
         run'[r].policy = run[r].policy, run[r].results \subseteq run'[r].results,
         \/ run'[r].current = run[r].current + 1
         \/ run'[r].current = run[r].current
            /\ ("crash" \in F /\ HaltHit(r, run[r].results)' => HaltHit(r, run[r].results)),
         SameExecutions(r, F), AtStage(r)' => AtStage(r),
         \A d \in Calls \ {c} : call'[d] = call[d]
  PROVE  \A d \in Calls \ {c} : call[d].pc # "idle" /\ call[d].run = r => CallInOrder(call[d], F)'
<1> SUFFICES ASSUME NEW d \in Calls \ {c}, call[d].pc # "idle", call[d].run = r
             PROVE  CallInOrder(call[d], F)'
  OBVIOUS
<1>1. PICK k \in CallType : k = call[d]
  BY Local
<1>2. CallOK(k) /\ CallInOrder(k, F) /\ k.run = r /\ ~Driver(k)
  BY <1>1, OrderLocal DEF DrivenBy
<1>3. k.pc = "tick" => Unfiled(r, k.seen)'
  BY <1>2, UnfiledKept DEF CallInOrder, TickInOrder
<1>4. CallInOrder(k, F)'
  BY <1>2, <1>3, CallWaits DEF SameExecutions
<1> QED
  BY <1>1, <1>4

LEMMA MovesInOrder ==
  ASSUME NEW F, IInv, IInv', OInv(F), NEW c \in Calls, NEW r \in Runs, UNCHANGED <<run, featureRuns>>,
         NEW k \in CallType, call' = [call EXCEPT ![c] = k],
         call[c].pc = "idle" \/ call[c].run = r,
         k.pc # "idle" => k.run = r /\ k.pc # "launch" /\ (CallInOrder(k, F) \/ CallInOrder(k, F)'),
         Driver(k) => Driver(call[c]) \/ \A d \in Calls : ~DrivenBy(r, d),
         Driver(call[c]) /\ run[r].status = "RUNNING" /\ "crash" \notin F => Driver(k)
  PROVE  OInv(F)'
<1>1. \A q : run'[q] = run[q] /\ SameExecutions(q, F)
  BY Nothing
<1>2. call'[c] = k /\ \A d \in Calls \ {c} : call'[d] = call[d]
  BY CallStays DEF IInv
<1>3. Launching(r)' => Launching(r)
  BY <1>2 DEF Launching
<1>4. RowInOrder(r, F)'
  BY <1>1, <1>3, RowInOrderKept DEF OInv
<1>5. ASSUME NEW j \in CallType, j.pc # "idle", j.run = r, CallInOrder(j, F)
      PROVE  CallInOrder(j, F)'
  <2>1. AtStage(r)' => AtStage(r)
    BY <1>1 DEF AtStage, SameExecutions
  <2>2. j.pc = "tick" => Unfiled(r, j.seen)'
    BY <1>1, <1>5, <2>1, UnfiledKept DEF CallInOrder, TickInOrder
  <2> QED
    BY <1>1, <1>3, <1>5, <2>2, CallInOrderKept
<1>6. call'[c].pc # "idle" => CallInOrder(call[c], F)'
  BY <1>2, <1>5
<1>7. ASSUME NEW d \in Calls \ {c}, call[d].pc # "idle", call[d].run = r
      PROVE  CallInOrder(call[d], F)'
  <2>1. PICK j \in CallType : j = call[d]
    BY Local
  <2>2. CallInOrder(j, F)'
    BY <1>5, <1>7, <2>1 DEF OInv
  <2> QED
    BY <1>2, <2>1, <2>2
<1>8. "crash" \notin F => Attended(r)'
  <2> SUFFICES ASSUME "crash" \notin F, run[r].status = "RUNNING"
               PROVE  Attended(r)'
    BY <1>1 DEF Attended
  <2>1. Entered(r) \/ \E d \in Calls : DrivenBy(r, d)
    BY DEF OInv, Attended
  <2>2. Entered(r) => Entered(r)'
    BY <1>1 DEF Entered, SameExecutions
  <2>3. \A d \in Calls : DrivenBy(r, d) => DrivenBy(r, d)'
    BY <1>2 DEF DrivenBy, Driver
  <2> QED
    BY <2>1, <2>2, <2>3 DEF Attended
<1> QED
  BY <1>1, <1>2, <1>4, <1>6, <1>7, <1>8, StepInOrder

\* A call that ends has nothing left to drive.
LEMMA EndsInOrder ==
  ASSUME NEW F, IInv, IInv', OInv(F), NEW c \in Calls, call[c].pc # "idle",
         UNCHANGED <<run, featureRuns>>, call' = [call EXCEPT ![c] = Idle],
         \/ ~Driver(call[c]) \/ run[call[c].run].status # "RUNNING" \/ "crash" \in F
  PROVE  OInv(F)'
<1>1. PICK k \in CallType : k = Idle
  BY IdleType
<1>2. k.pc = "idle" /\ ~Driver(k)
  BY <1>1 DEF Idle, Driver
<1>3. call[c].run \in Runs
  BY Local
<1> QED
  BY <1>1, <1>2, <1>3, MovesInOrder

LEMMA TriggerInOrder ==
  ASSUME NEW F, IInv, IInv', OInv(F), NEW c \in Calls, NEW r \in Runs, Trigger(c, r)
  PROVE  OInv(F)'
<1>1. PICK k \in CallType : k = [Idle EXCEPT !.pc = "create", !.run = r]
  BY IdleType DEF CallType, Statements, Idle
<1>2. k.pc = "create" /\ k.run = r
  BY <1>1 DEF Idle
<1>3. CallInOrder(k, F) /\ ~Driver(k)
  BY <1>2 DEF CallInOrder, Driver, Closing
<1> QED
  BY <1>1, <1>2, <1>3, MovesInOrder DEF Trigger, Free, At, Go, Driver

LEMMA SkipReadInOrder ==
  ASSUME NEW F, IInv, IInv', OInv(F), NEW c \in Calls, SkipRead(c)
  PROVE  OInv(F)'
<1>0. PICK k \in CallType : k = call[c]
  BY Local
<1> DEFINE r == k.run
           w == [k EXCEPT !.pc = "skipWrite", !.seen = run[r].results]
<1>1. /\ k.pc = "skip" /\ CallInOrder(k, F) /\ RowInOrder(r, F) /\ r \in Runs
      /\ run[r].results \in SUBSET Result
  BY <1>0, OrderLocal, RowTypes DEF SkipRead, At
<1>2. /\ w \in CallType /\ w.pc = "skipWrite" /\ w.run = r /\ w.seen = run[r].results
      /\ w.order = k.order /\ w.then = k.then
  BY <1>1 DEF CallType, Statements
<1>3. call' = [call EXCEPT ![c] = w] /\ UNCHANGED <<run, featureRuns>>
  BY <1>0 DEF SkipRead, Go
<1> HIDE DEF w
<1>4. (Driver(w) <=> Driver(k)) /\ (Closing(w) <=> Closing(k))
  BY <1>1, <1>2 DEF Driver, Closing
<1>5. Driver(w) /\ run[r].status = "RUNNING" => DriverInOrder(w, F)
  BY <1>1, <1>2, <1>4 DEF CallInOrder, DriverInOrder
<1>6. CallInOrder(w, F)
  BY <1>1, <1>2, <1>4, <1>5 DEF CallInOrder, RowInOrder
<1> QED
  BY <1>0, <1>1, <1>2, <1>3, <1>4, <1>6, MovesInOrder

LEMMA FinalizeInOrder ==
  ASSUME NEW F, IInv, IInv', OInv(F), NEW c \in Calls, Finalize(c)
  PROVE  OInv(F)'
<1>0. PICK k \in CallType : k = call[c]
  BY Local
<1> DEFINE r == k.run
           verdict == Verdict(run[r].results)
           j == [k EXCEPT !.pc = "finish", !.then = verdict]
<1>1. k.pc = "finalize" /\ CallInOrder(k, F) /\ r \in Runs /\ UNCHANGED <<run, featureRuns>>
  BY <1>0, OrderLocal DEF Finalize, At
<1>2. CASE run[r].status # "RUNNING"
  BY <1>0, <1>1, <1>2, EndsInOrder DEF Finalize, End
<1>3. CASE run[r].status = "RUNNING"
  <2>1. call' = [call EXCEPT ![c] = j]
    BY <1>0, <1>3 DEF Finalize, Go
  <2>2. verdict \in {"COMPLETE", "FAILED"}
    BY DEF Verdict
  <2> HIDE DEF verdict
  <2>3. j \in CallType /\ j.pc = "finish" /\ j.run = r /\ j.then = verdict
    BY <2>2 DEF CallType, Statements, Continuations
  <2> HIDE DEF j
  <2>4. Driver(j) /\ ~Closing(j) /\ Driver(k)
    BY <1>1, <2>3 DEF Driver, Closing
  <2>5. DriverInOrder(j, F)
    BY <1>1, <1>3, <2>3, <2>4 DEF CallInOrder, DriverInOrder, verdict
  <2>6. CallInOrder(j, F)
    BY <2>3, <2>4, <2>5 DEF CallInOrder
  <2> QED
    BY <1>0, <1>1, <2>1, <2>3, <2>4, <2>6, MovesInOrder
<1> QED
  BY <1>2, <1>3

LEMMA StopReadInOrder ==
  ASSUME NEW F, IInv, IInv', OInv(F), NEW c \in Calls, NEW r \in Runs, StopRead(c, r)
  PROVE  OInv(F)'
<1> DEFINE k == [Idle EXCEPT !.pc = "stopClaim", !.run = r, !.order = run[r].current,
                             !.seen = run[r].results]
<1>1. run[r].current \in Nat /\ run[r].results \in SUBSET Result
  BY RowTypes
<1>2. k \in CallType /\ k.pc = "stopClaim" /\ k.run = r /\ k.order = run[r].current
  BY <1>1, IdleType DEF CallType, Statements
<1>3. call' = [call EXCEPT ![c] = k] /\ call[c].pc = "idle" /\ UNCHANGED <<run, featureRuns>>
  BY DEF StopRead, Go, Free, At
<1> HIDE DEF k
<1>4. CallInOrder(k, F) /\ ~Driver(k)
  BY <1>1, <1>2 DEF CallInOrder, Driver, Closing
<1> QED
  BY <1>2, <1>3, <1>4, MovesInOrder DEF Driver

LEMMA StopFindInOrder ==
  ASSUME NEW F, IInv, IInv', OInv(F), NEW c \in Calls, StopFind(c)
  PROVE  OInv(F)'
<1>0. PICK k \in CallType : k = call[c]
  BY Local
<1> DEFINE r == k.run
           x(f) == [order |-> k.order, status |-> "CANCELLED", featureRun |-> f]
           j(f) == [k EXCEPT !.pc = "stopFeature", !.result = x(f)]
<1>1. k.pc = "stopFind" /\ CallInOrder(k, F) /\ RowInOrder(r, F) /\ r \in Runs /\ k.order \in Nat
  BY <1>0, OrderLocal DEF StopFind, At, CallType
<1>2. PICK f \in Nat : /\ call' = [call EXCEPT ![c] = j(f)]
                       /\ f = 0 \/ f \in Unfinished(r)
  <2>1. \A f \in Unfinished(r) : f \in Nat
    BY <1>1, RowTypes DEF Unfinished
  <2> QED
    BY <1>0, <2>1 DEF StopFind, Go
<1>3. x(f) \in Result /\ x(f).featureRun = f /\ x(f).order = k.order
  BY <1>1, ResultTypes
<1>4. /\ j(f) \in CallType /\ j(f).pc = "stopFeature" /\ j(f).run = r
      /\ j(f).order = k.order /\ j(f).result = x(f)
  BY <1>1, <1>3 DEF CallType, Statements
<1>5. f # 0 => f \in Started(r) /\ featureRuns[f].order = run[r].current
  BY <1>1, <1>2, RowTypes DEF Unfinished, RowInOrder
<1> HIDE DEF j, x
<1>6. CallInOrder(j(f), F) /\ ~Driver(j(f)) /\ ~Driver(k)
  BY <1>1, <1>3, <1>4, <1>5 DEF CallInOrder, Driver, Closing
<1> QED
  BY <1>0, <1>1, <1>2, <1>4, <1>6, MovesInOrder DEF StopFind

LEMMA TickReadInOrder ==
  ASSUME NEW F, IInv, IInv', OInv(F), NEW c \in Calls, NEW r \in Runs, TickRead(c, r)
  PROVE  OInv(F)'
<1> DEFINE k == [Idle EXCEPT !.pc = "tick", !.run = r, !.order = run[r].current,
                             !.seen = run[r].results]
           t == [k EXCEPT !.token = TRUE]
<1>1. run[r].current \in Nat /\ run[r].results \in SUBSET Result /\ RowOK(r)
  BY RowTypes DEF IInv
<1>2. /\ k \in CallType /\ k.pc = "tick" /\ k.run = r /\ k.seen = run[r].results
      /\ k.order = run[r].current
  BY <1>1, IdleType DEF CallType, Statements
<1>3. /\ t \in CallType /\ t.pc = "tick" /\ t.run = r /\ t.seen = run[r].results
      /\ t.order = run[r].current
  BY <1>2 DEF CallType
<1>4. /\ call' = [call EXCEPT ![c] = t] \/ call' = [call EXCEPT ![c] = k]
      /\ call[c].pc = "idle" /\ UNCHANGED <<run, featureRuns>>
  BY DEF TickRead, Go, Free, At
<1> HIDE DEF k, t
<1>5. ASSUME NEW j \in CallType, j.pc = "tick", j.run = r, j.seen = run[r].results,
             j.order = run[r].current
      PROVE  CallInOrder(j, F) /\ ~Driver(j)
  BY <1>1, <1>5 DEF CallInOrder, TickInOrder, Driver, Closing, RowOK
<1>6. ~Driver(call[c])
  BY <1>4 DEF Driver
<1>7. CASE call' = [call EXCEPT ![c] = t]
  BY <1>3, <1>4, <1>5, <1>6, <1>7, MovesInOrder
<1>8. CASE call' = [call EXCEPT ![c] = k]
  BY <1>2, <1>4, <1>5, <1>6, <1>8, MovesInOrder
<1> QED
  BY <1>4, <1>7, <1>8

LEMMA CrashInOrder ==
  ASSUME NEW F, IInv, IInv', OInv(F), NEW c \in Calls, Crash(c), "crash" \in F
  PROVE  OInv(F)'
BY EndsInOrder DEF Crash

LEMMA StartInOrder ==
  ASSUME NEW F, IInv, IInv', OInv(F), NEW c \in Calls, Start(c)
  PROVE  OInv(F)'
<1>0. PICK k \in CallType : k = call[c]
  BY Local
<1> DEFINE r == k.run
           pc == IF k.order <= Last THEN "launch" ELSE "finalize"
           j == [k EXCEPT !.pc = pc]
<1>1. /\ k.pc = "start" /\ CallOK(k) /\ CallInOrder(k, F) /\ RowInOrder(r, F) /\ r \in Runs
      /\ UNCHANGED <<run, featureRuns>> /\ k.order \in Nat /\ run[r].current \in Nat
      /\ Driver(k) /\ \A d \in Calls \ {c} : ~DrivenBy(r, d)
  BY <1>0, OrderLocal, RowTypes DEF Start, At, CallType, Driver
<1>2. CASE run[r].status # "RUNNING"
  BY <1>0, <1>1, <1>2, EndsInOrder DEF Start, End
<1>3. CASE run[r].status = "RUNNING"
  <2>2. call' = [call EXCEPT ![c] = j]
    BY <1>0, <1>3 DEF Start, Go, End
  <2>3. j \in CallType /\ j.pc = pc /\ j.run = r /\ j.order = k.order
    <3>1. pc \in Statements
      BY DEF Statements
    <3> HIDE DEF pc
    <3> QED BY <3>1, Moved
  <2> HIDE DEF j
  <2>4. DriverInOrder(k, F)
    BY <1>1, <1>3 DEF CallInOrder
  <2>5. Driver(j) /\ ~Closing(j)
    BY <2>3 DEF Driver, Closing
  <2>6. DriverInOrder(j, F)
    <3>1. k.order = run[r].current /\ AllSettled(r) /\ NoneAhead(r) /\ ~Entered(r)
      BY <1>1, <2>4 DEF DriverInOrder
    <3>2. CASE pc = "launch"
      BY <2>3, <3>1, <3>2 DEF DriverInOrder
    <3>3. CASE pc = "finalize"
      <4>1. \A o \in Orders : o \in Nat /\ o < run[r].current
        BY <1>1, <3>1, <3>3, StagesAssumption DEF Orders
      <4>2. \A o \in Orders : Landed(run[r].results, o)
        BY <3>1, <4>1 DEF AllSettled, Settled
      <4> QED
        BY <2>3, <3>1, <3>3, <4>2 DEF DriverInOrder
    <3> QED
      BY <3>2, <3>3
  <2>7. CallInOrder(j, F)
    BY <2>3, <2>4, <2>5, <2>6, <1>1 DEF CallInOrder, DriverInOrder
  <2>8. CASE pc = "finalize"
    BY <1>0, <1>1, <2>2, <2>3, <2>5, <2>7, <2>8, MovesInOrder
  <2>9. CASE pc = "launch"
    <3>1. \A q : run'[q] = run[q] /\ SameExecutions(q, F)
      BY <1>1, Nothing
    <3>2. call'[c] = j /\ \A d \in Calls \ {c} : call'[d] = call[d]
      BY <2>2, <2>3, CallStays DEF IInv
    <3>3. RowInOrder(r, F)'
      BY <1>1, <2>4, <3>1, RowInOrderKept DEF DriverInOrder
    <3>4. AtStage(r)' => AtStage(r)
      BY <3>1 DEF AtStage, SameExecutions
    <3>5. \A d \in Calls \ {c} : call[d].pc # "idle" /\ call[d].run = r => CallInOrder(call[d], F)'
      <4>1. HaltHit(r, run[r].results)' => HaltHit(r, run[r].results)
        BY <1>1 DEF HaltHit, Halts
      <4> QED
        BY <1>1, <1>3, <3>1, <3>2, <3>4, <4>1, OthersWait
    <3>6. CallInOrder(j, F)'
      <4>1. Entered(r)' <=> Entered(r)
        BY <3>1 DEF Entered, SameExecutions
      <4>2. AllSettled(r)' /\ NoneAhead(r)'
        BY <1>1, <2>4, SettledKept DEF DriverInOrder, AllSettled, NoneAhead
      <4>3. DriverInOrder(j, F)'
        BY <1>1, <2>3, <2>4, <2>9, <4>1, <4>2 DEF DriverInOrder
      <4> QED
        BY <1>1, <2>3, <2>4, <2>5, <2>9, <4>1, <4>3 DEF CallInOrder, DriverInOrder
    <3>7. CallInOrder(call[c], F)'
      BY <3>2, <3>6
    <3>8. Attended(r)'
      BY <2>3, <2>5, <3>2 DEF Attended, DrivenBy
    <3> QED
      BY <1>0, <1>1, <2>3, <2>5, <3>1, <3>2, <3>3, <3>5, <3>7, <3>8, StepInOrder
  <2> QED
    BY <2>8, <2>9
<1> QED
  BY <1>2, <1>3

\* The feature run that signals is that of the current stage: the earlier
\* ones have been filed.
LEMMA ReadInOrder ==
  ASSUME NEW F, IInv, IInv', OInv(F), UNCHANGED <<run, featureRuns>>, NEW c \in Calls,
         NEW f \in 1 .. Len(featureRuns), Signals(f), NEW k \in CallType, ~Driver(call[c]),
         call[c].pc = "idle" \/ call[c].run = featureRuns[f].run,
         Go(c, ReadForSignal(k, f))
  PROVE  OInv(F)'
<1> DEFINE r == featureRuns[f].run
           x == [order |-> run[r].current, status |-> featureRuns[f].status, featureRun |-> f]
           j == ReadForSignal(k, f)
<1>1. /\ r \in Runs /\ f \in Started(r) /\ f \in Nat
      /\ featureRuns[f].status \in {"PASSED", "FAILED", "CANCELLED"}
  <2>1. Typed
    BY DEF IInv
  <2>2. f \in Nat /\ r \in Runs /\ featureRuns[f].status \in FeatureStatuses
    BY <2>1, FeatureRunTypes DEF FeatureRunType
  <2> QED
    BY <2>2 DEF Started, FeatureStatuses, Signals, Terminal
<1>2. /\ run[r].current \in Nat /\ run[r].status = "RUNNING" /\ RowInOrder(r, F)
      /\ featureRuns[f].order \in Nat /\ featureRuns[f].order <= run[r].current
  BY <1>1, RowTypes DEF Signals, OInv
<1>3. featureRuns[f].order = run[r].current
  BY <1>1, <1>2 DEF RowInOrder, Signals
<1>4. x \in Result
  BY <1>1, <1>2, ResultTypes
<1>5. /\ j \in CallType /\ j.pc = "claim" /\ j.run = r /\ j.order = run[r].current
      /\ j.result = x
  BY <1>1, <1>2, <1>4 DEF ReadForSignal, CallType, Statements
<1>6. ClaimInOrder(j)
  BY <1>1, <1>2, <1>3, <1>5 DEF ClaimInOrder, Signals
<1>7. call' = [call EXCEPT ![c] = j]
  BY DEF Go
<1> HIDE DEF j
<1>8. CallInOrder(j, F) /\ ~Driver(j)
  BY <1>5, <1>6 DEF CallInOrder, Driver, Closing
<1> QED
  BY <1>1, <1>5, <1>7, <1>8, MovesInOrder

LEMMA SignalInOrder ==
  ASSUME NEW F, IInv, IInv', OInv(F), NEW c \in Calls, NEW f \in 1 .. Len(featureRuns), Signal(c, f)
  PROVE  OInv(F)'
<1>1. call[c].pc = "idle" /\ ~Driver(call[c])
  BY DEF Signal, Free, At, Driver
<1> QED
  BY <1>1, IdleType, ReadInOrder DEF Signal

LEMMA TickSignalInOrder ==
  ASSUME NEW F, IInv, IInv', OInv(F), NEW c \in Calls, TickSignal(c)
  PROVE  OInv(F)'
<1> DEFINE f == Latest(call[c].run)
           k == [call[c] EXCEPT !.seen = {}]
<1>1. call[c].pc = "tick" /\ ~Driver(call[c]) /\ call[c].run \in Runs /\ call[c] \in CallType
  BY OrderLocal DEF TickSignal, At, Driver
<1>2. CASE End(c)
  BY <1>1, <1>2, EndsInOrder DEF TickSignal, End
<1>3. CASE Signals(f) /\ Go(c, ReadForSignal(k, f))
  <2>1. k \in CallType
    BY <1>1 DEF CallType
  <2>2. f \in 1 .. Len(featureRuns) /\ featureRuns[f].run = call[c].run
    BY <1>1, LatestIsLatest DEF TickSignal, IsLatest, Started
  <2> QED
    BY <1>1, <1>3, <2>1, <2>2, ReadInOrder DEF TickSignal
<1> QED
  BY <1>2, <1>3 DEF TickSignal

\* What a driver knows that has filed stage k.order, the one before the
\* current one, and goes on.
LEMMA Advanced ==
  ASSUME NEW F, NEW k \in CallType, NEW r \in Runs, k.run = r, k.then = "advance",
         k.pc \in {"record", "recordWrite"}, "crash" \notin F,
         run'[r].policy = run[r].policy, run'[r].current = k.order + 1,
         ~Entered(r)', NoneAhead(r)', \A x \in run'[r].results : x.order \in Nat,
         \A o \in Nat : o < k.order => Settled(r, run[r].results, o)',
         Landed(run'[r].results, k.order), NEW j, j = AfterRecord(k)
  PROVE  /\ DriverInOrder(j, F)' /\ Driver(j) /\ ~Closing(j)
         /\ j.run = r /\ j.pc \in {"skip", "start", "finalize"}
<1> DEFINE n == k.order + 1
<1>1. k.order \in Nat /\ n \in Nat /\ n = k.order + 1
  BY DEF CallType
<1> HIDE DEF n
<1>2. ASSUME NEW o \in Nat, o < n PROVE o < k.order \/ o = k.order
  BY <1>1, <1>2
<1>3. AllLanded(r)'
  <2>1. \A o \in Nat : o < n => Landed(run'[r].results, o)
    BY <1>2 DEF Settled
  <2> QED
    BY <1>1, <2>1 DEF AllLanded
<1>4. CASE Halts(r, k.order)
  <2>1. j = [k EXCEPT !.pc = "skip", !.order = n, !.then = "finalize"]
    BY <1>1, <1>4 DEF AfterRecord, AfterStage
  <2>2. j.pc = "skip" /\ j.order = n /\ j.then = "finalize" /\ j.run = r
    BY <2>1 DEF CallType
  <2> QED
    BY <1>1, <1>3, <2>2 DEF DriverInOrder, Driver, Closing
<1>5. CASE ~Halts(r, k.order) /\ k.order < Last
  <2>1. j = [k EXCEPT !.pc = "start", !.order = n]
    BY <1>1, <1>5 DEF AfterRecord, AfterStage
  <2>2. j.pc = "start" /\ j.order = n /\ j.run = r
    BY <2>1 DEF CallType
  <2>3. ~Halts(r, k.order)'
    BY <1>5 DEF Halts, Orders
  <2>4. AllSettled(r)'
    <3>1. Settled(r, run[r].results, k.order)'
      BY <2>3 DEF Settled
    <3>2. \A o \in Nat : o < n => Settled(r, run[r].results, o)'
      BY <1>2, <3>1
    <3> QED
      BY <1>1, <3>2 DEF AllSettled
  <2> QED
    BY <1>1, <2>2, <2>4 DEF DriverInOrder, Driver, Closing
<1>6. CASE ~Halts(r, k.order) /\ ~(k.order < Last)
  <2>1. j = [k EXCEPT !.pc = "finalize"]
    BY <1>6 DEF AfterRecord, AfterStage
  <2>2. j.pc = "finalize" /\ j.run = r
    BY <2>1 DEF CallType
  <2>3. \A o \in Orders : Landed(run'[r].results, o)
    <3>1. \A o \in Orders : o \in Nat /\ o < n
      BY <1>1, <1>6, StagesAssumption DEF Orders
    <3> QED
      BY <1>1, <1>3, <3>1 DEF AllLanded
  <2> QED
    BY <2>2, <2>3 DEF DriverInOrder, Driver, Closing
<1> QED
  BY <1>4, <1>5, <1>6

\* A call that has filed its stage; nothing is said of a run that has ended.
LEMMA FiledInOrder ==
  ASSUME NEW F, NEW k \in CallType, NEW r \in Runs, k.run = r, k.pc \in {"record", "recordWrite"},
         k.then \in {"advance", "end"}, k.then # "advance" => run'[r].status = "CANCELLED",
         NEW j, j = AfterRecord(k),
         k.then = "advance" /\ run'[r].status = "RUNNING" => DriverInOrder(j, F)'
  PROVE  /\ CallInOrder(j, F)' /\ j.run = r /\ j.pc \in {"skip", "start", "finalize"}
         /\ Driver(j) <=> k.then = "advance"
<1> DEFINE n == k.order + 1
<1> HIDE DEF n
<1>1. CASE k.then = "advance"
  <2>1. \/ j = [k EXCEPT !.pc = "skip", !.order = n, !.then = "finalize"]
        \/ j = [k EXCEPT !.pc = "start", !.order = n]
        \/ j = [k EXCEPT !.pc = "finalize"]
    BY <1>1 DEF AfterRecord, AfterStage, n
  <2>2. /\ j.run = r /\ j.pc \in {"skip", "start", "finalize"}
        /\ j.pc = "skip" => j.then = "finalize"
    BY <2>1 DEF CallType
  <2>3. Driver(j) /\ ~Closing(j)
    BY <2>2 DEF Driver, Closing
  <2> QED
    BY <1>1, <2>2, <2>3 DEF CallInOrder
<1>2. CASE k.then = "end"
  <2>1. j = [k EXCEPT !.pc = "skip", !.order = n]
    BY <1>2 DEF AfterRecord, n
  <2>2. j.run = r /\ j.pc = "skip" /\ j.then = "end"
    BY <1>2, <2>1 DEF CallType
  <2>3. ~Driver(j)
    BY <2>2 DEF Driver
  <2> QED
    BY <1>2, <2>2, <2>3 DEF CallInOrder
<1> QED
  BY <1>1, <1>2

\* While a driver is past its stage, the stages before it are settled.
LEMMA DriverPast ==
  ASSUME NEW F, IInv, OInv(F), NEW c \in Calls, NEW k, k = call[c], Driver(k), k.pc # "launch",
         NEW o \in Nat, NEW results, PastSettled(k.run, results), o + 1 < run[k.run].current
  PROVE  Settled(k.run, results, o) /\ ~Launching(k.run)
<1>1. o < run[k.run].current
  <2>1. run[k.run].current \in Nat
    BY OrderLocal, RowTypes DEF Driver
  <2> QED
    BY <2>1
<1>2. \A d \in Calls : call[d].pc = "launch" => Driver(call[d])
  BY DEF Driver
<1> QED
  BY <1>1, <1>2 DEF PastSettled, Past, OInv, OneDriver, Launching

LEMMA RecordReadInOrder ==
  ASSUME NEW F, IInv, IInv', OInv(F), NEW c \in Calls, RecordRead(c)
  PROVE  OInv(F)'
<1>0. PICK k \in CallType : k = call[c]
  BY Local
<1> DEFINE r == k.run
           f == k.result.featureRun
           w == [k EXCEPT !.pc = "recordWrite", !.seen = run[r].results]
<1>1. /\ k.pc = "record" /\ CallOK(k) /\ CallInOrder(k, F) /\ RowInOrder(r, F) /\ r \in Runs
      /\ UNCHANGED <<run, featureRuns>> /\ k.order \in Nat /\ run[r].current \in Nat
      /\ RecordInOrder(k, F) /\ k.order <= run[r].current /\ run[r].results \in SUBSET Result
      /\ \A x \in run[r].results : x.order \in Nat
  BY <1>0, OrderLocal, RowTypes DEF RecordRead, At, CallType, CallInOrder
<1>2. /\ Driver(k) <=> k.then = "advance"
      /\ k.then # "advance" => run[r].status = "CANCELLED"
  BY <1>1 DEF Driver, Closing, CallInOrder
<1>3. CASE ~Landed(run[r].results, k.order)
  <2>1. call' = [call EXCEPT ![c] = w]
    BY <1>0, <1>3 DEF RecordRead, Go
  <2>2. /\ w \in CallType /\ w.pc = "recordWrite" /\ w.run = r /\ w.order = k.order
        /\ w.seen = run[r].results /\ w.then = k.then /\ w.result = k.result
    BY <1>1 DEF CallType, Statements
  <2> HIDE DEF w
  <2>3. (Driver(w) <=> Driver(k)) /\ (Closing(w) <=> Closing(k))
    BY <1>1, <2>2 DEF Driver, Closing
  <2>4. f # 0 => f \in Started(r) /\ featureRuns[f].order = k.order
    <3> SUFFICES ASSUME f # 0 PROVE f \in Started(r) /\ featureRuns[f].order = k.order
      OBVIOUS
    <3>1. f \in Started(r) /\ featureRuns[f].order = run[r].current
      BY <1>1 DEF CallInOrder
    <3>2. ~Past(r, k.order)
      BY <1>1, <1>3 DEF RowInOrder, PastSettled, Settled
    <3> QED
      BY <1>1, <3>1, <3>2 DEF Past, Entered
  <2>5. Driver(w) /\ run[r].status = "RUNNING" => DriverInOrder(w, F)
    BY <1>1, <2>2, <2>3 DEF CallInOrder, DriverInOrder
  <2>6. CallInOrder(w, F)
    BY <1>1, <1>3, <2>2, <2>3, <2>4, <2>5 DEF CallInOrder, RowInOrder, RecordInOrder
  <2> QED
    BY <1>0, <1>1, <2>1, <2>2, <2>3, <2>6, MovesInOrder
<1>4. CASE Landed(run[r].results, k.order)
  <2>1. PICK j \in CallType : j = AfterRecord(k)
    BY AfterRecordType
  <2>2. call' = [call EXCEPT ![c] = j]
    BY <1>0, <1>4, <2>1 DEF RecordRead, Go
  <2>3. ASSUME k.then = "advance", run'[r].status = "RUNNING"
        PROVE  DriverInOrder(j, F)'
    <3>1. /\ ~Entered(r) /\ k.order + 1 = run[r].current /\ NoneAhead(r) /\ "crash" \notin F
      BY <1>1, <1>2, <2>3 DEF CallInOrder, DriverInOrder, RecordInOrder
    <3>2. \A o \in Nat : o < k.order => Settled(r, run[r].results, o)
      <4> SUFFICES ASSUME NEW o \in Nat, o < k.order PROVE Settled(r, run[r].results, o)
        OBVIOUS
      <4>1. o + 1 < run[r].current
        BY <1>1, <3>1
      <4> QED
        BY <1>0, <1>1, <1>2, <2>3, <4>1, DriverPast DEF RowInOrder
    <3>3. \A o \in Nat : o < k.order => Settled(r, run[r].results, o)'
      BY <1>1, <3>2, SettledKept
    <3>4. ~Entered(r)' /\ NoneAhead(r)'
      BY <1>1, <3>1 DEF Entered, Started, NoneAhead
    <3> QED
      BY <1>1, <1>4, <2>1, <2>3, <3>1, <3>3, <3>4, Advanced
  <2>4. /\ CallInOrder(j, F)' /\ j.run = r /\ j.pc \in {"skip", "start", "finalize"}
        /\ Driver(j) <=> k.then = "advance"
    BY <1>1, <1>2, <2>1, <2>3, FiledInOrder DEF RecordInOrder
  <2> QED
    BY <1>0, <1>1, <1>2, <2>2, <2>4, MovesInOrder
<1> QED
  BY <1>3, <1>4

\* The tick drives on only what nobody drives.  Without crashes there is no
\* such run; with them, the stage it has read is still the current one.
LEMMA TickResumeInOrder ==
  ASSUME NEW F, IInv, IInv', OInv(F), ResumesAlone, NEW c \in Calls, TickResume(c)
  PROVE  OInv(F)'
<1>0. PICK k \in CallType : k = call[c]
  BY Local
<1> DEFINE r == k.run
           cleared == [k EXCEPT !.seen = {}]
           s == [cleared EXCEPT !.pc = "skip", !.then = "finalize"]
           b == [cleared EXCEPT !.pc = "start"]
<1>1. /\ k.pc = "tick" /\ ~Driver(k) /\ CallOK(k) /\ TickInOrder(k, F) /\ r \in Runs
      /\ RowOK(r) /\ RowInOrder(r, F)
      /\ k.order \in Nat /\ run[r].current \in Nat /\ UNCHANGED <<run, featureRuns>>
  BY <1>0, OrderLocal, RowTypes DEF TickResume, At, CallType, CallInOrder, Driver
<1>2. CASE End(c)
  BY <1>0, <1>1, <1>2, EndsInOrder DEF End
<1>3. CASE Severed(r) /\ Go(c, IF HaltHit(r, k.seen) THEN s ELSE b)
  <2>1. \A d \in Calls : ~DrivenBy(r, d)
    BY <1>0, <1>1, <1>3 DEF ResumesAlone, Severed, DrivenBy
  <2>2. \A h \in Started(r) : IsLatest(r, h) => Recorded(k.seen, h)
    BY <1>0, <1>1, LatestIsLatest DEF TickResume, StageWithoutRun, CurrentRecorded
  <2>3. \A f \in Started(r) : featureRuns[f].order # k.order
    BY <1>1, <2>2 DEF CallOK
  <2>4. run[r].status = "RUNNING" => ~Entered(r)
    <3> SUFFICES ASSUME run[r].status = "RUNNING", Entered(r) PROVE FALSE
      OBVIOUS
    <3>1. AtStage(r) /\ \E h \in Started(r) : IsLatest(r, h)
      BY <1>1 DEF AtStage, Entered, RowOK
    <3> QED
      BY <1>1, <2>2, <3>1 DEF TickInOrder, Unfiled
  <2>5. run[r].status = "RUNNING" => "crash" \in F
    BY <1>1, <2>1, <2>4 DEF OInv, Attended
  <2>6. run[r].status = "RUNNING" => k.order = run[r].current
    <3> SUFFICES ASSUME run[r].status = "RUNNING", k.order < run[r].current PROVE FALSE
      BY <1>1 DEF CallOK
    <3>1. \E f \in Started(r) : featureRuns[f].order = k.order
      BY <1>1, <2>5 DEF RowInOrder, CrashProof
    <3> QED
      BY <2>3, <3>1
  <2>7. s \in CallType /\ s.pc = "skip" /\ s.then = "finalize" /\ s.run = r /\ s.order = k.order
    BY DEF CallType, Statements, Continuations
  <2>8. b \in CallType /\ b.pc = "start" /\ b.run = r /\ b.order = k.order
    BY DEF CallType, Statements
  <2> HIDE DEF s, b
  <2>9. CASE HaltHit(r, k.seen)
    <3>1. call' = [call EXCEPT ![c] = s]
      BY <1>3, <2>9 DEF Go
    <3>2. Driver(s) /\ ~Closing(s)
      BY <2>7 DEF Driver, Closing
    <3>3. run[r].status = "RUNNING" => DriverInOrder(s, F)
      <4> SUFFICES ASSUME run[r].status = "RUNNING" PROVE DriverInOrder(s, F)
        OBVIOUS
      <4>1. HaltHit(r, run[r].results)
        BY <1>1, <2>9 DEF TickInOrder, HaltHit
      <4>2. AllLanded(r)
        BY <1>1, <2>5 DEF RowInOrder, CrashProof
      <4> QED
        BY <2>4, <2>6, <2>7, <4>1, <4>2 DEF DriverInOrder
    <3>4. CallInOrder(s, F)
      BY <2>7, <3>2, <3>3 DEF CallInOrder
    <3> QED
      BY <1>0, <1>1, <2>1, <2>7, <3>1, <3>4, MovesInOrder
  <2>10. CASE ~HaltHit(r, k.seen)
    <3>1. call' = [call EXCEPT ![c] = b]
      BY <1>3, <2>10 DEF Go
    <3>2. Driver(b) /\ ~Closing(b)
      BY <2>8 DEF Driver, Closing
    <3>3. run[r].status = "RUNNING" => DriverInOrder(b, F)
      <4> SUFFICES ASSUME run[r].status = "RUNNING" PROVE DriverInOrder(b, F)
        OBVIOUS
      <4>1. ~HaltHit(r, run[r].results) /\ CrashProof(r)
        BY <1>1, <2>5, <2>6, <2>10 DEF TickInOrder, RowInOrder
      <4>2. AllSettled(r)
        <5> SUFFICES ASSUME NEW o \in Nat, o < run[r].current,
                            NEW x \in run[r].results, x.order = o, Bad(x), Halts(r, o)
                     PROVE  FALSE
          BY <4>1 DEF AllSettled, Settled, CrashProof, AllLanded
        <5>1. x.status = "FAILED"
          BY <4>1 DEF CrashProof, Bad
        <5> QED
          BY <4>1, <5>1 DEF HaltHit
      <4>3. NoneAhead(r)
        BY <4>1 DEF CrashProof
      <4> QED
        BY <2>4, <2>6, <2>8, <4>2, <4>3 DEF DriverInOrder
    <3>4. CallInOrder(b, F)
      BY <2>8, <3>2, <3>3 DEF CallInOrder
    <3> QED
      BY <1>0, <1>1, <2>1, <2>8, <3>1, <3>4, MovesInOrder
  <2> QED
    BY <2>9, <2>10
<1> QED
  BY <1>0, <1>2, <1>3 DEF TickResume

-----------------------------------------------------------------------------
(* Calls that write the row of their run.                                  *)

\* A call writes the row of a run that does not go on, or ends it.
LEMMA RunOver ==
  ASSUME NEW F, IInv, IInv', OInv(F), NEW c \in Calls, NEW r \in Runs, featureRuns' = featureRuns,
         \A q \in Runs \ {r} : run'[q] = run[q],
         call[c].run = r, call[c].pc # "idle", run[r].status # "new",
         NEW k \in CallType, call' = [call EXCEPT ![c] = k],
         run'[r].current = run[r].current, run'[r].policy = run[r].policy,
         run'[r].status \notin {"new", "RUNNING"},
         \/ run'[r].status = run[r].status
         \/ run[r].status = "RUNNING" /\ (run'[r].status = "CANCELLED" \/ Driver(call[c])),
         PastSettled(r, run'[r].results), Attributed(r, run'[r].results),
         Finished(r)' => Judged(r, run[r].results)',
         k.pc # "idle" => k.run = r /\ k.pc # "launch" /\ CallInOrder(k, F)',
         Driver(k) => Driver(call[c])
  PROVE  OInv(F)'
<1>1. \A q : SameExecutions(q, F)
  BY DEF SameExecutions, Started
<1>2. call'[c] = k /\ \A d \in Calls \ {c} : call'[d] = call[d]
  BY CallStays DEF IInv
<1>3. Launching(r)' => Launching(r)
  BY <1>2 DEF Launching
<1>4. RowInOrder(r, F)'
  <2>1. run'[r].status \notin {"new", "RUNNING"} /\ RowInOrder(r, F)
    BY DEF OInv
  <2>2. \A o : Past(r, o)' => Past(r, o)
    BY <1>1, <1>3, PastKept
  <2>3. PastSettled(r, run[r].results)'
    BY <2>2, SettledKept DEF PastSettled
  <2>4. Attributed(r, run[r].results)'
    BY <1>1, AttributedKept DEF Attributed, SameExecutions
  <2>5. \A f \in Started(r)' : featureRuns'[f].order < run'[r].current => Terminal(f)'
    BY <1>1, <2>1, StatusKept DEF RowInOrder, SameExecutions
  <2>6. "crash" \in F => CrashProof(r)'
    BY <1>1, <2>1 DEF RowInOrder, CrashProof, SameExecutions
  <2> QED
    BY <2>1, <2>3, <2>4, <2>5, <2>6 DEF RowInOrder
<1>5. ASSUME NEW d \in Calls \ {c}, call[d].pc # "idle", call[d].run = r
      PROVE  CallInOrder(call[d], F)'
  <2>1. PICK j \in CallType : j = call[d]
    BY Local
  <2>2. CallInOrder(j, F) /\ j.run = r
    BY <1>5, <2>1 DEF OInv
  <2>3. Driver(call[c]) => ~Driver(j)
    BY <1>5, <2>1 DEF OInv, OneDriver
  <2>4. CallInOrder(j, F)'
    BY <1>1, <1>3, <2>2, <2>3, CallOutlives
  <2> QED
    BY <1>2, <2>1, <2>4
<1>6. call'[c].pc # "idle" => CallInOrder(call[c], F)'
  BY <1>2
<1>7. Attended(r)'
  BY DEF Attended
<1> QED
  BY <1>1, <1>2, <1>4, <1>5, <1>6, <1>7, StepInOrder

LEMMA StopClaimInOrder ==
  ASSUME NEW F, IInv, IInv', OInv(F), NEW c \in Calls, StopClaim(c)
  PROVE  OInv(F)'
<1>0. PICK k \in CallType : k = call[c]
  BY Local
<1> DEFINE r == k.run
           j == [k EXCEPT !.pc = "stopFind"]
           row == [run[r] EXCEPT !.status = "CANCELLED"]
<1>1. /\ k.pc = "stopClaim" /\ CallInOrder(k, F) /\ RowInOrder(r, F) /\ r \in Runs
      /\ featureRuns' = featureRuns /\ run[r] \in RowType /\ ~Driver(k)
  BY <1>0, OrderLocal, RowTypes DEF StopClaim, At, Driver
<1>2. CASE run[r].status # "RUNNING"
  BY <1>0, <1>1, <1>2, EndsInOrder DEF StopClaim, End
<1>3. CASE run[r].status = "RUNNING"
  <2>1. SetRun(r, row) /\ call' = [call EXCEPT ![c] = j]
    BY <1>0, <1>3 DEF StopClaim, Go
  <2>2. /\ row.status = "CANCELLED" /\ row.current = run[r].current
        /\ row.results = run[r].results /\ row.policy = run[r].policy
    BY <1>1 DEF RowType
  <2> HIDE DEF row
  <2>3. run'[r] = row /\ \A q \in Runs \ {r} : run'[q] = run[q]
    BY <1>1, <2>1, Types DEF SetRun, IInv
  <2>4. j \in CallType /\ j.pc = "stopFind" /\ j.run = r /\ j.order = k.order
    BY Moved DEF Statements
  <2> HIDE DEF j
  <2>5. ~Driver(j)
    BY <2>4 DEF Driver
  <2>6. CallInOrder(j, F)'
    BY <1>1, <2>2, <2>3, <2>4, <2>5 DEF CallInOrder
  <2>7. PastSettled(r, run'[r].results) /\ Attributed(r, run'[r].results) /\ ~Finished(r)'
    BY <1>1, <2>2, <2>3 DEF RowInOrder, Finished
  <2> QED
    BY <1>0, <1>1, <1>3, <2>1, <2>2, <2>3, <2>4, <2>5, <2>6, <2>7, RunOver
<1> QED
  BY <1>2, <1>3

LEMMA TickWaitInOrder ==
  ASSUME NEW F, IInv, IInv', OInv(F), NEW c \in Calls, TickWait(c)
  PROVE  OInv(F)'
<1>0. PICK k \in CallType : k = call[c]
  BY Local
<1> DEFINE r == k.run
           x == [order |-> k.order, status |-> "CANCELLED", featureRun |-> 0]
           j == [k EXCEPT !.pc = "record", !.then = "end", !.seen = {}, !.result = x]
           row == [run[r] EXCEPT !.status = "CANCELLED"]
<1>1. /\ k.pc = "tick" /\ CallOK(k) /\ RowInOrder(r, F) /\ r \in Runs /\ k.order \in Nat
      /\ featureRuns' = featureRuns /\ run[r] \in RowType /\ ~Driver(k)
      /\ k.order <= run[r].current
  BY <1>0, OrderLocal, RowTypes DEF TickWait, At, Driver, CallType, CallOK
<1>2. CASE End(c) /\ UNCHANGED run
  BY <1>0, <1>1, <1>2, EndsInOrder DEF End
<1>3. CASE run[r].status = "RUNNING" /\ SetRun(r, row) /\ Go(c, j)
  <2>1. SetRun(r, row) /\ call' = [call EXCEPT ![c] = j]
    BY <1>3 DEF Go
  <2>2. /\ row.status = "CANCELLED" /\ row.current = run[r].current
        /\ row.results = run[r].results /\ row.policy = run[r].policy
    BY <1>1 DEF RowType
  <2> HIDE DEF row
  <2>3. run'[r] = row /\ \A q \in Runs \ {r} : run'[q] = run[q]
    BY <1>1, <2>1, Types DEF SetRun, IInv
  <2>4a. x \in Result /\ x.order = k.order /\ x.featureRun = 0
    BY <1>1, ResultTypes
  <2> HIDE DEF x
  <2>4. /\ j \in CallType /\ j.pc = "record" /\ j.run = r /\ j.order = k.order
        /\ j.then = "end" /\ j.result = x
    BY <2>4a DEF CallType, Statements, Continuations
  <2> HIDE DEF j
  <2>5. ~Driver(j)
    BY <2>4 DEF Driver
  <2>6. CallInOrder(j, F)'
    BY <1>1, <2>2, <2>3, <2>4a, <2>4, <2>5 DEF CallInOrder, RecordInOrder
  <2>7. PastSettled(r, run'[r].results) /\ Attributed(r, run'[r].results) /\ ~Finished(r)'
    BY <1>1, <2>2, <2>3 DEF RowInOrder, Finished
  <2> QED
    BY <1>0, <1>1, <1>3, <2>1, <2>2, <2>3, <2>4, <2>5, <2>6, <2>7, RunOver
<1> QED
  BY <1>0, <1>2, <1>3 DEF TickWait

\* A driver writes the row of its run, which goes on.
LEMMA RunGoesOn ==
  ASSUME NEW F, IInv, IInv', OInv(F), NEW c \in Calls, NEW r \in Runs, featureRuns' = featureRuns,
         \A q \in Runs \ {r} : run'[q] = run[q],
         call[c].run = r, call[c].pc # "idle", \A d \in Calls \ {c} : ~DrivenBy(r, d),
         NEW k \in CallType, call' = [call EXCEPT ![c] = k],
         k.pc # "idle", k.run = r, Driver(k), CallInOrder(k, F)',
         run[r].status = "RUNNING", run'[r].status = "RUNNING",
         run'[r].policy = run[r].policy, run[r].results \subseteq run'[r].results,
         \/ run'[r].current = run[r].current + 1
         \/ run'[r].current = run[r].current
            /\ ("crash" \in F /\ HaltHit(r, run[r].results)' => HaltHit(r, run[r].results)),
         AtStage(r)' => AtStage(r), RowInOrder(r, F)'
  PROVE  OInv(F)'
<1>1. \A q : SameExecutions(q, F)
  BY DEF SameExecutions, Started
<1>2. call'[c] = k /\ \A d \in Calls \ {c} : call'[d] = call[d]
  BY CallStays DEF IInv
<1>3. \A d \in Calls \ {c} : call[d].pc # "idle" /\ call[d].run = r => CallInOrder(call[d], F)'
  BY <1>1, <1>2, OthersWait
<1>4. CallInOrder(call[c], F)'
  BY <1>2
<1>5. Attended(r)'
  BY <1>2 DEF Attended, DrivenBy
<1> QED
  BY <1>1, <1>2, <1>3, <1>4, <1>5, StepInOrder

\* The driver files results that are about no stage before the last decided.
LEMMA RowFiled ==
  ASSUME NEW F, IInv, OInv(F), NEW c \in Calls, NEW r \in Runs, featureRuns' = featureRuns,
         DrivenBy(r, c), call[c].pc # "launch", call'[c].pc # "launch",
         \A d \in Calls \ {c} : call'[d] = call[d],
         run[r].status = "RUNNING", run'[r].status = "RUNNING", ~Entered(r),
         run'[r].current = run[r].current, run'[r].policy = run[r].policy,
         NEW more, run'[r].results = run[r].results \cup more,
         \A x \in more : /\ x.order \in Nat /\ x.order + 1 >= run[r].current
                         /\ x.featureRun = 0
                         /\ "crash" \in F => x.order >= run[r].current,
         "crash" \in F => HaltHit(r, run[r].results)
  PROVE  RowInOrder(r, F)' /\ ~Entered(r)' /\ ~Launching(r)'
<1>1. RowInOrder(r, F) /\ run[r].current \in Nat
  BY RowTypes DEF OInv
<1>2. Started(r)' = Started(r) /\ ~Entered(r)'
  BY DEF Started, Entered
<1>3. ~Launching(r)'
  BY DEF Launching, OInv, OneDriver, DrivenBy, Driver
<1>4. ASSUME NEW o \in Nat, Past(r, o)'
      PROVE  Settled(r, run[r].results, o)'
  <2>1. o < run[r].current /\ o + 1 < run[r].current
    BY <1>2, <1>3, <1>4 DEF Past
  <2>2. Settled(r, run[r].results, o)
    BY <1>1, <2>1 DEF RowInOrder, PastSettled, Past
  <2>3. \A x \in more : x.order # o
    BY <1>1, <2>1
  <2> QED
    BY <2>2, <2>3 DEF Settled, Landed, Bad, Halts, Orders
<1>5. Attributed(r, run[r].results)'
  BY <1>1, <1>2 DEF RowInOrder, Attributed
<1>6. \A f \in Started(r)' : featureRuns'[f].order < run'[r].current =>
                               Terminal(f)' /\ Recorded(run'[r].results, f)
  BY <1>1, <1>2 DEF RowInOrder, Terminal, Recorded
<1>7. ASSUME "crash" \in F PROVE CrashProof(r)'
  <2>1. CrashProof(r)
    BY <1>1, <1>7 DEF RowInOrder
  <2>2. HaltHit(r, run[r].results)'
    BY <1>7 DEF HaltHit, Halts, Orders
  <2>3. AllLanded(r)'
    BY <2>1 DEF CrashProof, AllLanded, Landed
  <2>4. \A x \in run'[r].results : x.order < run'[r].current => x \in run[r].results
    BY <1>1, <1>7
  <2> QED
    BY <1>2, <2>1, <2>2, <2>3, <2>4 DEF CrashProof
<1>8. ~Finished(r)'
  BY DEF Finished
<1> QED
  BY <1>2, <1>3, <1>4, <1>5, <1>6, <1>7, <1>8 DEF RowInOrder, PastSettled

LEMMA RecordWriteInOrder ==
  ASSUME NEW F, IInv, IInv', OInv(F), NEW c \in Calls, RecordWrite(c)
  PROVE  OInv(F)'
<1>0. PICK k \in CallType : k = call[c]
  BY Local
<1> DEFINE r == k.run
           f == k.result.featureRun
           results == k.seen \cup {k.result}
           row == [run[r] EXCEPT !.results = results]
           w == [k EXCEPT !.seen = {}]
<1>1. /\ k.pc = "recordWrite" /\ CallOK(k) /\ CallInOrder(k, F) /\ RowInOrder(r, F) /\ r \in Runs
      /\ featureRuns' = featureRuns /\ k.order \in Nat /\ run[r].current \in Nat
      /\ RecordInOrder(k, F) /\ run[r] \in RowType /\ k.result.order = k.order
      /\ \A x \in run[r].results : x.order \in Nat
  BY <1>0, OrderLocal, RowTypes DEF RecordWrite, At, CallType, CallInOrder, RecordInOrder
<1>2. /\ Driver(k) <=> k.then = "advance"
      /\ k.then # "advance" => run[r].status = "CANCELLED"
  BY <1>1 DEF Driver, Closing, CallInOrder
<1>3. SetRun(r, row) /\ Go(c, AfterRecord(w))
  BY <1>0 DEF RecordWrite
<1>4. /\ row.status = run[r].status /\ row.current = run[r].current
      /\ row.results = results /\ row.policy = run[r].policy
  BY <1>1 DEF RowType
<1> HIDE DEF row
<1>5. run'[r] = row /\ \A q \in Runs \ {r} : run'[q] = run[q]
  BY <1>1, <1>3, Types DEF SetRun, IInv
<1>6. /\ w \in CallType /\ w.pc = "recordWrite" /\ w.run = r /\ w.order = k.order
      /\ w.then = k.then /\ w.result = k.result
  BY <1>1 DEF CallType
<1> HIDE DEF w
<1>7. PICK j \in CallType : j = AfterRecord(w)
  BY <1>6, AfterRecordType
<1>8. call' = [call EXCEPT ![c] = j]
  BY <1>3, <1>7 DEF Go
<1>9. call'[c] = j /\ \A d \in Calls \ {c} : call'[d] = call[d]
  BY <1>8, CallStays DEF IInv
<1>10. j.run = r /\ j.pc \in {"skip", "start", "finalize"} /\ (Driver(j) <=> k.then = "advance")
  <2>1. k.then = "advance" /\ run'[r].status = "RUNNING" => k.then = "advance"
    OBVIOUS
  <2> DEFINE n == w.order + 1
  <2>2. n = w.order + 1
    OBVIOUS
  <2> HIDE DEF n
  <2>3. \/ k.then = "advance"
           /\ (\/ j = [w EXCEPT !.pc = "skip", !.order = n, !.then = "finalize"]
               \/ j = [w EXCEPT !.pc = "start", !.order = n]
               \/ j = [w EXCEPT !.pc = "finalize"])
        \/ k.then = "end" /\ j = [w EXCEPT !.pc = "skip", !.order = n]
    BY <1>1, <1>6, <1>7, <2>2 DEF AfterRecord, AfterStage, RecordInOrder
  <2> QED
    BY <1>6, <2>3 DEF CallType, Driver
<1>11. CASE run[r].status = "RUNNING"
  <2>1. /\ k.then = "advance" /\ f = 0 /\ k.seen = run[r].results /\ ~Entered(r)
        /\ k.order + 1 = run[r].current /\ NoneAhead(r) /\ "crash" \notin F
    BY <1>1, <1>2, <1>11 DEF CallInOrder, DriverInOrder, CallOK, RecordInOrder
  <2>2. DrivenBy(r, c) /\ \A d \in Calls \ {c} : ~DrivenBy(r, d)
    BY <1>0, <1>1, <1>2, <2>1, OrderLocal DEF DrivenBy
  <2>3. run'[r].results = run[r].results \cup {k.result}
    BY <1>4, <1>5, <2>1
  <2>4. RowInOrder(r, F)' /\ ~Entered(r)' /\ ~Launching(r)'
    <3>1. k.order + 1 >= run[r].current
      BY <1>1, <2>1
    <3>2. call[c].pc # "launch" /\ call'[c].pc # "launch"
      BY <1>0, <1>1, <1>9, <1>10
    <3>3. \A x \in {k.result} : /\ x.order \in Nat /\ x.order + 1 >= run[r].current
                                /\ x.featureRun = 0
      BY <1>1, <2>1, <3>1
    <3> HIDE DEF results
    <3> QED
      BY <1>1, <1>4, <1>5, <1>9, <1>11, <2>1, <2>2, <2>3, <3>2, <3>3, RowFiled
  <2>5. DriverInOrder(j, F)' /\ ~Closing(j)
    <3>1. \A o \in Nat : o < k.order => Settled(r, run[r].results, o)'
      <4> SUFFICES ASSUME NEW o \in Nat, o < k.order PROVE Settled(r, run[r].results, o)'
        OBVIOUS
      <4>1. Past(r, o)'
        BY <1>1, <1>4, <1>5, <2>1 DEF Past
      <4> QED
        BY <2>4, <4>1 DEF RowInOrder, PastSettled
    <3>2. NoneAhead(r)' /\ \A x \in run'[r].results : x.order \in Nat
      BY <1>1, <1>4, <1>5, <2>1, <2>3 DEF NoneAhead
    <3>3. Landed(run'[r].results, k.order)
      BY <1>1, <2>3 DEF Landed
    <3>4. run'[r].policy = run[r].policy /\ run'[r].current = w.order + 1
      BY <1>4, <1>5, <1>6, <2>1
    <3> QED
      BY <1>1, <1>6, <1>7, <2>1, <2>4, <3>1, <3>2, <3>3, <3>4, Advanced
  <2>6. CallInOrder(j, F)'
    BY <1>10, <2>1, <2>5 DEF CallInOrder
  <2>7. AtStage(r)' => AtStage(r)
    BY <2>4 DEF AtStage, Entered
  <2>8. \/ run'[r].current = run[r].current + 1
        \/ run'[r].current = run[r].current
           /\ ("crash" \in F /\ HaltHit(r, run[r].results)' => HaltHit(r, run[r].results))
    BY <1>4, <1>5, <2>1
  <2> HIDE DEF results
  <2> QED
    BY <1>0, <1>1, <1>4, <1>5, <1>8, <1>10, <1>11, <2>1, <2>2, <2>3, <2>4, <2>6, <2>7, <2>8, RunGoesOn
<1>12. CASE run[r].status # "RUNNING"
  <2>1. run[r].status = "CANCELLED" /\ run'[r].status = "CANCELLED"
    BY <1>1, <1>4, <1>5, <1>12 DEF RecordInOrder
  <2>2. PastSettled(r, results)
    BY <1>1 DEF CallInOrder, PastSettled, Settled, Landed
  <2>3. Attributed(r, results)
    BY <1>1 DEF CallInOrder, Attributed
  <2>4. CallInOrder(j, F)'
    <3>1. k.then # "advance" => run'[r].status = "CANCELLED"
      BY <2>1
    <3>2. ~(k.then = "advance" /\ run'[r].status = "RUNNING")
      BY <2>1
    <3> QED
      BY <1>1, <1>6, <1>7, <3>1, <3>2, FiledInOrder DEF RecordInOrder
  <2>5. run'[r].results = results
    BY <1>4, <1>5
  <2> HIDE DEF results
  <2>6. PastSettled(r, run'[r].results) /\ Attributed(r, run'[r].results) /\ ~Finished(r)'
    BY <2>1, <2>2, <2>3, <2>5 DEF Finished
  <2>7. Driver(j) => Driver(call[c])
    BY <1>0, <1>2, <1>10
  <2> QED
    BY <1>0, <1>1, <1>4, <1>5, <1>8, <1>10, <2>1, <2>4, <2>6, <2>7, RunOver
<1> QED
  BY <1>11, <1>12

LEMMA SkipWriteInOrder ==
  ASSUME NEW F, IInv, IInv', OInv(F), NEW c \in Calls, SkipWrite(c)
  PROVE  OInv(F)'
<1>0. PICK k \in CallType : k = call[c]
  BY Local
<1> DEFINE r == k.run
           more == {Skipped(s) : s \in {t \in Orders : t >= k.order /\ ~Landed(k.seen, t)}}
           results == k.seen \cup more
           row == [run[r] EXCEPT !.results = results]
           j == [k EXCEPT !.pc = "finalize", !.seen = {}]
<1>1. /\ k.pc = "skipWrite" /\ CallOK(k) /\ CallInOrder(k, F) /\ RowInOrder(r, F) /\ r \in Runs
      /\ featureRuns' = featureRuns /\ k.order \in Nat /\ run[r].current \in Nat
      /\ run[r] \in RowType /\ run[r].status # "new"
  BY <1>0, OrderLocal, RowTypes DEF SkipWrite, At, CallType, CallOK
<1>2. /\ Driver(k) <=> k.then = "finalize"
      /\ k.then # "finalize" => run[r].status = "CANCELLED"
  BY <1>1 DEF Driver, Closing, CallInOrder
<1>3. SetRun(r, row)
  BY <1>0 DEF SkipWrite, SkipFrom
<1>4. \A x \in more : /\ x.order \in Orders /\ x.order >= k.order /\ x.featureRun = 0
                      /\ ~Landed(k.seen, x.order)
  BY DEF Skipped
<1>5. \A o \in Orders : o >= k.order => Landed(results, o)
  <2> SUFFICES ASSUME NEW o \in Orders, o >= k.order, ~Landed(k.seen, o)
               PROVE  Landed(results, o)
    BY DEF Landed
  <2>1. Skipped(o) \in more /\ Skipped(o).order = o
    BY DEF Skipped
  <2> QED
    BY <2>1 DEF Landed
<1>6. /\ row.status = run[r].status /\ row.current = run[r].current
      /\ row.results = results /\ row.policy = run[r].policy
  BY <1>1 DEF RowType
<1> HIDE DEF row
<1>7. run'[r] = row /\ \A q \in Runs \ {r} : run'[q] = run[q]
  BY <1>1, <1>3, Types DEF SetRun, IInv
<1>8. j \in CallType /\ j.pc = "finalize" /\ j.run = r /\ Driver(j) /\ ~Closing(j)
  BY <1>1 DEF CallType, Statements, Driver, Closing
<1>9. IF k.then = "finalize" THEN call' = [call EXCEPT ![c] = j]
      ELSE call' = [call EXCEPT ![c] = Idle]
  BY <1>0 DEF SkipWrite, Go, End
<1> HIDE DEF j, more
<1>10. CASE run[r].status = "RUNNING"
  <2>1. /\ k.then = "finalize" /\ k.seen = run[r].results /\ ~Entered(r)
        /\ k.order = run[r].current /\ AllLanded(r)
        /\ "crash" \in F => HaltHit(r, run[r].results)
    BY <1>1, <1>2, <1>10 DEF CallInOrder, DriverInOrder
  <2>2. /\ DrivenBy(r, c) /\ \A d \in Calls \ {c} : ~DrivenBy(r, d)
        /\ call' = [call EXCEPT ![c] = j]
    BY <1>0, <1>1, <1>2, <1>9, <2>1, OrderLocal DEF DrivenBy
  <2>3. call'[c] = j /\ \A d \in Calls \ {c} : call'[d] = call[d]
    BY <1>8, <2>2, CallStays DEF IInv
  <2>4. run'[r].results = run[r].results \cup more
    BY <1>6, <1>7, <2>1
  <2>5. RowInOrder(r, F)' /\ ~Entered(r)'
    <3>1. \A x \in more : /\ x.order \in Nat /\ x.order + 1 >= run[r].current
                          /\ x.featureRun = 0 /\ x.order >= run[r].current
      BY <1>1, <1>4, <2>1 DEF Orders
    <3>2. call[c].pc # "launch" /\ call'[c].pc # "launch"
      BY <1>0, <1>1, <1>8, <2>3
    <3> HIDE DEF results
    <3> QED
      BY <1>1, <1>6, <1>7, <1>10, <2>1, <2>2, <2>3, <2>4, <3>1, <3>2, RowFiled
  <2>6. CallInOrder(j, F)'
    <3>1. \A o \in Orders : Landed(run'[r].results, o)
      <4> SUFFICES ASSUME NEW o \in Orders PROVE Landed(run'[r].results, o)
        OBVIOUS
      <4>1. o \in Nat
        BY DEF Orders
      <4>2. CASE o < run[r].current
        BY <2>1, <2>4, <4>1, <4>2 DEF AllLanded, Landed
      <4>3. CASE o >= run[r].current
        BY <1>5, <2>1, <2>4, <4>3
      <4> QED
        BY <1>1, <4>1, <4>2, <4>3
    <3>2. DriverInOrder(j, F)'
      BY <1>8, <2>5, <3>1 DEF DriverInOrder
    <3> QED
      BY <1>8, <3>2 DEF CallInOrder
  <2>7. AtStage(r)' => AtStage(r)
    BY <2>5 DEF AtStage, Entered
  <2>8. "crash" \in F /\ HaltHit(r, run[r].results)' => HaltHit(r, run[r].results)
    BY <2>1
  <2>9. k.pc # "idle" /\ j.pc # "idle" /\ run[r].results \subseteq run'[r].results
    BY <1>1, <1>8, <2>4
  <2> HIDE DEF results
  <2> QED
    BY <1>0, <1>1, <1>6, <1>7, <1>8, <1>10, <2>2, <2>5, <2>6, <2>7, <2>8, <2>9, RunGoesOn
<1>11. CASE run[r].status # "RUNNING"
  <2>1. PastSettled(r, results)
    <3> SUFFICES ASSUME NEW o \in Nat, Past(r, o) PROVE Settled(r, results, o)
      BY DEF PastSettled
    <3>1. Settled(r, k.seen, o)
      BY <1>1 DEF CallInOrder, PastSettled
    <3> QED
      BY <1>4, <3>1 DEF Settled, Landed
  <2>2. Attributed(r, results)
    BY <1>1, <1>4 DEF CallInOrder, Attributed
  <2>3. Finished(r) => Judged(r, results)
    <3> SUFFICES ASSUME Finished(r) PROVE Judged(r, results)
      OBVIOUS
    <3>1. Judged(r, k.seen)
      BY <1>1 DEF CallInOrder
    <3>2. more = {}
      BY <1>4, <3>1 DEF Judged
    <3> QED
      BY <3>1, <3>2
  <2>4. run'[r].results = results /\ run'[r].status = run[r].status
    BY <1>6, <1>7
  <2> HIDE DEF results
  <2>5. Finished(r)' => Judged(r, run[r].results)'
    BY <2>3, <2>4 DEF Finished, Judged, Landed, Bad
  <2>6. PastSettled(r, run'[r].results) /\ Attributed(r, run'[r].results)
    BY <2>1, <2>2, <2>4
  <2>7. PICK i \in CallType : /\ call' = [call EXCEPT ![c] = i]
                              /\ \/ i = j /\ k.then = "finalize"
                                 \/ i = Idle
    BY <1>8, <1>9, IdleType
  <2>8. i.pc # "idle" => i.run = r /\ i.pc # "launch" /\ CallInOrder(i, F)'
    <3>1. CallInOrder(j, F)'
      BY <1>6, <1>7, <1>8, <1>11 DEF CallInOrder
    <3> QED
      BY <1>8, <2>7, <3>1 DEF Idle
  <2>9. Driver(i) => Driver(call[c])
    <3>1. ~Driver(Idle)
      BY DEF Driver, Idle
    <3> QED
      BY <1>0, <1>2, <2>7, <3>1
  <2>10. k.pc # "idle" /\ run'[r].status \notin {"new", "RUNNING"}
    BY <1>1, <1>11, <2>4
  <2> QED
    BY <1>0, <1>1, <1>6, <1>7, <2>4, <2>5, <2>6, <2>7, <2>8, <2>9, <2>10, RunOver
<1> QED
  BY <1>10, <1>11

LEMMA FinishInOrder ==
  ASSUME NEW F, IInv, IInv', OInv(F), NEW c \in Calls, Finish(c)
  PROVE  OInv(F)'
<1>0. PICK k \in CallType : k = call[c]
  BY Local
<1> DEFINE r == k.run
           s == IF run[r].status = "RUNNING" THEN k.then ELSE run[r].status
           row == [run[r] EXCEPT !.status = s]
<1>1. /\ k.pc = "finish" /\ CallOK(k) /\ CallInOrder(k, F) /\ RowInOrder(r, F) /\ r \in Runs
      /\ featureRuns' = featureRuns /\ run[r] \in RowType /\ run[r].status # "new"
      /\ Driver(k) /\ k.then \in {"COMPLETE", "FAILED"}
  BY <1>0, OrderLocal, RowTypes DEF Finish, At, CallOK, Driver
<1>2. s \notin {"new", "RUNNING"}
  BY <1>1
<1>3. run' = [run EXCEPT ![r] = row]
  BY <1>0 DEF Finish
<1>4. row.current = run[r].current /\ row.results = run[r].results
      /\ row.policy = run[r].policy /\ row.status = s
  BY <1>1 DEF RowType
<1> HIDE DEF row
<1>5. run'[r] = row /\ \A q \in Runs \ {r} : run'[q] = run[q]
  BY <1>1, <1>3, Types DEF IInv
<1>6. Finished(r)' => Judged(r, run[r].results)'
  <2>1. CASE run[r].status = "RUNNING"
    <3>1. k.then = Verdict(run[r].results) /\ \A o \in Orders : Landed(run[r].results, o)
      BY <1>1, <2>1 DEF CallInOrder, DriverInOrder
    <3>2. s = "COMPLETE" => \A x \in run[r].results : ~Bad(x)
      BY <2>1, <3>1 DEF Verdict
    <3> HIDE DEF s
    <3> QED
      BY <1>4, <1>5, <3>1, <3>2 DEF Judged, Landed, Bad
  <2>2. CASE run[r].status # "RUNNING"
    BY <1>1, <1>4, <1>5, <2>2 DEF RowInOrder, Finished, Judged, Landed, Bad
  <2> QED
    BY <2>1, <2>2
<1>7. PICK i \in CallType : i = Idle
  BY IdleType
<1>8. i.pc = "idle" /\ ~Driver(i) /\ call' = [call EXCEPT ![c] = i]
  BY <1>7 DEF Idle, Driver, Finish, End
<1>9. PastSettled(r, run'[r].results) /\ Attributed(r, run'[r].results)
  BY <1>1, <1>4, <1>5 DEF RowInOrder
<1>10. \/ run'[r].status = run[r].status
       \/ run[r].status = "RUNNING" /\ (run'[r].status = "CANCELLED" \/ Driver(call[c]))
  BY <1>0, <1>1, <1>4, <1>5
<1>11. call[c].run = r /\ call[c].pc # "idle" /\ run'[r].status \notin {"new", "RUNNING"}
  BY <1>0, <1>1, <1>2, <1>4, <1>5
<1> HIDE DEF s
<1> QED
  BY <1>1, <1>4, <1>5, <1>6, <1>8, <1>9, <1>10, <1>11, RunOver

\* A run is created with nothing decided.
LEMMA CreateInOrder ==
  ASSUME NEW F, IInv, IInv', OInv(F), NEW c \in Calls, Create(c)
  PROVE  OInv(F)'
<1>0. PICK k \in CallType : k = call[c]
  BY Local
<1> DEFINE r == k.run
           j == [k EXCEPT !.pc = "start"]
<1>1. /\ k.pc = "create" /\ CallOK(k) /\ RowOK(r) /\ RowInOrder(r, F) /\ r \in Runs
      /\ run[r] \in RowType /\ run[r].status = "new" /\ featureRuns' = featureRuns
  BY <1>0, OrderLocal, RowTypes DEF Create, At, CallOK
<1>2. PICK p \in Policies : SetRun(r, [run[r] EXCEPT !.status = "RUNNING", !.policy = p])
  BY <1>0 DEF Create
<1>3. /\ \A q \in Runs \ {r} : run'[q] = run[q]
      /\ run'[r].status = "RUNNING" /\ run'[r].current = 0 /\ run'[r].results = {}
  <2>1. run'[r] = [run[r] EXCEPT !.status = "RUNNING", !.policy = p]
        /\ \A q \in Runs \ {r} : run'[q] = run[q]
    BY <1>1, <1>2, Types DEF SetRun, IInv
  <2> QED
    BY <1>1, <2>1 DEF RowOK, RowInOrder, RowType
<1>4. j \in CallType /\ j.pc = "start" /\ j.run = r /\ j.order = 0 /\ Driver(j) /\ ~Closing(j)
  BY <1>1 DEF CallType, Statements, Driver, Closing, CallOK
<1>5. call' = [call EXCEPT ![c] = j]
  BY <1>0 DEF Create, Go
<1> HIDE DEF j
<1>6. call'[c] = j /\ \A d \in Calls \ {c} : call'[d] = call[d]
  BY <1>4, <1>5, CallStays DEF IInv
<1>7. \A d \in Calls \ {c} : call[d].pc # "idle" => call[d].run # r
  BY <1>0, <1>1 DEF IInv, Apart
<1>8. Started(r)' = {} /\ ~Entered(r)' /\ \A q : SameExecutions(q, F)
  BY <1>1 DEF RowOK, Started, Entered, SameExecutions
<1>9. \A o \in Nat : ~(o < run'[r].current)
  BY <1>3
<1>10. RowInOrder(r, F)'
  BY <1>3, <1>8, <1>9 DEF RowInOrder, PastSettled, Past, Attributed, Finished, CrashProof,
                          AllLanded, NoneAhead
<1>11. DriverInOrder(j, F)'
  BY <1>3, <1>4, <1>8, <1>9 DEF DriverInOrder, AllSettled, NoneAhead
<1>12. CallInOrder(j, F)'
  BY <1>4, <1>11 DEF CallInOrder
<1>13. CallInOrder(call[c], F)' /\ Attended(r)'
  BY <1>4, <1>6, <1>12 DEF Attended, DrivenBy
<1>14. \A d \in Calls \ {c} : ~DrivenBy(r, d)
  BY <1>7 DEF DrivenBy, Driver
<1> QED
  BY <1>0, <1>1, <1>3, <1>4, <1>6, <1>7, <1>8, <1>10, <1>13, <1>14, StepInOrder

\* The driver decides the current stage, which could not be started.
LEMMA ClaimFailedInOrder ==
  ASSUME NEW F, IInv, IInv', OInv(F), NEW c \in Calls, ClaimFailed(c)
  PROVE  OInv(F)'
<1>0. PICK k \in CallType : k = call[c]
  BY Local
<1> DEFINE r == k.run
           n == k.order + 1
           x == [order |-> k.order, status |-> "FAILED", featureRun |-> 0]
           j == [k EXCEPT !.pc = "record", !.then = "advance", !.result = x]
           row == [run[r] EXCEPT !.current = n]
<1>1. /\ k.pc = "claimFailed" /\ CallOK(k) /\ CallInOrder(k, F) /\ RowInOrder(r, F) /\ r \in Runs
      /\ featureRuns' = featureRuns /\ run[r] \in RowType /\ Driver(k) /\ "crash" \notin F
      /\ k.order \in Nat /\ run[r].current \in Nat
      /\ \A d \in Calls \ {c} : ~DrivenBy(r, d)
      /\ run[r].status = "RUNNING" => DriverInOrder(k, F) /\ k.order = run[r].current
  BY <1>0, OrderLocal, RowTypes DEF ClaimFailed, At, CallType, CallInOrder, DriverInOrder, Driver
<1>2. CASE End(c) /\ UNCHANGED run /\ ~Claims(r, k.order)
  BY <1>0, <1>1, <1>2, EndsInOrder DEF End, Claims
<1>3. CASE Claims(r, k.order) /\ SetRun(r, row) /\ Go(c, j)
  <2>1. run[r].status = "RUNNING" /\ k.order = run[r].current /\ call' = [call EXCEPT ![c] = j]
    BY <1>3 DEF Claims, Go
  <2>2. /\ row.status = "RUNNING" /\ row.current = n /\ row.results = run[r].results
        /\ row.policy = run[r].policy
    BY <1>1, <2>1 DEF RowType
  <2> HIDE DEF row
  <2>3. run'[r] = row /\ \A q \in Runs \ {r} : run'[q] = run[q]
    BY <1>1, <1>3, Types DEF SetRun, IInv
  <2>4. x \in Result /\ x.order = k.order
    BY <1>1, ResultTypes
  <2> HIDE DEF x
  <2>5. /\ j \in CallType /\ j.pc = "record" /\ j.then = "advance" /\ j.run = r
        /\ j.order = k.order /\ j.result = x
    BY <2>4 DEF CallType, Statements, Continuations
  <2> HIDE DEF j
  <2>6. Driver(j) /\ ~Closing(j)
    BY <2>5 DEF Driver, Closing
  <2>7. ~Entered(r) /\ AllSettled(r) /\ NoneAhead(r)
    BY <1>1, <2>1 DEF DriverInOrder
  <2>8. Started(r)' = Started(r) /\ \A f \in Started(r) : featureRuns[f].order \in Nat
        /\ featureRuns[f].order < run[r].current
    <3>1. \A f \in Started(r) : featureRuns[f].order \in Nat
            /\ featureRuns[f].order <= run[r].current /\ featureRuns[f].order # run[r].current
      BY <1>1, <2>7, RowTypes DEF Entered
    <3> QED
      BY <1>1, <3>1 DEF Started
  <2>9. ~Entered(r)'
    BY <1>1, <2>1, <2>2, <2>3, <2>8 DEF Entered
  <2>10. call'[c] = j /\ \A d \in Calls \ {c} : call'[d] = call[d]
    BY <2>1, <2>5, CallStays DEF IInv
  <2>11. ~Launching(r)'
    BY <1>1, <2>5, <2>10 DEF Launching, DrivenBy, Driver
  <2>12. NoneAhead(r)'
    <3>1. \A y \in run[r].results : y.order \in Nat
      BY <1>1, RowTypes
    <3> QED
      BY <1>1, <2>1, <2>2, <2>3, <2>7, <3>1 DEF NoneAhead
  <2>13. RowInOrder(r, F)'
    <3>1. PastSettled(r, run[r].results)'
      <4> SUFFICES ASSUME NEW o \in Nat, Past(r, o)' PROVE Settled(r, run[r].results, o)'
        BY DEF PastSettled
      <4>1. o < run[r].current
        BY <1>1, <2>1, <2>2, <2>3, <2>9, <2>11 DEF Past
      <4>2. Settled(r, run[r].results, o)
        BY <2>7, <4>1 DEF AllSettled
      <4> QED
        BY <2>2, <2>3, <4>2 DEF Settled, Landed, Bad, Halts, Orders
    <3>2. Attributed(r, run[r].results)'
      BY <1>1, <2>2, <2>3, <2>8 DEF RowInOrder, Attributed
    <3>3. \A f \in Started(r)' : Terminal(f)' /\ Recorded(run'[r].results, f)
      BY <1>1, <2>1, <2>2, <2>3, <2>8 DEF RowInOrder, Terminal, Recorded
    <3> QED
      BY <1>1, <2>2, <2>3, <2>9, <3>1, <3>2, <3>3 DEF RowInOrder, Finished
  <2>14. DriverInOrder(j, F)'
    BY <2>1, <2>2, <2>3, <2>5, <2>9, <2>12 DEF DriverInOrder
  <2>15. CallInOrder(j, F)'
    <3>1. j.result.featureRun = 0
      BY <2>5 DEF x
    <3>2. RecordInOrder(j, F)' /\ j.order <= run'[r].current
      BY <1>1, <2>1, <2>2, <2>3, <2>4, <2>5 DEF RecordInOrder
    <3> QED
      BY <2>5, <2>6, <2>14, <3>1, <3>2 DEF CallInOrder
  <2>16. AtStage(r)' => AtStage(r)
    BY <2>9 DEF AtStage, Entered
  <2>17. run'[r].current = run[r].current + 1 /\ call[c].pc # "idle"
    BY <1>0, <1>1, <2>1, <2>2, <2>3
  <2>18. run[r].results \subseteq run'[r].results
    BY <2>2, <2>3
  <2> QED
    BY <1>0, <1>1, <2>1, <2>2, <2>3, <2>5, <2>6, <2>13, <2>15, <2>16, <2>17, <2>18, RunGoesOn
<1> QED
  BY <1>0, <1>2, <1>3 DEF ClaimFailed

\* The claim of a stage whose feature run has ended: nobody drives the run
\* meanwhile, and every stage is settled after it if this one does not halt.
LEMMA ClaimInOrderStep ==
  ASSUME NEW F, IInv, IInv', OInv(F), NEW c \in Calls, Claim(c)
  PROVE  OInv(F)'
<1>0. PICK k \in CallType : k = call[c]
  BY Local
<1> DEFINE r == k.run
           n == k.order + 1
           f == k.result.featureRun
           results == IF Landed(run[r].results, k.order) THEN run[r].results
                      ELSE run[r].results \cup {k.result}
           row == [run[r] EXCEPT !.current = n, !.results = results]
<1>1. /\ k.pc = "claim" /\ CallOK(k) /\ ClaimInOrder(k) /\ RowInOrder(r, F) /\ r \in Runs
      /\ featureRuns' = featureRuns /\ run[r] \in RowType /\ ~Driver(k)
      /\ k.order \in Nat /\ run[r].current \in Nat
      /\ \A x \in run[r].results : x.order \in Nat
  BY <1>0, OrderLocal, RowTypes DEF Claim, At, CallType, CallInOrder, Driver
<1>2. CASE End(c) /\ UNCHANGED run
  BY <1>0, <1>1, <1>2, EndsInOrder DEF End
<1>3. CASE /\ Claims(r, k.order) /\ SetRun(r, row)
           /\ Go(c, AfterStage(k, k.order, Bad(k.result)))
  <2>1. run[r].status = "RUNNING" /\ k.order = run[r].current
    BY <1>3 DEF Claims
  <2>2. /\ f \in Started(r) /\ Terminal(f) /\ featureRuns[f].order = run[r].current
        /\ k.result.status = featureRuns[f].status /\ k.result.order = k.order
    BY <1>1, <2>1 DEF ClaimInOrder
  <2>3. Entered(r) /\ NoneAhead(r)
    BY <1>1, <2>1, <2>2 DEF Entered, RowInOrder
  <2>4. results = run[r].results \cup {k.result}
    BY <1>1, <2>1, <2>3 DEF NoneAhead, Landed
  <2>5. \A d \in Calls : ~DrivenBy(r, d)
    BY <2>1, <2>3, OrderLocal DEF DrivenBy, Driver, DriverInOrder
  <2>6. /\ row.status = "RUNNING" /\ row.current = n /\ row.results = results
        /\ row.policy = run[r].policy
    BY <1>1, <2>1 DEF RowType
  <2>6a. n = k.order + 1 /\ n \in Nat
    BY <1>1
  <2> HIDE DEF row, results, n
  <2>7. run'[r] = row /\ \A q \in Runs \ {r} : run'[q] = run[q]
    BY <1>1, <1>3, Types DEF SetRun, IInv
  <2>8. PICK j \in CallType : j = AfterStage(k, k.order, Bad(k.result))
    BY <1>1, AfterStageType
  <2>9. call' = [call EXCEPT ![c] = j]
    BY <1>3, <2>8 DEF Go
  <2>10. \/ /\ Bad(k.result) /\ Halts(r, k.order)
            /\ j.pc = "skip" /\ j.order = n /\ j.then = "finalize"
         \/ /\ ~(Bad(k.result) /\ Halts(r, k.order))
            /\ k.order < Last /\ j.pc = "start" /\ j.order = n
         \/ ~(k.order < Last) /\ j.pc = "finalize"
    <3>1. \/ /\ Bad(k.result) /\ Halts(r, k.order)
             /\ j = [k EXCEPT !.pc = "skip", !.order = n, !.then = "finalize"]
          \/ /\ ~(Bad(k.result) /\ Halts(r, k.order))
             /\ k.order < Last /\ j = [k EXCEPT !.pc = "start", !.order = n]
          \/ ~(k.order < Last) /\ j = [k EXCEPT !.pc = "finalize"]
      BY <2>6a, <2>8 DEF AfterStage
    <3> QED
      BY <3>1 DEF CallType
  <2>11. j.run = r /\ Driver(j) /\ ~Closing(j)
    <3>1. j.run = r
      BY <2>8 DEF AfterStage, CallType
    <3> QED
      BY <2>10, <3>1 DEF Driver, Closing
  <2>12. call'[c] = j /\ \A d \in Calls \ {c} : call'[d] = call[d]
    BY <2>8, <2>9, CallStays DEF IInv
  <2>13. Started(r)' = Started(r) /\ \A g \in Started(r) :
           /\ featureRuns[g].order < n
           /\ featureRuns[g].order < run[r].current \/ g = f
    <3>1. \A g \in Started(r) : featureRuns[g].order \in Nat
            /\ featureRuns[g].order <= run[r].current
            /\ (featureRuns[g].order = run[r].current => g = f)
      BY <1>1, <2>2, RowTypes
    <3>2. Started(r)' = Started(r)
      BY <1>1 DEF Started
    <3> QED
      BY <1>1, <2>1, <2>6a, <3>1, <3>2
  <2>14. ~Entered(r)' /\ ~Launching(r)'
    <3>1. ~Entered(r)'
      BY <1>1, <2>6, <2>6a, <2>7, <2>13, RowTypes DEF Entered
    <3>2. ~Launching(r)'
      BY <2>5, <2>10, <2>12 DEF Launching, DrivenBy, Driver
    <3> QED
      BY <3>1, <3>2
  <2>15. \A o \in Nat : o < n => o < run[r].current \/ o = k.order
    BY <1>1, <2>1, <2>6a
  <2>16. \A o \in Nat : o < run[r].current => Settled(r, run[r].results, o)'
    <3> SUFFICES ASSUME NEW o \in Nat, o < run[r].current
                 PROVE  Settled(r, run[r].results, o)'
      OBVIOUS
    <3>1. Settled(r, run[r].results, o)
      BY <1>1, <2>3 DEF RowInOrder, PastSettled, Past
    <3>2. k.result.order # o
      BY <1>1, <2>1, <2>2
    <3> QED
      BY <2>4, <2>6, <2>7, <3>1, <3>2 DEF Settled, Landed, Bad, Halts, Orders
  <2>17. Landed(run'[r].results, k.order)
    BY <2>2, <2>4, <2>6, <2>7 DEF Landed
  <2>18. NoneAhead(r)'
    <3> SUFFICES ASSUME NEW x \in run'[r].results PROVE x.order < run'[r].current
      BY DEF NoneAhead
    <3>1. x \in run[r].results \/ x = k.result
      BY <2>4, <2>6, <2>7
    <3> QED
      BY <1>1, <2>1, <2>2, <2>3, <2>6, <2>6a, <2>7, <3>1 DEF NoneAhead
  <2>19. AllLanded(r)'
    <3>1. \A o \in Nat : o < n => Landed(run'[r].results, o)
      BY <2>15, <2>16, <2>17 DEF Settled
    <3> QED
      BY <2>6, <2>7, <3>1 DEF AllLanded
  <2>20. RowInOrder(r, F)'
    <3>1. PastSettled(r, run[r].results)'
      <4> SUFFICES ASSUME NEW o \in Nat, Past(r, o)' PROVE Settled(r, run[r].results, o)'
        BY DEF PastSettled
      <4>1. o < run[r].current
        BY <1>1, <2>1, <2>6, <2>6a, <2>7, <2>14 DEF Past
      <4> QED
        BY <2>16, <4>1
    <3>2. Attributed(r, run[r].results)'
      BY <1>1, <2>1, <2>2, <2>4, <2>6, <2>7, <2>13 DEF RowInOrder, Attributed
    <3>3. \A g \in Started(r)' : Terminal(g)' /\ Recorded(run'[r].results, g)
      BY <1>1, <2>1, <2>2, <2>4, <2>6, <2>7, <2>13 DEF RowInOrder, Terminal, Recorded
    <3>4. ASSUME "crash" \in F PROVE CrashProof(r)'
      <4>1. CrashProof(r)
        BY <1>1, <3>4 DEF RowInOrder
      <4>2. \A o \in Nat : o < run'[r].current => \E g \in Started(r)' : featureRuns'[g].order = o
        BY <1>1, <2>1, <2>2, <2>6, <2>7, <2>13, <2>15, <4>1 DEF CrashProof
      <4>3. k.result.status \in {"PASSED", "FAILED"}
        <5>1. featureRuns[f].status \in FeatureStatuses
          BY <2>2, FeatureRunTypes DEF IInv, FeatureRunType, Started
        <5> QED
          BY <2>1, <2>2, <4>1, <5>1 DEF CrashProof, FeatureStatuses, Terminal
      <4>4. \A x \in run'[r].results : x.status \in {"PASSED", "FAILED"}
        BY <2>1, <2>3, <2>4, <2>6, <2>7, <4>1, <4>3 DEF CrashProof, NoneAhead
      <4>5. \A g \in Started(r)' : featureRuns'[g].status # "CANCELLED"
        BY <1>1, <2>1, <2>13, <4>1 DEF CrashProof
      <4> QED
        BY <2>18, <2>19, <4>2, <4>4, <4>5 DEF CrashProof
    <3> QED
      BY <2>6, <2>7, <2>14, <3>1, <3>2, <3>3, <3>4 DEF RowInOrder, Finished
  <2>21. DriverInOrder(j, F)'
    <3>1. CASE Bad(k.result) /\ Halts(r, k.order) /\ j.pc = "skip" /\ j.order = n
      <4>1. ASSUME "crash" \in F PROVE HaltHit(r, run[r].results)'
        <5>1. k.result \in run'[r].results /\ k.result.order < run'[r].current
          BY <2>2, <2>4, <2>6, <2>7, <2>18 DEF NoneAhead
        <5>2. k.result.status = "FAILED"
          BY <2>6, <2>7, <2>20, <3>1, <4>1, <5>1 DEF RowInOrder, CrashProof, Bad
        <5>3. Halts(r, k.result.order)'
          BY <2>2, <2>6, <2>7, <3>1 DEF Halts, Orders
        <5> QED
          BY <5>1, <5>2, <5>3 DEF HaltHit
      <4> QED
        BY <2>6, <2>7, <2>11, <2>14, <2>19, <3>1, <4>1 DEF DriverInOrder
    <3>2. CASE ~(Bad(k.result) /\ Halts(r, k.order)) /\ j.pc = "start" /\ j.order = n
      <4>1. Settled(r, run[r].results, k.order)'
        <5>1. ASSUME NEW x \in run'[r].results, x.order = k.order PROVE x = k.result
          BY <1>1, <2>1, <2>3, <2>4, <2>6, <2>7, <5>1 DEF NoneAhead
        <5>2. Bad(k.result) => ~Halts(r, k.order)'
          BY <2>6, <2>7, <3>2 DEF Halts, Orders
        <5> QED
          BY <2>17, <5>1, <5>2 DEF Settled, Bad
      <4>2. AllSettled(r)'
        BY <2>6, <2>7, <2>15, <2>16, <4>1 DEF AllSettled
      <4> QED
        BY <2>6, <2>7, <2>11, <2>14, <2>18, <3>2, <4>2 DEF DriverInOrder
    <3>3. CASE ~(k.order < Last) /\ j.pc = "finalize"
      <4>1. \A o \in Orders : o \in Nat /\ o < n
        BY <1>1, <2>6a, <3>3, StagesAssumption DEF Orders
      <4>2. \A o \in Orders : Landed(run'[r].results, o)
        BY <2>6, <2>7, <2>19, <4>1 DEF AllLanded
      <4> QED
        BY <2>11, <2>14, <3>3, <4>2 DEF DriverInOrder
    <3> QED
      BY <2>10, <3>1, <3>2, <3>3
  <2>22. CallInOrder(j, F)'
    BY <2>10, <2>11, <2>21 DEF CallInOrder
  <2>23. AtStage(r)' => AtStage(r)
    BY <2>14 DEF AtStage, Entered
  <2>24. /\ run'[r].current = run[r].current + 1 /\ call[c].pc # "idle" /\ j.pc # "idle"
         /\ run[r].results \subseteq run'[r].results
    BY <1>0, <1>1, <2>1, <2>4, <2>6, <2>6a, <2>7, <2>10
  <2> QED
    BY <1>0, <1>1, <2>1, <2>5, <2>6, <2>7, <2>8, <2>9, <2>11, <2>20, <2>22, <2>23, <2>24, RunGoesOn
<1> QED
  BY <1>0, <1>2, <1>3 DEF Claim

-----------------------------------------------------------------------------
(* Feature runs start and end.                                             *)

\* A call of a run that has ended, while a late call starts a stage of it.
LEMMA CallUnmoved ==
  ASSUME NEW F, IInv, NEW k \in CallType, NEW r \in Runs, k.run = r, CallInOrder(k, F),
         run' = run, run[r].status # "RUNNING", k.pc # "launch",
         Started(r) \subseteq Started(r)', \A o : Past(r, o)' => Past(r, o),
         \A f \in Started(r) : featureRuns'[f] = featureRuns[f]
  PROVE  CallInOrder(k, F)'
<1>1. \A results, o : Settled(r, results, o) => Settled(r, results, o)'
  BY SettledKept
<1>2. \A results : PastSettled(r, results) => PastSettled(r, results)'
  BY <1>1 DEF PastSettled
<1>3. \A results : Attributed(r, results) => Attributed(r, results)'
  BY DEF Attributed
<1>4. k.pc = "claim" => ClaimInOrder(k)'
  BY DEF CallInOrder, ClaimInOrder, Terminal
<1>5. k.pc = "tick" => TickInOrder(k, F)'
  BY DEF TickInOrder, Unfiled, AtStage
<1>6. k.pc \in {"record", "recordWrite"} => RecordInOrder(k, F)'
  BY DEF CallInOrder, RecordInOrder
<1>7. k.pc = "skipWrite" /\ Finished(r)' => Judged(r, k.seen)'
  BY DEF CallInOrder, Finished, Judged, Landed, Bad
<1>8. k.pc = "recordWrite" => ~Landed(k.seen, k.order)'
  BY DEF CallInOrder, Landed
<1> QED
  BY <1>2, <1>3, <1>4, <1>5, <1>6, <1>7, <1>8 DEF CallInOrder, Closing

LEMMA LaunchInOrder ==
  ASSUME NEW F, IInv, IInv', OInv(F), NEW c \in Calls, Launch(c)
  PROVE  OInv(F)'
<1>0. PICK k \in CallType : k = call[c]
  BY Local
<1> DEFINE r == k.run
           n == Len(featureRuns) + 1
<1>1. /\ k.pc = "launch" /\ CallOK(k) /\ CallInOrder(k, F) /\ RowInOrder(r, F) /\ r \in Runs
      /\ run' = run /\ Driver(k) /\ NewFeatureRun(k) /\ k.order \in Nat
      /\ run[r].current \in Nat /\ Typed
      /\ k.order = run[r].current /\ ~Entered(r) /\ Launching(r)
      /\ \A d \in Calls \ {c} : ~DrivenBy(r, d)
      /\ run[r].status = "RUNNING" => NoneAhead(r)
  BY <1>0, OrderLocal, RowTypes
     DEF Launch, At, CallType, CallInOrder, DriverInOrder, Driver, Launching, IInv
<1>2. k.order \in Orders
  BY <1>1, StagesAssumption DEF CallOK, Orders
<1>3. /\ Len(featureRuns) \in Nat /\ Len(featureRuns') = n
      /\ \A f \in 1 .. Len(featureRuns) : featureRuns'[f] = featureRuns[f]
      /\ featureRuns'[n].order = k.order
      /\ \A q \in Runs \ {r} : Started(q)' = Started(q)
      /\ Started(r)' = Started(r) \cup {n}
      /\ \A q \in Runs : \A f \in Started(q) : f \in 1 .. Len(featureRuns)
  BY <1>1, <1>2, StartedGrows
<1>4. featureRuns'[n].status = "RUNNING"
  BY <1>1, Types DEF NewFeatureRun
<1>5. n \in Nat /\ n > Len(featureRuns)
  BY <1>3
<1> HIDE DEF n
<1>6. PICK i \in CallType : i = Idle
  BY IdleType
<1>7. call' = [call EXCEPT ![c] = i] /\ i.pc = "idle" /\ ~Driver(i)
  BY <1>6 DEF Launch, End, Idle, Driver
<1>8. call'[c] = i /\ \A d \in Calls \ {c} : call'[d] = call[d]
  BY <1>7, CallStays DEF IInv
<1>9. \A q \in Runs \ {r} : SameExecutions(q, F)
  BY <1>3 DEF SameExecutions
<1>10. Entered(r)' /\ \A o : Past(r, o)' => Past(r, o)
  <2>1. Entered(r)'
    BY <1>1, <1>3 DEF Entered
  <2> QED
    BY <1>1, <2>1 DEF Past
<1>11. \A f \in Started(r) : featureRuns'[f] = featureRuns[f]
  BY <1>1, <1>3
<1>12. RowInOrder(r, F)'
  <2>1. PastSettled(r, run[r].results)'
    <3> SUFFICES ASSUME NEW o \in Nat, Past(r, o)' PROVE Settled(r, run[r].results, o)'
      BY DEF PastSettled
    <3>1. Settled(r, run[r].results, o)
      BY <1>1, <1>10 DEF RowInOrder, PastSettled
    <3> QED
      BY <1>1, <3>1, SettledKept
  <2>2. Attributed(r, run[r].results)'
    BY <1>1, <1>3, <1>11 DEF RowInOrder, Attributed
  <2>3. \A f \in Started(r)' : featureRuns'[f].order < run'[r].current =>
                                 f \in Started(r) /\ featureRuns'[f] = featureRuns[f]
    BY <1>1, <1>3, <1>11
  <2>4. "crash" \in F => CrashProof(r)'
    <3> SUFFICES ASSUME "crash" \in F PROVE CrashProof(r)'
      OBVIOUS
    <3>1. CrashProof(r)
      BY <1>1 DEF RowInOrder
    <3>2. run[r].status = "RUNNING" => \A f \in Started(r)' : featureRuns'[f].status # "CANCELLED"
      BY <1>3, <1>4, <1>11, <3>1 DEF CrashProof
    <3> QED
      BY <1>1, <1>3, <1>11, <3>1, <3>2 DEF CrashProof, AllLanded, Landed, NoneAhead, HaltHit, Halts
  <2>5. run[r].status = "RUNNING" => NoneAhead(r)'
    BY <1>1 DEF NoneAhead
  <2>6. Finished(r)' => Judged(r, run[r].results)'
    BY <1>1 DEF RowInOrder, Finished, Judged, Landed, Bad
  <2> QED
    BY <1>1, <2>1, <2>2, <2>3, <2>4, <2>5, <2>6 DEF RowInOrder, Terminal, Recorded
<1>13. ASSUME NEW d \in Calls \ {c}, call[d].pc # "idle", call[d].run = r
       PROVE  CallInOrder(call[d], F)'
  <2>1. PICK j \in CallType : j = call[d]
    BY Local
  <2>2. CallOK(j) /\ CallInOrder(j, F) /\ j.run = r /\ ~Driver(j) /\ j.pc # "idle"
    BY <1>1, <1>13, <2>1, OrderLocal DEF DrivenBy
  <2>3. j.pc # "launch"
    BY <2>2 DEF Driver
  <2>4. Started(r) \subseteq Started(r)'
    BY <1>3
  <2>5. CASE run[r].status = "RUNNING"
    <3>1. Unfiled(r, j.seen)'
      <4>1. \A h : IsLatest(r, h)' => h = n
        <5> SUFFICES ASSUME NEW h, IsLatest(r, h)' PROVE h = n
          OBVIOUS
        <5>1. \A f \in Started(r) : f \in Nat /\ f < n
          BY <1>1, <1>3, <1>5
        <5>2. h \in Started(r)' /\ \A g \in Started(r)' : g <= h
          BY DEF IsLatest
        <5>3. (h \in Started(r) \/ h = n) /\ n <= h
          BY <1>3, <5>2
        <5> QED
          BY <1>5, <5>1, <5>3
      <4>2. ~Recorded(j.seen, n)
        BY <1>3, <1>5, <2>2 DEF Recorded, CallOK, KnownIn, CallType, Result
      <4> QED
        BY <4>1, <4>2 DEF Unfiled, Recorded
    <3>2. HaltHit(r, run[r].results)' => HaltHit(r, run[r].results)
      BY <1>1 DEF HaltHit, Halts
    <3>3. CallInOrder(j, F)'
      BY <1>1, <1>11, <2>2, <2>4, <2>5, <3>1, <3>2, CallWaits
    <3> QED
      BY <1>8, <2>1, <3>3
  <2>6. CASE run[r].status # "RUNNING"
    <3>1. CallInOrder(j, F)'
      BY <1>1, <1>10, <1>11, <2>2, <2>3, <2>4, <2>6, CallUnmoved
    <3> QED
      BY <1>8, <2>1, <3>1
  <2> QED
    BY <2>5, <2>6
<1>14. Attended(r)'
  BY <1>10 DEF Attended
<1>15. \A q \in Runs \ {r} : run'[q] = run[q]
  BY <1>1
<1> QED
  BY <1>0, <1>1, <1>7, <1>8, <1>9, <1>12, <1>13, <1>14, <1>15, StepInOrder

LEMMA RefuseInOrder ==
  ASSUME NEW F, IInv, IInv', OInv(F), NEW c \in Calls, Refuse(c),
         "enqueue" \notin Faults, "crash" \notin F
  PROVE  OInv(F)'
<1>0. PICK k \in CallType : k = call[c]
  BY Local
<1> DEFINE r == k.run
           j == [k EXCEPT !.pc = "claimFailed"]
<1>1. /\ k.pc = "launch" /\ CallInOrder(k, F) /\ r \in Runs /\ Driver(k)
      /\ UNCHANGED <<run, featureRuns>>
  BY <1>0, OrderLocal DEF Refuse, At, Fault, Driver
<1>2. j \in CallType /\ j.pc = "claimFailed" /\ j.run = r /\ j.order = k.order
  BY Moved DEF Statements
<1>3. call' = [call EXCEPT ![c] = j]
  BY <1>0 DEF Refuse, Go
<1> HIDE DEF j
<1>4. Driver(j) /\ ~Closing(j)
  BY <1>2 DEF Driver, Closing
<1>5. run[r].status = "RUNNING" => DriverInOrder(j, F)
  BY <1>1, <1>2 DEF CallInOrder, DriverInOrder
<1>6. CallInOrder(j, F)
  BY <1>1, <1>2, <1>4, <1>5 DEF CallInOrder
<1> QED
  BY <1>0, <1>1, <1>2, <1>3, <1>4, <1>6, MovesInOrder

\* A feature run that executes ends.
LEMMA ExecutionsEnd ==
  ASSUME NEW F, IInv, run' = run, NEW f \in 1 .. Len(featureRuns), ~Terminal(f),
         NEW s \in FeatureStatuses, featureRuns' = [featureRuns EXCEPT ![f].status = s],
         s # "CANCELLED" \/ "crash" \notin F \/ run[featureRuns[f].run].status # "RUNNING"
  PROVE  \A q \in Runs : SameExecutions(q, F)
<1>1. SameFeatureRuns
  BY SetStatusType DEF IInv
<1>2. \A q : Started(q)' = Started(q)
  BY <1>1, SameStarted
<1>3. \A g \in 1 .. Len(featureRuns) : /\ g # f => featureRuns'[g] = featureRuns[g]
                                       /\ featureRuns'[g].order = featureRuns[g].order
  BY <1>1, Types DEF SameFeatureRuns, IInv
<1>4. featureRuns'[f].status = s
  BY Types DEF IInv, FeatureRunType
<1> SUFFICES ASSUME NEW q \in Runs PROVE SameExecutions(q, F)
  OBVIOUS
<1>5. \A g \in Started(q) : g \in 1 .. Len(featureRuns) /\ featureRuns[g].run = q
  BY DEF Started
<1> QED
  BY <1>2, <1>3, <1>4, <1>5 DEF SameExecutions, Terminal

LEMMA NobodyMovesInOrder ==
  ASSUME NEW F, IInv, IInv', OInv(F), run' = run, call' = call, \A q \in Runs : SameExecutions(q, F)
  PROVE  OInv(F)'
<1>1. \A q : Launching(q)' <=> Launching(q)
  BY DEF Launching
<1>2. \A q \in Runs : RowInOrder(q, F)'
  BY <1>1, RowInOrderKept DEF OInv
<1>3. ASSUME NEW d \in Calls, call[d].pc # "idle" PROVE CallInOrder(call[d], F)'
  <2>1. PICK k \in CallType : k = call[d]
    BY Local
  <2>2. PICK q \in Runs : q = k.run
    BY <1>3, <2>1, Local
  <2>3. CallInOrder(k, F)
    BY <1>3, <2>1 DEF OInv
  <2>4. k.pc = "tick" => Unfiled(q, k.seen)'
    <3>1. AtStage(q)' => AtStage(q)
      BY DEF AtStage, SameExecutions
    <3> QED
      BY <2>2, <2>3, <3>1, UnfiledKept DEF CallInOrder, TickInOrder
  <2>5. CallInOrder(k, F)'
    BY <1>1, <2>2, <2>3, <2>4, CallInOrderKept
  <2> QED
    BY <2>1, <2>5
<1>4. OneDriver'
  BY DEF OInv, OneDriver
<1>5. "crash" \notin F => \A q \in Runs : Attended(q)'
  <2> SUFFICES ASSUME "crash" \notin F, NEW q \in Runs PROVE Attended(q)'
    OBVIOUS
  <2>1. Attended(q) /\ (Entered(q) => Entered(q)')
    BY DEF OInv, Entered, SameExecutions
  <2> QED
    BY <2>1 DEF Attended, DrivenBy
<1> QED
  BY <1>2, <1>3, <1>4, <1>5 DEF OInv

LEMMA FeatureRunEndsInOrder ==
  ASSUME NEW F, IInv, IInv', OInv(F), NEW f \in 1 .. Len(featureRuns),
         Complete(f) \/ (CancelFeatureRun(f) /\ "crash" \notin F)
  PROVE  OInv(F)'
<1>1. PICK s \in FeatureStatuses : /\ featureRuns' = [featureRuns EXCEPT ![f].status = s]
                                   /\ s # "CANCELLED" \/ "crash" \notin F
  BY DEF Complete, CancelFeatureRun, FeatureStatuses
<1>2. ~Terminal(f) /\ run' = run /\ call' = call
  BY DEF Complete, CancelFeatureRun
<1> QED
  BY <1>1, <1>2, ExecutionsEnd, NobodyMovesInOrder

LEMMA StopFeatureInOrder ==
  ASSUME NEW F, IInv, IInv', OInv(F), NEW c \in Calls, StopFeature(c)
  PROVE  OInv(F)'
<1>0. PICK k \in CallType : k = call[c]
  BY Local
<1> DEFINE r == k.run
           f == k.result.featureRun
           n == k.order + 1
           i == [k EXCEPT !.pc = "record", !.then = "end", !.seen = {}]
           s == [k EXCEPT !.pc = "skip", !.then = "end", !.order = n, !.seen = {}]
<1>1. /\ k.pc = "stopFeature" /\ CallInOrder(k, F) /\ RowInOrder(r, F) /\ r \in Runs
      /\ run' = run /\ k.order \in Nat /\ ~Driver(k) /\ run[r].status = "CANCELLED"
  BY <1>0, OrderLocal DEF StopFeature, At, CallType, Driver, CallInOrder, Closing
<1>2. \A q \in Runs : SameExecutions(q, F)
  <2>1. CASE f \in Unfinished(r)
    <3>1. f \in 1 .. Len(featureRuns) /\ featureRuns[f].run = r /\ ~Terminal(f)
          /\ "CANCELLED" \in FeatureStatuses
      BY <2>1 DEF Unfinished, Started, FeatureStatuses
    <3>2. featureRuns' = [featureRuns EXCEPT ![f].status = "CANCELLED"]
      BY <1>0, <2>1 DEF StopFeature
    <3> QED
      BY <1>1, <3>1, <3>2, ExecutionsEnd
  <2>2. CASE f \notin Unfinished(r)
    BY <1>0, <1>1, <2>2, Nothing DEF StopFeature
  <2> QED
    BY <2>1, <2>2
<1>3. PICK j \in CallType : /\ call' = [call EXCEPT ![c] = j] /\ j.run = r /\ j.then = "end"
                            /\ \/ j.pc = "record" /\ j.order = k.order /\ j.result = k.result
                               \/ j.pc = "skip"
  <2>1. i \in CallType /\ i.run = r /\ i.then = "end" /\ i.pc = "record" /\ i.order = k.order
        /\ i.result = k.result
    BY DEF CallType, Statements, Continuations
  <2>2. n \in Nat
    BY <1>1
  <2>3. s \in CallType /\ s.run = r /\ s.then = "end" /\ s.pc = "skip"
    <3> HIDE DEF n
    <3> QED BY <2>2 DEF CallType, Statements, Continuations
  <2>4. call' = [call EXCEPT ![c] = i] \/ call' = [call EXCEPT ![c] = s]
    BY <1>0 DEF StopFeature, Go
  <2> HIDE DEF i, s
  <2> QED
    BY <2>1, <2>3, <2>4
<1>4. call'[c] = j /\ \A d \in Calls \ {c} : call'[d] = call[d]
  BY <1>3, CallStays DEF IInv
<1>5. Launching(r)' => Launching(r)
  BY <1>3, <1>4 DEF Launching
<1>6. RowInOrder(r, F)'
  BY <1>1, <1>2, <1>5, RowInOrderKept
<1>7. ~AtStage(r)'
  BY <1>1 DEF AtStage
<1>8. ASSUME NEW d \in Calls \ {c}, call[d].pc # "idle", call[d].run = r
      PROVE  CallInOrder(call[d], F)'
  <2>1. PICK e \in CallType : e = call[d]
    BY Local
  <2>2. CallInOrder(e, F) /\ e.run = r
    BY <1>8, <2>1 DEF OInv
  <2>3. e.pc = "tick" => Unfiled(r, e.seen)'
    BY <1>7 DEF Unfiled
  <2>4. CallInOrder(e, F)'
    BY <1>1, <1>2, <1>5, <2>2, <2>3, CallInOrderKept
  <2> QED
    BY <1>4, <2>1, <2>4
<1>9. ~Driver(j)
  BY <1>3 DEF Driver
<1>10. CallInOrder(j, F)'
  <2>1. f # 0 => f \in Started(r)' /\ featureRuns'[f].order = run'[r].current
    BY <1>1, <1>2 DEF CallInOrder, SameExecutions
  <2>2. j.pc = "record" => RecordInOrder(j, F)' /\ j.order <= run'[r].current
    BY <1>1, <1>3 DEF CallInOrder, RecordInOrder
  <2> QED
    BY <1>1, <1>3, <1>9, <2>1, <2>2 DEF CallInOrder
<1>11. CallInOrder(call[c], F)' /\ Attended(r)'
  BY <1>1, <1>4, <1>10 DEF Attended
<1> QED
  BY <1>0, <1>1, <1>2, <1>3, <1>4, <1>6, <1>8, <1>9, <1>11, StepInOrder

LEMMA ExpireInOrder ==
  ASSUME NEW F, IInv, IInv', OInv(F), Expire
  PROVE  OInv(F)'
BY Nothing, NobodyMovesInOrder DEF Expire
-----------------------------------------------------------------------------
LEMMA InitInOrder ==
  ASSUME NEW F, Init
  PROVE  OInv(F)
<1>1. /\ \A r : Started(r) = {}
      /\ \A r \in Runs : run[r].status = "new" /\ run[r].current = 0 /\ run[r].results = {}
  BY DEF Init, Started
<1>2. \A c \in Calls : call[c].pc = "idle"
  BY DEF Init, Idle
<1>3. ASSUME NEW r \in Runs PROVE RowInOrder(r, F)
  BY <1>1 DEF RowInOrder, PastSettled, Past, Attributed, Finished, CrashProof
<1>4. OneDriver
  BY <1>2 DEF OneDriver, Driver
<1>5. \A r \in Runs : Attended(r)
  BY <1>1 DEF Attended
<1> QED
  BY <1>2, <1>3, <1>4, <1>5 DEF OInv

LEMMA InOrderMeansAttribution ==
  ASSUME NEW F, IInv, OInv(F)
  PROVE  Attribution
<1> SUFFICES ASSUME NEW r \in Runs, NEW x \in run[r].results, x.featureRun # 0
             PROVE  featureRuns[x.featureRun].order = x.order /\ featureRuns[x.featureRun].run = r
  BY DEF Attribution
<1> QED
  BY DEF OInv, RowInOrder, Attributed, Started

LEMMA InOrderMeansVerdictIsEarned ==
  ASSUME NEW F, OInv(F)
  PROVE  VerdictIsEarned
<1> SUFFICES ASSUME NEW r \in Runs, Finished(r) PROVE Judged(r, run[r].results)
  BY DEF VerdictIsEarned, Finished, Judged
<1> QED
  BY DEF OInv, RowInOrder

LEMMA InOrderMeansHaltHolds ==
  ASSUME NEW F, IInv, OInv(F)
  PROVE  HaltHolds
<1> SUFFICES ASSUME NEW f \in 1 .. Len(featureRuns), NEW x \in run[featureRuns[f].run].results,
                    Bad(x), x.order < featureRuns[f].order
             PROVE  run[featureRuns[f].run].policy[x.order] = "CONTINUE"
  BY DEF HaltHolds
<1>1. PICK r \in Runs : r = featureRuns[f].run /\ f \in Started(r)
  BY FeatureRunTypes DEF IInv, Started
<1>2. /\ x \in run[r].results /\ x.order \in Nat /\ run[r].current \in Nat
      /\ featureRuns[f].order \in Nat /\ featureRuns[f].order <= run[r].current
  BY <1>1, RowTypes
<1>3. Past(r, x.order)
  <2>1. x.order + 1 < run[r].current \/ featureRuns[f].order = run[r].current
    BY <1>2
  <2> QED
    BY <1>1, <1>2, <2>1 DEF Past, Entered
<1>4. ~Halts(r, x.order)
  BY <1>2, <1>3 DEF OInv, RowInOrder, PastSettled, Settled
<1> QED
  BY <1>1, <1>4, RowTypes DEF Halts, RowType

-----------------------------------------------------------------------------
(* Every step is one of the sequence, or none.                             *)

Busy(r) == \E f \in Started(r) : ~Terminal(f)
Stages(r) == {featureRuns[f].order : f \in Started(r)}

LEMMA BusyIsEntered ==
  ASSUME NEW F, IInv, OInv(F), NEW r \in Runs, NEW f \in Started(r), ~Terminal(f)
  PROVE  featureRuns[f].order = run[r].current /\ \A g \in Started(r) \ {f} : Terminal(g)
<1>1. \A g \in Started(r) : ~Terminal(g) => featureRuns[g].order = run[r].current
  BY RowTypes DEF OInv, RowInOrder
<1> QED
  BY <1>1, RowTypes

LEMMA SequenceStutters ==
  ASSUME \A r \in Runs : run'[r].current = run[r].current, UNCHANGED featureRuns
  PROVE  UNCHANGED Sequence!sequenceVars
<1>1. \A r : Stages(r)' = Stages(r) /\ Busy(r)' = Busy(r)
  BY DEF Stages, Busy, Started, Terminal
<1> QED
  BY <1>1 DEF Sequence!sequenceVars, Stages, Busy

LEMMA SequenceDecides ==
  ASSUME IInv, NEW r \in Runs, ~Busy(r), run'[r].current = run[r].current + 1,
         \A q \in Runs \ {r} : run'[q].current = run[q].current, UNCHANGED featureRuns
  PROVE  Sequence!SequenceNext
<1>1. \A q : Stages(q)' = Stages(q) /\ Busy(q)' = Busy(q)
  BY DEF Stages, Busy, Started, Terminal
<1>2. Sequence!Decide(r)
  BY <1>1 DEF Sequence!Decide, Stages, Busy
<1> QED
  BY <1>2 DEF Sequence!SequenceNext

LEMMA SequenceEnds ==
  ASSUME NEW F, IInv, OInv(F), run' = run, NEW f \in 1 .. Len(featureRuns), ~Terminal(f),
         NEW s \in FeatureStatuses, s # "RUNNING",
         featureRuns' = [featureRuns EXCEPT ![f].status = s]
  PROVE  Sequence!SequenceNext
<1>1. PICK r \in Runs : r = featureRuns[f].run /\ f \in Started(r)
  BY FeatureRunTypes DEF IInv, Started
<1>2. SameFeatureRuns
  BY SetStatusType DEF IInv
<1>3. \A q : Started(q)' = Started(q)
  BY <1>2, SameStarted
<1>4. \A g \in 1 .. Len(featureRuns) : /\ g # f => featureRuns'[g] = featureRuns[g]
                                       /\ featureRuns'[g].order = featureRuns[g].order
  BY <1>2, Types DEF SameFeatureRuns, IInv
<1>5. featureRuns'[f].status = s
  BY Types DEF IInv, FeatureRunType
<1>6. \A q \in Runs : Stages(q)' = Stages(q)
  BY <1>3, <1>4 DEF Stages, Started
<1>7. Busy(r) /\ ~Busy(r)'
  BY <1>1, <1>3, <1>4, <1>5, BusyIsEntered DEF Busy, Terminal, Started
<1>8. \A q \in Runs \ {r} : Busy(q)' = Busy(q)
  BY <1>1, <1>3, <1>4 DEF Busy, Terminal, Started
<1>9. Sequence!Ended(r)
  BY <1>6, <1>7, <1>8 DEF Sequence!Ended, Stages, Busy
<1> QED
  BY <1>9 DEF Sequence!SequenceNext

LEMMA LaunchExecutes ==
  ASSUME NEW F, IInv, OInv(F), NEW c \in Calls, Launch(c)
  PROVE  Sequence!SequenceNext
<1>0. PICK k \in CallType : k = call[c]
  BY Local
<1> DEFINE r == k.run
           n == Len(featureRuns) + 1
<1>1. /\ Typed /\ r \in Runs /\ CallOK(k) /\ NewFeatureRun(k) /\ run' = run
      /\ k.pc = "launch" /\ k.order = run[r].current /\ ~Entered(r) /\ RowInOrder(r, F)
  BY <1>0, OrderLocal DEF Launch, At, CallInOrder, IInv
<1>2. k.order \in Orders
  BY <1>1, StagesAssumption DEF CallOK, Orders, CallType
<1>3. /\ Len(featureRuns) \in Nat /\ Len(featureRuns') = n
      /\ \A f \in 1 .. Len(featureRuns) : featureRuns'[f] = featureRuns[f]
      /\ featureRuns'[n].order = k.order
      /\ \A q \in Runs \ {r} : Started(q)' = Started(q)
      /\ Started(r)' = Started(r) \cup {n}
      /\ \A q \in Runs : \A f \in Started(q) : f \in 1 .. Len(featureRuns)
  BY <1>1, <1>2, StartedGrows
<1>4. featureRuns'[n].status = "RUNNING"
  BY <1>1, Types DEF NewFeatureRun
<1> HIDE DEF n
<1>5. \A q \in Runs \ {r} : Stages(q)' = Stages(q) /\ Busy(q)' = Busy(q)
  BY <1>3 DEF Stages, Busy, Terminal
<1>6. Stages(r)' = Stages(r) \cup {run[r].current} /\ Busy(r)'
  BY <1>1, <1>3, <1>4 DEF Stages, Busy, Terminal
<1>7. ~Busy(r) /\ run[r].current \notin Stages(r)
  BY <1>1, BusyIsEntered DEF Stages, Busy, Entered
<1>8. Sequence!Execute(r)
  BY <1>1, <1>5, <1>6, <1>7 DEF Sequence!Execute, Stages, Busy
<1> QED
  BY <1>1, <1>8 DEF Sequence!SequenceNext

LEMMA RowSet ==
  ASSUME IInv, NEW r \in Runs, NEW row, SetRun(r, row)
  PROVE  run'[r] = row /\ \A q \in Runs \ {r} : run'[q] = run[q]
BY Types DEF IInv, SetRun

LEMMA ClaimDecides ==
  ASSUME NEW F, IInv, OInv(F), NEW c \in Calls, Claim(c) \/ ClaimFailed(c)
  PROVE  Sequence!SequenceNext \/ UNCHANGED Sequence!sequenceVars
<1>0. PICK k \in CallType : k = call[c]
  BY Local
<1> DEFINE r == k.run
<1>1. /\ Typed /\ r \in Runs /\ run[r] \in RowType /\ k.pc \in {"claim", "claimFailed"}
      /\ CallInOrder(k, F) /\ RowInOrder(r, F)
  BY <1>0, OrderLocal, RowTypes DEF Claim, ClaimFailed, At, IInv
<1>2. CASE ~Claims(r, k.order)
  <2>1. UNCHANGED run /\ UNCHANGED featureRuns
    BY <1>0, <1>2 DEF Claim, ClaimFailed
  <2> QED
    BY <2>1, SequenceStutters
<1>3. CASE Claims(r, k.order)
  <2>1. /\ UNCHANGED featureRuns
        /\ run'[r].current = run[r].current + 1
        /\ \A q \in Runs \ {r} : run'[q] = run[q]
    <3>1. UNCHANGED featureRuns /\ k.order = run[r].current
      BY <1>3 DEF Claim, ClaimFailed, Claims
    <3>2. \E row : SetRun(r, row) /\ row.current = k.order + 1
      <4>1. CASE Claim(c)
        <5>1. PICK results :
                SetRun(r, [run[r] EXCEPT !.current = k.order + 1, !.results = results])
          BY <1>0, <1>3, <4>1 DEF Claim
        <5> DEFINE row == [run[r] EXCEPT !.current = k.order + 1, !.results = results]
        <5>2. row.current = k.order + 1
          BY <1>1 DEF RowType
        <5> QED
          BY <5>1, <5>2
      <4>2. CASE ClaimFailed(c)
        <5> DEFINE row == [run[r] EXCEPT !.current = k.order + 1]
        <5>1. SetRun(r, row)
          BY <1>0, <1>3, <4>2 DEF ClaimFailed
        <5>2. row.current = k.order + 1
          BY <1>1 DEF RowType
        <5> QED
          BY <5>1, <5>2
      <4> QED
        BY <4>1, <4>2
    <3> QED
      BY <1>1, <3>1, <3>2, RowSet
  <2>2. ~Busy(r)
    <3> SUFFICES ASSUME NEW f \in Started(r), ~Terminal(f) PROVE FALSE
      BY DEF Busy
    <3>1. featureRuns[f].order = run[r].current /\ \A g \in Started(r) \ {f} : Terminal(g)
      BY <1>1, BusyIsEntered
    <3>2. CASE k.pc = "claim"
      BY <1>1, <1>3, <3>1, <3>2, RowTypes DEF CallInOrder, ClaimInOrder, Claims
    <3>3. CASE k.pc = "claimFailed"
      BY <1>1, <1>3, <3>1, <3>3 DEF CallInOrder, DriverInOrder, Driver, Claims, Entered
    <3> QED
      BY <1>1, <3>2, <3>3
  <2> QED
    BY <1>1, <2>1, <2>2, SequenceDecides
<1> QED
  BY <1>2, <1>3

LEMMA StopFeatureEnds ==
  ASSUME NEW F, IInv, OInv(F), NEW c \in Calls, StopFeature(c)
  PROVE  Sequence!SequenceNext \/ UNCHANGED Sequence!sequenceVars
<1> DEFINE f == call[c].result.featureRun
<1>1. CASE f \in Unfinished(call[c].run)
  <2>1. f \in 1 .. Len(featureRuns) /\ ~Terminal(f)
    BY <1>1 DEF Unfinished, Started
  <2>2. run' = run /\ featureRuns' = [featureRuns EXCEPT ![f].status = "CANCELLED"]
    BY <1>1 DEF StopFeature
  <2> QED
    BY <2>1, <2>2, SequenceEnds DEF FeatureStatuses
<1>2. CASE f \notin Unfinished(call[c].run)
  BY <1>2, SequenceStutters DEF StopFeature
<1> QED
  BY <1>1, <1>2

LEMMA SequenceInitially ==
  ASSUME Init
  PROVE  Sequence!SequenceInit
<1>1. featureRuns = <<>> /\ Len(featureRuns) = 0 /\ \A r : Started(r) = {}
  BY DEF Init, Started
<1> QED
  BY <1>1 DEF Init, Sequence!SequenceInit

LEMMA SequenceSteps ==
  ASSUME NEW F, IInv, OInv(F), [Next]_vars, "enqueue" \notin Faults
  PROVE  Sequence!SequenceNext \/ UNCHANGED Sequence!sequenceVars
<1>0. run \in [Runs -> RowType]
  BY Types DEF IInv
<1>1. CASE UNCHANGED vars
  BY <1>1, SequenceStutters DEF vars
<1>2. ASSUME NEW c \in Calls, CallStep(c)
      PROVE  Sequence!SequenceNext \/ UNCHANGED Sequence!sequenceVars
  <2>1. CASE Launch(c)
    BY <2>1, LaunchExecutes
  <2>2. CASE Claim(c) \/ ClaimFailed(c)
    BY <2>2, ClaimDecides
  <2>3. CASE StopFeature(c)
    BY <2>3, StopFeatureEnds
  <2>4. CASE Start(c) \/ RecordRead(c) \/ SkipRead(c) \/ Finalize(c) \/ StopFind(c)
             \/ TickSignal(c) \/ TickResume(c)
    BY <2>4, SequenceStutters
       DEF Start, RecordRead, SkipRead, Finalize, StopFind, TickSignal, TickResume
  <2>5. CASE Create(c) \/ RecordWrite(c) \/ SkipWrite(c) \/ Finish(c) \/ StopClaim(c) \/ TickWait(c)
    <3>1. \A r \in Runs : run'[r].current = run[r].current
      <4> SUFFICES ASSUME NEW r \in Runs PROVE run'[r].current = run[r].current
        OBVIOUS
      <4>1. CASE Create(c)
        BY <1>0, <4>1 DEF Create, SetRun, RowType
      <4>2. CASE RecordWrite(c) \/ SkipWrite(c)
        <5>1. PICK results : SetRun(call[c].run, [run[call[c].run] EXCEPT !.results = results])
          BY <4>2 DEF RecordWrite, SkipWrite
        <5> DEFINE row == [run[call[c].run] EXCEPT !.results = results]
        <5>2. call[c].run \in Runs
          BY <4>2, Local DEF RecordWrite, SkipWrite, At
        <5>3. row.current = run[call[c].run].current
          BY <1>0, <5>2 DEF RowType
        <5> QED
          BY <5>1, <5>2, <5>3, RowSet
      <4>3. CASE Finish(c)
        BY <1>0, <4>3 DEF Finish, RowType
      <4>4. CASE StopClaim(c) \/ TickWait(c)
        <5> DEFINE row == [run[call[c].run] EXCEPT !.status = "CANCELLED"]
        <5>1. SetRun(call[c].run, row) \/ UNCHANGED run
          BY <4>4 DEF StopClaim, TickWait
        <5>2. call[c].run \in Runs
          BY <4>4, Local DEF StopClaim, TickWait, At
        <5>3. row.current = run[call[c].run].current
          BY <1>0, <5>2 DEF RowType
        <5> QED
          BY <5>1, <5>2, <5>3, RowSet
      <4> QED
        BY <2>5, <4>1, <4>2, <4>3, <4>4
    <3> QED
      BY <2>5, <3>1, SequenceStutters
         DEF Create, RecordWrite, SkipWrite, Finish, StopClaim, TickWait
  <2> QED
    BY <1>2, <2>1, <2>2, <2>3, <2>4, <2>5 DEF CallStep
<1>3. ASSUME NEW c \in Calls, Refuse(c) \/ Crash(c)
      PROVE  UNCHANGED Sequence!sequenceVars
  <2>1. UNCHANGED <<run, featureRuns>>
    BY <1>3 DEF Refuse, Crash, Fault
  <2> QED
    BY <2>1, SequenceStutters
<1>4. ASSUME NEW c \in Calls, NEW r \in Runs, Trigger(c, r) \/ StopRead(c, r) \/ TickRead(c, r)
      PROVE  UNCHANGED Sequence!sequenceVars
  BY <1>4, SequenceStutters DEF Trigger, StopRead, TickRead
<1>5. ASSUME NEW f \in 1 .. Len(featureRuns), Complete(f) \/ CancelFeatureRun(f)
      PROVE  Sequence!SequenceNext
  <2>1. PICK s \in FeatureStatuses \ {"RUNNING"} :
          featureRuns' = [featureRuns EXCEPT ![f].status = s]
    BY <1>5 DEF Complete, CancelFeatureRun, FeatureStatuses
  <2>2. ~Terminal(f) /\ run' = run
    BY <1>5 DEF Complete, CancelFeatureRun
  <2> QED
    BY <2>1, <2>2, SequenceEnds
<1>6. ASSUME NEW f \in 1 .. Len(featureRuns), NEW c \in Calls, Signal(c, f)
      PROVE  UNCHANGED Sequence!sequenceVars
  BY <1>6, SequenceStutters DEF Signal
<1>7. CASE Expire \/ \E r \in Runs : Lapse(r)
  BY <1>7, SequenceStutters DEF Expire, Lapse
<1> QED
  BY <1>1, <1>2, <1>3, <1>4, <1>5, <1>6, <1>7 DEF Next

-----------------------------------------------------------------------------
-----------------------------------------------------------------------------
(* The lock of the tick.  A run lapses when its last driver has died, or   *)
(* never; whoever drives a lapsed run is a tick, and holds the lock.       *)

Locked(c) ==
  /\ call[c].token => lock = c
  /\ call[c].pc = "tick" => call[c].token
  /\ Driver(call[c]) /\ call[c].run \in lapsed => call[c].token

\* Where crashes are possible the lock tells a resumed run from any other one;
\* without them no run lapses.
LInv(F) ==
  /\ lapsed \subseteq Runs
  /\ IF "crash" \in F THEN \A c \in Calls : Locked(c) ELSE lapsed = {}
  /\ \A r \in lapsed : ~Entered(r)

LEMMA TicksResumeAlone ==
  ASSUME NEW F, LInv(F)
  PROVE  ResumesAlone
<1> SUFFICES ASSUME NEW c \in Calls, NEW d \in Calls, call[c].pc = "tick",
                    call[c].run \in lapsed, call[d].run = call[c].run, Driver(call[d])
             PROVE  FALSE
  BY DEF ResumesAlone
<1>1. Locked(c) /\ Locked(d)
  BY DEF LInv
<1>2. lock = c /\ lock = d
  BY <1>1 DEF Locked
<1> QED
  BY <1>2 DEF Driver

\* A run that lapses, without anybody being slow, has no driver and no feature
\* run of its current stage.
LEMMA LapsesAlone ==
  ASSUME IInv, "slow" \notin Faults, NEW r \in Runs, Lapse(r)
  PROVE  ~Entered(r) /\ \A c \in Calls : ~DrivenBy(r, c)
<1>1. ~Driven(r) /\ ~Unsignalled(r) /\ run[r].status = "RUNNING" /\ RowOK(r)
  BY DEF Lapse, Fault, IInv
<1>2. \A c \in Calls : ~DrivenBy(r, c)
  BY <1>1 DEF Driven, Driving, DrivenBy, Driver
<1>3. ASSUME Entered(r) PROVE FALSE
  <2>1. AtStage(r) /\ Started(r) # {} /\ \A h \in Started(r) : h # 0
    BY <1>1, <1>3, RowTypes DEF AtStage, Entered
  <2>2. IsLatest(r, Latest(r))
    BY <1>1, <2>1, LatestIsLatest DEF RowOK
  <2>3. Latest(r) \in Started(r) /\ Latest(r) # 0 /\ ~Recorded(run[r].results, Latest(r))
    BY <1>1, <2>1, <2>2 DEF RowOK, Unfiled, IsLatest
  <2>4. Terminal(Latest(r))
    BY <2>3 DEF Lapse
  <2> QED
    BY <1>1, <2>3, <2>4 DEF Unsignalled
<1> QED
  BY <1>2, <1>3

\* The stages of a run that stays lapsed are the same: a new feature run ends
\* the lapse.
LEMMA LapsedStartNothing ==
  ASSUME IInv, [Next]_vars, "enqueue" \notin Faults, NEW r \in lapsed, r \in lapsed', r \in Runs
  PROVE  Stages(r)' = Stages(r)
<1>1. CASE UNCHANGED featureRuns
  BY <1>1 DEF Stages, Started
<1>2. ASSUME NEW f \in 1 .. Len(featureRuns), NEW s \in FeatureStatuses,
             featureRuns' = [featureRuns EXCEPT ![f].status = s]
      PROVE  Stages(r)' = Stages(r)
  <2>1. SameFeatureRuns
    BY <1>2, SetStatusType DEF IInv
  <2>2. Started(r)' = Started(r) /\ \A g \in Started(r) : featureRuns'[g].order = featureRuns[g].order
    BY <2>1, SameStarted DEF SameFeatureRuns, Started
  <2> QED
    BY <2>2 DEF Stages
<1>3. ASSUME NEW c \in Calls, Launch(c) PROVE Stages(r)' = Stages(r)
  <2>1. PICK k \in CallType : k = call[c]
    BY Local
  <2>2. /\ Typed /\ k.run \in Runs /\ k.order \in Orders /\ NewFeatureRun(k)
        /\ lapsed' = lapsed \ {k.run}
    BY <1>3, <2>1, Local, StagesAssumption DEF Launch, At, CallOK, CallType, Orders, NewFeatureRun
  <2>3. Started(r)' = Started(r) /\ \A g \in Started(r) : featureRuns'[g] = featureRuns[g]
    BY <2>2, StartedGrows
  <2> QED
    BY <2>3 DEF Stages
<1>4. ASSUME NEW c \in Calls, CallStep(c) PROVE Stages(r)' = Stages(r)
  <2>1. CASE StopFeature(c)
    BY <1>1, <1>2, <2>1 DEF StopFeature, Unfinished, Started, FeatureStatuses
  <2>2. CASE ~StopFeature(c) /\ ~Launch(c)
    <3>1. UNCHANGED featureRuns
      BY <1>4, <2>2 DEF CallStep, Create, Start, ClaimFailed, Claim, RecordRead, RecordWrite,
         SkipRead, SkipWrite, Finalize, Finish, StopClaim, StopFind, TickSignal, TickResume, TickWait
    <3> QED
      BY <1>1, <3>1
  <2> QED
    BY <1>3, <2>1, <2>2
<1>5. ASSUME NEW c \in Calls, Refuse(c) \/ Crash(c) PROVE Stages(r)' = Stages(r)
  BY <1>1, <1>5 DEF Refuse, Crash, Fault
<1>6. ASSUME NEW c \in Calls, NEW q \in Runs, Trigger(c, q) \/ StopRead(c, q) \/ TickRead(c, q)
      PROVE  Stages(r)' = Stages(r)
  BY <1>1, <1>6 DEF Trigger, StopRead, TickRead
<1>7. ASSUME NEW f \in 1 .. Len(featureRuns),
             Complete(f) \/ CancelFeatureRun(f) \/ \E c \in Calls : Signal(c, f)
      PROVE  Stages(r)' = Stages(r)
  <2>1. CASE Complete(f) \/ CancelFeatureRun(f)
    BY <1>2, <2>1 DEF Complete, CancelFeatureRun, FeatureStatuses
  <2>2. CASE \E c \in Calls : Signal(c, f)
    BY <1>1, <2>2 DEF Signal
  <2> QED
    BY <1>7, <2>1, <2>2
<1>8. CASE Expire \/ (\E q \in Runs : Lapse(q)) \/ UNCHANGED vars
  BY <1>1, <1>8 DEF Expire, Lapse, vars
<1> QED
  BY <1>4, <1>5, <1>6, <1>7, <1>8 DEF Next

\* A lapsed run may be taken on to its next stage, which has no feature run.
LEMMA LapsedStayOpen ==
  ASSUME NEW F, IInv, OInv(F), [Next]_vars, "enqueue" \notin Faults,
         NEW r \in lapsed, r \in lapsed', r \in Runs, ~Entered(r)
  PROVE  ~Entered(r)'
<1>1. Stages(r)' = Stages(r)
  BY LapsedStartNothing
<1>2. run[r].current \in Nat /\ run[r].current \notin Stages(r)
      /\ \A o \in Stages(r) : o \in Nat /\ o <= run[r].current
  BY RowTypes DEF Stages, Entered
<1>3. run'[r].current = run[r].current \/ run'[r].current = run[r].current + 1
  <2> DEFINE at == [q \in Runs |-> run[q].current]
  <2>1. at' = at \/ \E q \in Runs : at' = [at EXCEPT ![q] = @ + 1]
    BY SequenceSteps DEF Sequence!SequenceNext, Sequence!Execute, Sequence!Ended, Sequence!Decide,
       Sequence!sequenceVars
  <2>2. at'[r] = at[r] \/ at'[r] = at[r] + 1
    BY <2>1
  <2> QED
    BY <2>2
<1>4. run'[r].current \notin Stages(r)
  BY <1>2, <1>3
<1> QED
  BY <1>1, <1>4 DEF Stages, Entered

\* A call moves on, or its number is taken by a new one; what it holds is its
\* own.
LEMMA LockedMoves ==
  ASSUME IInv, \A d \in Calls : Locked(d), lapsed' \subseteq lapsed, NEW c \in Calls,
         NEW k \in CallType, call' = [call EXCEPT ![c] = k], lock' = lock,
         k.token => call[c].token, k.pc # "tick", Driver(k) /\ k.run \in lapsed' => k.token
  PROVE  \A d \in Calls : Locked(d)'
<1> SUFFICES ASSUME NEW d \in Calls PROVE Locked(d)'
  OBVIOUS
<1>1. Locked(d) /\ call'[d] = IF d = c THEN k ELSE call[d]
  BY Types DEF IInv
<1> QED
  BY <1>1 DEF Locked

LEMMA LockedEnds ==
  ASSUME IInv, \A d \in Calls : Locked(d), lapsed' \subseteq lapsed, NEW c \in Calls, End(c)
  PROVE  \A d \in Calls : Locked(d)'
<1> SUFFICES ASSUME NEW d \in Calls PROVE Locked(d)'
  OBVIOUS
<1>1. Locked(d) /\ call'[d] = IF d = c THEN Idle ELSE call[d]
  BY Types DEF IInv, End
<1>2. call[d].token /\ d # c => lock' = lock
  BY <1>1 DEF End, Locked
<1> QED
  BY <1>1, <1>2 DEF Locked, Driver, Idle

\* A driver, and a tick, goes on with the lock if it has it.
LEMMA LockedGoes ==
  ASSUME IInv, \A d \in Calls : Locked(d), lapsed' \subseteq lapsed, NEW c \in Calls,
         NEW k \in CallType, k = call[c], NEW j, Go(c, j),
         j \in CallType, j.token = k.token, j.run = k.run, j.pc # "tick",
         Driver(j) => Driver(k) \/ k.pc = "tick" \/ k.run \notin lapsed'
  PROVE  \A d \in Calls : Locked(d)'
<1>1. Driver(j) /\ j.run \in lapsed' => j.token
  BY DEF Locked
<1> QED
  BY <1>1, LockedMoves DEF Go

LEMMA AfterStageHolder ==
  ASSUME NEW k \in CallType, NEW o \in Nat, NEW bad
  PROVE  LET j == AfterStage(k, o, bad) IN
         j \in CallType /\ j.token = k.token /\ j.run = k.run /\ j.pc # "tick"
<1> DEFINE n == o + 1
<1>1. n \in Nat
  OBVIOUS
<1> HIDE DEF n
<1>2. CASE AfterStage(k, o, bad) = [k EXCEPT !.pc = "skip", !.order = n, !.then = "finalize"]
  BY <1>1, <1>2, AfterStageType DEF CallType
<1>3. CASE AfterStage(k, o, bad) = [k EXCEPT !.pc = "start", !.order = n]
  BY <1>1, <1>3, AfterStageType DEF CallType
<1>4. CASE AfterStage(k, o, bad) = [k EXCEPT !.pc = "finalize"]
  BY <1>4, AfterStageType DEF CallType
<1> QED
  BY <1>2, <1>3, <1>4 DEF AfterStage, n

\* Only a call that advances its run drives it on from there.
LEMMA AfterRecordHolder ==
  ASSUME NEW k \in CallType, k.then \in {"advance", "end"}
  PROVE  LET j == AfterRecord(k) IN
         /\ j \in CallType /\ j.token = k.token /\ j.run = k.run /\ j.pc # "tick"
         /\ Driver(j) => k.then = "advance"
<1> DEFINE n == k.order + 1
<1>1. k.order \in Nat /\ n \in Nat
  BY DEF CallType
<1> HIDE DEF n
<1>2. CASE k.then = "advance"
  BY <1>1, <1>2, AfterStageHolder DEF AfterRecord
<1>3. CASE k.then = "end"
  <2>1. AfterRecord(k) = [k EXCEPT !.pc = "skip", !.order = n]
    BY <1>3 DEF AfterRecord, n
  <2>2. /\ AfterRecord(k).pc = "skip" /\ AfterRecord(k).then = "end"
        /\ AfterRecord(k).token = k.token /\ AfterRecord(k).run = k.run
    BY <1>1, <1>3, <2>1 DEF CallType
  <2> QED
    BY <2>2, AfterRecordType DEF Driver
<1> QED
  BY <1>2, <1>3

\* A signal that claims its stage finds the feature run of the stage.
LEMMA ClaimsUnlapsed ==
  ASSUME NEW F, IInv, OInv(F), LInv(F), NEW c \in Calls, call[c].pc = "claim",
         Claims(call[c].run, call[c].order)
  PROVE  call[c].run \notin lapsed
<1>1. ClaimInOrder(call[c]) /\ call[c].pc # "idle"
  BY DEF OInv, CallInOrder
<1>2. Entered(call[c].run)
  BY <1>1 DEF ClaimInOrder, Claims, Entered
<1> QED
  BY <1>2 DEF LInv

LEMMA CallStepLocked ==
  ASSUME NEW F, IInv, OInv(F), LInv(F), "crash" \in F, NEW c \in Calls, CallStep(c)
  PROVE  \A d \in Calls : Locked(d)'
<1>0. PICK k \in CallType : k = call[c]
  BY Local
<1>1. /\ \A d \in Calls : Locked(d)
      /\ k.order \in Nat /\ k.result \in Result /\ k.seen \in SUBSET Result
      /\ k.run \in Runs /\ run[k.run] \in RowType /\ CallInOrder(k, F)
  BY <1>0, Local, OrderLocal DEF LInv, CallType, CallStep, At, Create, Start, Launch, ClaimFailed,
     Claim, RecordRead, RecordWrite, SkipRead, SkipWrite, Finalize, Finish, StopClaim, StopFind,
     StopFeature, TickSignal, TickResume, TickWait
<1>2. lapsed' \subseteq lapsed
  BY DEF CallStep, Create, Start, Launch, NewFeatureRun, ClaimFailed, Claim, RecordRead, RecordWrite,
     SkipRead, SkipWrite, Finalize, Finish, StopClaim, StopFind, StopFeature, TickSignal, TickResume,
     TickWait
<1>3. CASE End(c)
  BY <1>1, <1>2, <1>3, LockedEnds
<1>4. ASSUME NEW j, Go(c, j), j \in CallType, j.token = k.token, j.run = k.run, j.pc # "tick",
             Driver(j) => Driver(k) \/ k.pc = "tick" \/ k.run \notin lapsed'
      PROVE  \A d \in Calls : Locked(d)'
  BY <1>0, <1>1, <1>2, <1>4, LockedGoes
<1>5. CASE Create(c)
  <2> DEFINE j == [k EXCEPT !.pc = "start"]
  <2>1. Go(c, j) /\ k.run \notin lapsed' /\ j.pc = "start"
        /\ j \in CallType /\ j.token = k.token /\ j.run = k.run
    BY <1>0, <1>5 DEF Create, Statements, CallType
  <2> QED
    BY <1>4, <2>1
<1>6. CASE Start(c) /\ ~End(c)
  <2>1. PICK pc \in {"launch", "finalize"} : Go(c, [k EXCEPT !.pc = pc])
    BY <1>0, <1>6 DEF Start
  <2> DEFINE j == [k EXCEPT !.pc = pc]
  <2>2. j \in CallType /\ j.token = k.token /\ j.run = k.run /\ j.pc = pc /\ Driver(k)
    BY <1>0, <1>6 DEF Start, At, CallType, Statements, Driver
  <2> QED
    BY <1>4, <2>1, <2>2
<1>7. CASE Launch(c)
  BY <1>3, <1>7 DEF Launch
<1>8. CASE ClaimFailed(c) /\ ~End(c)
  <2>1. PICK j : /\ j = [k EXCEPT !.pc = "record", !.then = "advance",
                           !.result = [order |-> k.order, status |-> "FAILED", featureRun |-> 0]]
                 /\ Go(c, j)
    BY <1>0, <1>8 DEF ClaimFailed
  <2>2. j \in CallType /\ j.token = k.token /\ j.run = k.run /\ j.pc = "record" /\ Driver(k)
    BY <1>0, <1>1, <1>8, <2>1, ResultTypes
       DEF ClaimFailed, At, CallType, Statements, Continuations, Driver
  <2> QED
    BY <1>4, <2>1, <2>2
<1>9. CASE Claim(c) /\ ~End(c)
  <2>1. Go(c, AfterStage(k, k.order, Bad(k.result))) /\ Claims(k.run, k.order) /\ k.pc = "claim"
        /\ lapsed' = lapsed
    BY <1>0, <1>9 DEF Claim, At
  <2>2. k.run \notin lapsed'
    BY <1>0, <2>1, ClaimsUnlapsed
  <2> QED
    BY <1>1, <1>4, <2>1, <2>2, AfterStageHolder
<1>10. CASE RecordRead(c)
  <2>1. k.pc = "record" /\ k.then \in {"advance", "end"}
    BY <1>0, <1>1, <1>10 DEF RecordRead, At, CallInOrder, RecordInOrder
  <2>2. k.then = "advance" => Driver(k)
    BY <2>1 DEF Driver
  <2>3. CASE Go(c, AfterRecord(k))
    BY <1>4, <2>2, <2>1, <2>3, AfterRecordHolder
  <2>4. CASE Go(c, [k EXCEPT !.pc = "recordWrite", !.seen = run[k.run].results])
    <3> DEFINE results == run[k.run].results
               j == [k EXCEPT !.pc = "recordWrite", !.seen = results]
    <3>1. results \in SUBSET Result
      BY <1>1 DEF RowType
    <3>2. j \in CallType /\ j.token = k.token /\ j.run = k.run /\ j.pc = "recordWrite" /\ j.then = k.then
      <4> HIDE DEF results
      <4> QED
        BY <3>1 DEF CallType, Statements
    <3>3. Driver(j) => Driver(k)
      BY <2>1, <2>2, <3>2 DEF Driver
    <3> QED
      BY <1>4, <2>4, <3>2, <3>3
  <2> QED
    BY <1>0, <1>10, <2>3, <2>4 DEF RecordRead
<1>11. CASE RecordWrite(c)
  <2> DEFINE i == [k EXCEPT !.seen = {}]
  <2>1. k.pc = "recordWrite" /\ k.then \in {"advance", "end"} /\ Go(c, AfterRecord(i))
    BY <1>0, <1>1, <1>11 DEF RecordWrite, At, CallInOrder, RecordInOrder
  <2>2. i \in CallType /\ i.token = k.token /\ i.run = k.run /\ i.then = k.then
    BY DEF CallType
  <2>3. k.then = "advance" => Driver(k)
    BY <2>1 DEF Driver
  <2> HIDE DEF i
  <2> QED
    BY <1>4, <2>1, <2>2, <2>3, AfterRecordHolder
<1>12. CASE SkipRead(c)
  <2> DEFINE results == run[k.run].results
             j == [k EXCEPT !.pc = "skipWrite", !.seen = results]
  <2>1. k.pc = "skip" /\ Go(c, j) /\ results \in SUBSET Result
    BY <1>0, <1>1, <1>12 DEF SkipRead, At, RowType
  <2>2. j \in CallType /\ j.token = k.token /\ j.run = k.run /\ j.pc = "skipWrite" /\ j.then = k.then
    <3>1. results \in SUBSET Result
      BY <2>1
    <3> HIDE DEF results
    <3> QED
      BY <3>1 DEF CallType, Statements
  <2>3. Driver(j) => Driver(k)
    BY <2>1, <2>2 DEF Driver
  <2> QED
    BY <1>4, <2>1, <2>2, <2>3
<1>13. CASE SkipWrite(c) /\ ~End(c)
  <2>1. PICK j : j = [k EXCEPT !.pc = "finalize", !.seen = {}] /\ Go(c, j) /\ Driver(k)
    BY <1>0, <1>13 DEF SkipWrite, At, Driver
  <2>2. j \in CallType /\ j.token = k.token /\ j.run = k.run /\ j.pc = "finalize"
    BY <2>1 DEF CallType, Statements
  <2> QED
    BY <1>4, <2>1, <2>2
<1>14. CASE Finalize(c) /\ ~End(c)
  <2>1. PICK then \in {"COMPLETE", "FAILED"} :
          Go(c, [k EXCEPT !.pc = "finish", !.then = then]) /\ Driver(k)
    BY <1>0, <1>14 DEF Finalize, At, Driver, Verdict
  <2> DEFINE j == [k EXCEPT !.pc = "finish", !.then = then]
  <2>2. j \in CallType /\ j.token = k.token /\ j.run = k.run /\ j.pc = "finish"
    BY DEF CallType, Statements, Continuations
  <2> QED
    BY <1>4, <2>1, <2>2
<1>15. CASE Finish(c)
  BY <1>3, <1>15 DEF Finish
<1>16. CASE StopClaim(c) /\ ~End(c)
  <2> DEFINE j == [k EXCEPT !.pc = "stopFind"]
  <2>1. Go(c, j)
    BY <1>0, <1>16 DEF StopClaim
  <2>2. j \in CallType /\ j.token = k.token /\ j.run = k.run /\ j.pc = "stopFind"
    BY DEF CallType, Statements
  <2> QED
    BY <1>4, <2>1, <2>2 DEF Driver
<1>17. CASE StopFind(c)
  <2>1. PICK f \in Unfinished(k.run) \cup {0} :
          Go(c, [k EXCEPT !.pc = "stopFeature",
                          !.result = [order |-> k.order, status |-> "CANCELLED", featureRun |-> f]])
    BY <1>0, <1>17 DEF StopFind
  <2>2. f \in Nat
    BY <1>1, RowTypes DEF Unfinished, Started
  <2> DEFINE x == [order |-> k.order, status |-> "CANCELLED", featureRun |-> f]
             j == [k EXCEPT !.pc = "stopFeature", !.result = x]
  <2>3. x \in Result
    BY <1>1, <2>2, ResultTypes
  <2>4. j \in CallType /\ j.token = k.token /\ j.run = k.run /\ j.pc = "stopFeature"
    <3> HIDE DEF x
    <3> QED
      BY <2>3 DEF CallType, Statements
  <2> QED
    BY <1>4, <2>1, <2>4 DEF Driver
<1>18. CASE StopFeature(c)
  <2> DEFINE n == k.order + 1
             i == [k EXCEPT !.pc = "record", !.then = "end", !.seen = {}]
             j == [k EXCEPT !.pc = "skip", !.then = "end", !.order = n, !.seen = {}]
  <2>1. Go(c, i) \/ Go(c, j)
    BY <1>0, <1>18 DEF StopFeature
  <2>2. i \in CallType /\ i.token = k.token /\ i.run = k.run /\ i.pc = "record" /\ i.then = "end"
    BY DEF CallType, Statements, Continuations
  <2>3. j \in CallType /\ j.token = k.token /\ j.run = k.run /\ j.pc = "skip" /\ j.then = "end"
    <3>1. n \in Nat
      BY <1>1
    <3> HIDE DEF n
    <3> QED
      BY <3>1 DEF CallType, Statements, Continuations
  <2> HIDE DEF i, j
  <2> QED
    BY <1>4, <2>1, <2>2, <2>3 DEF Driver
<1>19. CASE TickSignal(c) /\ ~End(c)
  <2> DEFINE i == [k EXCEPT !.seen = {}]
             f == Latest(k.run)
             q == featureRuns[f].run
             o == run[q].current
             x == [order |-> o, status |-> featureRuns[f].status, featureRun |-> f]
             j == [i EXCEPT !.pc = "claim", !.run = q, !.order = o, !.result = x]
  <2>1. Go(c, j) /\ f # 0 /\ Terminal(f)
    BY <1>0, <1>19 DEF TickSignal, ReadForSignal
  <2>2. f \in Started(k.run) /\ f \in 1 .. Len(featureRuns) /\ f \in Nat /\ q = k.run
    BY <1>1, <2>1, LatestIsLatest, RowTypes DEF IsLatest, Started
  <2>3. o \in Nat /\ featureRuns[f].status \in {"PASSED", "FAILED", "CANCELLED"}
    BY <1>1, <2>1, <2>2, FeatureRunTypes, RowTypes
       DEF Terminal, FeatureRunType, FeatureStatuses, IInv
  <2>4. x \in Result
    BY <2>2, <2>3, ResultTypes
  <2>5. j \in CallType /\ j.token = k.token /\ j.run = k.run /\ j.pc = "claim"
    <3>1. i \in CallType /\ i.token = k.token /\ q \in Runs
      BY <1>1, <2>2 DEF CallType
    <3>2. q = k.run
      BY <2>2
    <3> HIDE DEF x, i, o, q
    <3> QED
      BY <2>3, <2>4, <3>1, <3>2 DEF CallType, Statements
  <2> HIDE DEF j
  <2> QED
    BY <1>4, <2>1, <2>5 DEF Driver
<1>20. CASE TickResume(c) /\ ~End(c)
  <2> DEFINE i == [k EXCEPT !.seen = {}]
             s == [i EXCEPT !.pc = "skip", !.then = "finalize"]
             b == [i EXCEPT !.pc = "start"]
  <2>1. k.pc = "tick" /\ (Go(c, s) \/ Go(c, b))
    BY <1>0, <1>20 DEF TickResume, At
  <2>2. s \in CallType /\ s.token = k.token /\ s.run = k.run /\ s.pc = "skip"
    BY DEF CallType, Statements, Continuations
  <2>3. b \in CallType /\ b.token = k.token /\ b.run = k.run /\ b.pc = "start"
    BY DEF CallType, Statements
  <2> HIDE DEF s, b
  <2> QED
    BY <1>4, <2>1, <2>2, <2>3
<1>21. CASE TickWait(c) /\ ~End(c)
  <2> DEFINE x == [order |-> k.order, status |-> "CANCELLED", featureRun |-> 0]
             j == [k EXCEPT !.pc = "record", !.then = "end", !.seen = {}, !.result = x]
  <2>1. Go(c, j)
    BY <1>0, <1>21 DEF TickWait
  <2>2. x \in Result
    BY <1>1, ResultTypes
  <2>3. j \in CallType /\ j.token = k.token /\ j.run = k.run /\ j.pc = "record" /\ j.then = "end"
    <3> HIDE DEF x
    <3> QED
      BY <2>2 DEF CallType, Statements, Continuations
  <2> HIDE DEF j
  <2> QED
    BY <1>4, <2>1, <2>3 DEF Driver
<1> QED
  BY <1>3, <1>5, <1>6, <1>7, <1>8, <1>9, <1>10, <1>11, <1>12, <1>13, <1>14, <1>15, <1>16, <1>17,
     <1>18, <1>19, <1>20, <1>21 DEF CallStep

\* Steps of anybody else, with the lock in order.
LEMMA OthersLocked ==
  ASSUME IInv, \A d \in Calls : Locked(d), [Next]_vars, ~Unlocked, "slow" \notin Faults,
         \A c \in Calls : ~CallStep(c) /\ ~Refuse(c)
  PROVE  \A d \in Calls : Locked(d)'
<1>1. ASSUME UNCHANGED <<call, lock>>, lapsed' \subseteq lapsed
      PROVE  \A d \in Calls : Locked(d)'
  BY <1>1 DEF Locked
<1>2. ASSUME NEW c \in Calls, Crash(c) PROVE \A d \in Calls : Locked(d)'
  <2>1. Idle.pc = "idle" /\ Idle.token = FALSE /\ ~Driver(Idle)
    BY DEF Idle, Driver
  <2> QED
    BY <1>2, <2>1, IdleType, LockedMoves DEF Crash
<1>3. ASSUME NEW c \in Calls, NEW r \in Runs, Trigger(c, r) PROVE \A d \in Calls : Locked(d)'
  <2> DEFINE j == [Idle EXCEPT !.pc = "create", !.run = r]
  <2>1. j \in CallType /\ j.pc = "create" /\ j.token = FALSE
    BY IdleType DEF CallType, Statements, Idle
  <2>2. Go(c, j) /\ lapsed' = lapsed
    BY <1>3 DEF Trigger
  <2> HIDE DEF j
  <2> QED
    BY <2>1, <2>2, LockedMoves DEF Go, Driver
<1>4. ASSUME NEW c \in Calls, NEW r \in Runs, StopRead(c, r) PROVE \A d \in Calls : Locked(d)'
  <2> DEFINE o == run[r].current
             results == run[r].results
             j == [Idle EXCEPT !.pc = "stopClaim", !.run = r, !.order = o, !.seen = results]
  <2>1. o \in Nat /\ results \in SUBSET Result
    BY RowTypes
  <2>2. j \in CallType /\ j.pc = "stopClaim" /\ j.token = FALSE
    <3> HIDE DEF o, results
    <3> QED
      BY <2>1, IdleType DEF CallType, Statements, Idle
  <2>3. Go(c, j) /\ lapsed' = lapsed
    BY <1>4 DEF StopRead
  <2> HIDE DEF j
  <2> QED
    BY <2>2, <2>3, LockedMoves DEF Go, Driver
<1>5. ASSUME NEW c \in Calls, NEW r \in Runs, TickRead(c, r) PROVE \A d \in Calls : Locked(d)'
  <2> DEFINE o == run[r].current
             results == run[r].results
             t == [[Idle EXCEPT !.pc = "tick", !.run = r, !.order = o, !.seen = results]
                    EXCEPT !.token = TRUE]
  <2>1. ~Fault("redis")
    BY <1>5 DEF Unlocked
  <2>2. lock = 0 /\ lock' = c /\ call' = [call EXCEPT ![c] = t] /\ lapsed' = lapsed
    BY <1>5, <2>1 DEF TickRead
  <2>3. t.pc = "tick" /\ t.token = TRUE
    BY DEF Idle
  <2> HIDE DEF t
  <2> SUFFICES ASSUME NEW d \in Calls PROVE Locked(d)'
    OBVIOUS
  <2>4. call'[d] = IF d = c THEN t ELSE call[d]
    BY <2>2, Types DEF IInv
  <2>5. lock # d
    BY <2>2, CallsAssumption
  <2>6. ~Driver(t)
    BY <2>3 DEF Driver
  <2> QED
    BY <2>2, <2>3, <2>4, <2>5, <2>6 DEF Locked
<1>6. ASSUME NEW f \in 1 .. Len(featureRuns), NEW c \in Calls, Signal(c, f)
      PROVE  \A d \in Calls : Locked(d)'
  <2> DEFINE j == ReadForSignal(Idle, f)
  <2>1. Go(c, j) /\ lapsed' = lapsed
    BY <1>6 DEF Signal
  <2>2. j.pc = "claim" /\ j.token = FALSE
    BY DEF ReadForSignal, Idle
  <2> HIDE DEF j
  <2> SUFFICES ASSUME NEW d \in Calls PROVE Locked(d)'
    OBVIOUS
  <2>3. call'[d] = (IF d = c THEN j ELSE call[d]) /\ lock' = lock /\ Locked(d)
    BY <2>1, Types DEF IInv, Go
  <2>4. ~Driver(j)
    BY <2>2 DEF Driver
  <2> QED
    BY <2>1, <2>2, <2>3, <2>4 DEF Locked
<1>7. ASSUME NEW r \in Runs, Lapse(r) PROVE \A d \in Calls : Locked(d)'
  <2>1. \A d \in Calls : ~DrivenBy(r, d)
    BY <1>7, LapsesAlone
  <2> QED
    BY <1>7, <2>1 DEF Lapse, Locked, DrivenBy
<1>8. ASSUME Expire PROVE \A d \in Calls : Locked(d)'
  <2>1. ~Fault("expire")
    BY <1>8 DEF Unlocked
  <2>2. ~call[lock].token
    BY <1>8, <2>1 DEF Expire
  <2>3. call' = call /\ lapsed' = lapsed /\ \A d \in Calls : ~call[d].token
    BY <1>8, <2>2 DEF Expire, Locked
  <2> QED
    BY <2>3 DEF Locked
<1>9. ASSUME NEW f \in 1 .. Len(featureRuns), Complete(f) \/ CancelFeatureRun(f)
      PROVE  \A d \in Calls : Locked(d)'
  BY <1>1, <1>9 DEF Complete, CancelFeatureRun
<1>10. CASE UNCHANGED vars
  BY <1>1, <1>10 DEF vars
<1> QED
  BY <1>2, <1>3, <1>4, <1>5, <1>6, <1>7, <1>8, <1>9, <1>10 DEF Next

\* Without crashes somebody drives every run that has no feature run to wait for.
LEMMA NobodyLapses ==
  ASSUME NEW F, IInv, OInv(F), "crash" \notin F, "slow" \notin Faults, NEW r \in Runs, Lapse(r)
  PROVE  FALSE
<1>1. Attended(r) /\ run[r].status = "RUNNING"
  BY DEF OInv, Lapse
<1> QED
  BY <1>1, LapsesAlone DEF Attended

LEMMA LapsedFrom ==
  ASSUME [Next]_vars
  PROVE  lapsed' \subseteq lapsed \/ \E r \in Runs : Lapse(r) /\ lapsed' = lapsed \cup {r}
BY DEF Next, vars, CallStep, Create, Start, Launch, NewFeatureRun, ClaimFailed, Claim, RecordRead,
   RecordWrite, SkipRead, SkipWrite, Finalize, Finish, StopClaim, StopFind, StopFeature, TickSignal,
   TickResume, TickWait, Refuse, Crash, Trigger, StopRead, TickRead, Complete, CancelFeatureRun,
   Signal, Expire, Lapse

LEMMA NextLocked ==
  ASSUME NEW F, IInv, OInv(F), LInv(F), [Next]_vars, Separately, Prepared(F)
  PROVE  LInv(F)'
<1>1. /\ "slow" \notin Faults /\ "enqueue" \notin Faults /\ lapsed \subseteq Runs
      /\ \A r \in lapsed : ~Entered(r)
  BY DEF Separately, LInv
<1>2. lapsed' \subseteq lapsed \/ \E r \in Runs : Lapse(r) /\ lapsed' = lapsed \cup {r}
  BY LapsedFrom
<1>3. lapsed' \subseteq Runs
  BY <1>1, <1>2
<1>4. ASSUME NEW r \in lapsed' PROVE ~Entered(r)'
  <2>1. CASE r \in lapsed
    BY <1>1, <1>4, <2>1, LapsedStayOpen
  <2>2. CASE r \notin lapsed
    <3>1. Lapse(r) /\ r \in Runs
      BY <1>2, <1>4, <2>2
    <3>2. ~Entered(r)
      BY <1>1, <3>1, LapsesAlone
    <3> QED
      BY <3>1, <3>2 DEF Lapse, Entered, Started
  <2> QED
    BY <2>1, <2>2
<1>5. CASE "crash" \notin F
  <2>1. lapsed = {}
    BY <1>5 DEF LInv
  <2>2. \A r \in Runs : ~Lapse(r)
    BY <1>1, <1>5, NobodyLapses
  <2> QED
    BY <1>2, <1>3, <1>4, <1>5, <2>1, <2>2 DEF LInv
<1>6. CASE "crash" \in F
  <2>1. ~Unlocked /\ \A c \in Calls : ~Refuse(c)
    BY <1>6 DEF Prepared
  <2>2. \A c \in Calls : Locked(c)
    BY <1>6 DEF LInv
  <2>3. \A c \in Calls : Locked(c)'
    BY <1>1, <1>6, <2>1, <2>2, CallStepLocked, OthersLocked
  <2> QED
    BY <1>3, <1>4, <1>6, <2>3 DEF LInv
<1> QED
  BY <1>5, <1>6

-----------------------------------------------------------------------------
(* Every step.                                                             *)

LEMMA NextInOrder ==
  ASSUME NEW F, IInv, OInv(F), LInv(F), [Next]_vars, Separately, Prepared(F)
  PROVE  IInv' /\ OInv(F)'
<1>1. IInv' /\ ResumesAlone
  BY NextOK, TicksResumeAlone
<1>2. CASE UNCHANGED vars
  BY <1>1, <1>2, Nothing, NobodyMovesInOrder DEF vars
<1>3. ASSUME NEW c \in Calls, CallStep(c) PROVE OInv(F)'
  BY <1>1, <1>3, CreateInOrder, StartInOrder, LaunchInOrder, ClaimFailedInOrder, ClaimInOrderStep,
     RecordReadInOrder, RecordWriteInOrder, SkipReadInOrder, SkipWriteInOrder, FinalizeInOrder,
     FinishInOrder, StopClaimInOrder, StopFindInOrder, StopFeatureInOrder, TickSignalInOrder,
     TickResumeInOrder, TickWaitInOrder DEF CallStep, Separately
<1>6. ASSUME NEW c \in Calls, Refuse(c) \/ Crash(c) PROVE OInv(F)'
  BY <1>1, <1>6, RefuseInOrder, CrashInOrder DEF Prepared, Separately
<1>4. ASSUME NEW c \in Calls, NEW r \in Runs, Trigger(c, r) \/ StopRead(c, r) \/ TickRead(c, r)
      PROVE  OInv(F)'
  BY <1>1, <1>4, TriggerInOrder, StopReadInOrder, TickReadInOrder
<1>5. ASSUME NEW f \in 1 .. Len(featureRuns),
             Complete(f) \/ CancelFeatureRun(f) \/ \E c \in Calls : Signal(c, f)
      PROVE  OInv(F)'
  BY <1>1, <1>5, FeatureRunEndsInOrder, SignalInOrder DEF Prepared
<1>7. ASSUME NEW r \in Runs, Lapse(r) PROVE OInv(F)'
  BY <1>1, <1>7, Nothing, NobodyMovesInOrder DEF Lapse
<1> QED
  BY <1>1, <1>2, <1>3, <1>4, <1>5, <1>6, <1>7, ExpireInOrder DEF Next

AInv(F) == OInv(F) /\ LInv(F)

LEMMA InitAll ==
  ASSUME NEW F, Init
  PROVE  AInv(F)
<1>1. lapsed = {} /\ \A c \in Calls : Locked(c)
  BY DEF Init, Idle, Locked, Driver
<1> QED
  BY <1>1, InitInOrder DEF AInv, LInv

LEMMA NextAll ==
  ASSUME NEW F, IInv, AInv(F), [Next]_vars, Separately, Prepared(F)
  PROVE  IInv' /\ AInv(F)'
BY NextInOrder, NextLocked DEF AInv

\* One failure at a time: the count of failures tells whether there was one.
LEMMA FailuresAreCounted ==
  ASSUME faults \in Nat, [Next]_vars
  PROVE  /\ faults' \in Nat
         /\ faults' # faults => faults < MaxFaults /\ faults' = faults + 1
         /\ \A F : ~Prepared(F) => faults' # faults
<1> DEFINE Counted == faults' = faults \/ (faults < MaxFaults /\ faults' = faults + 1)
<1>1. ASSUME UNCHANGED vars PROVE Counted
  BY <1>1 DEF vars
<1>2. ASSUME NEW c \in Calls, CallStep(c) PROVE Counted
  <2>1. CASE TickWait(c)
    BY <2>1 DEF TickWait, Quiet
  <2>2. CASE ~TickWait(c)
    BY <1>2, <2>2 DEF CallStep, Create, Start, Launch, ClaimFailed, Claim, RecordRead, RecordWrite,
       SkipRead, SkipWrite, Finalize, Finish, StopClaim, StopFind, StopFeature, TickSignal, TickResume,
       Quiet
  <2> QED
    BY <2>1, <2>2
<1>3. ASSUME NEW c \in Calls, Refuse(c) \/ Crash(c) PROVE Counted
  BY <1>3 DEF Refuse, Crash, Fault
<1>4. ASSUME NEW c \in Calls, NEW r \in Runs, Trigger(c, r) \/ StopRead(c, r) \/ TickRead(c, r)
      PROVE  Counted
  BY <1>4 DEF Trigger, StopRead, TickRead, Fault, Quiet
<1>5. ASSUME NEW f \in 1 .. Len(featureRuns),
             Complete(f) \/ CancelFeatureRun(f) \/ \E c \in Calls : Signal(c, f)
      PROVE  Counted
  BY <1>5 DEF Complete, CancelFeatureRun, Signal, Fault, Quiet
<1>6. ASSUME Expire \/ \E r \in Runs : Lapse(r) PROVE Counted
  BY <1>6 DEF Expire, Lapse, Fault, Quiet
<1>7. Counted
  BY <1>1, <1>2, <1>3, <1>4, <1>5, <1>6 DEF Next, vars
<1>8. \A F : ~Prepared(F) => faults' = faults + 1
  BY DEF Prepared, Unlocked, Crash, Refuse, CancelFeatureRun, Fault
<1> QED
  BY <1>7, <1>8

\* A behaviour is prepared for its failures from the start, or it is prepared
\* for any until the only one has come.
Orderly ==
  IF Unmixed(Faults) THEN AInv(Faults)
  ELSE /\ faults \in Nat
       /\ \E F \in SUBSET Faults : AInv(F)
       /\ faults < MaxFaults => \A F \in SUBSET Faults : AInv(F)

LEMMA InitOrderly ==
  ASSUME Init
  PROVE  Orderly
<1>1. faults \in Nat
  BY DEF Init
<1> QED
  BY <1>1, InitAll DEF Orderly

\* A tick that comes takes no call off its run.
LEMMA TicksAreNew ==
  ASSUME IInv, NEW c \in Calls, call[c].pc # "idle", NEW d \in Calls, NEW r \in Runs, TickRead(d, r)
  PROVE  call'[c] = call[c]
<1>1. c # d
  BY DEF TickRead, Free, At
<1>2. PICK k : call' = [call EXCEPT ![d] = k]
  BY DEF TickRead, Go
<1> QED
  BY <1>1, <1>2, Types DEF IInv

LEMMA NextOrderly ==
  ASSUME IInv, Orderly, [Next]_vars, Separately
  PROVE  IInv' /\ Orderly'
<1>1. CASE Unmixed(Faults)
  <2>1. Prepared(Faults)
    BY <1>1 DEF Prepared, Unmixed, Separately, Unlocked, Crash, Refuse, CancelFeatureRun, Fault
  <2> QED
    BY <1>1, <2>1, NextAll DEF Orderly
<1>2. CASE ~Unmixed(Faults)
  <2>1. /\ MaxFaults <= 1 /\ MaxFaults \in Nat /\ faults \in Nat
        /\ \E F \in SUBSET Faults : AInv(F)
        /\ faults < MaxFaults => \A F \in SUBSET Faults : AInv(F)
    BY <1>2, EnvironmentAssumption DEF Separately, Orderly
  <2>2. /\ faults' \in Nat
        /\ faults' # faults => faults < MaxFaults /\ faults' = faults + 1
        /\ \A F : ~Prepared(F) => faults' # faults
    BY <2>1, FailuresAreCounted
  <2>3. CASE faults' = faults
    <3>1. \A F : AInv(F) => IInv' /\ AInv(F)'
      BY <2>2, <2>3, NextAll
    <3> QED
      BY <1>2, <2>1, <2>3, <3>1 DEF Orderly
  <2>4. CASE faults' # faults
    <3>1. ~(faults' < MaxFaults) /\ \A F \in SUBSET Faults : AInv(F)
      BY <2>1, <2>2, <2>4
    <3>2. \E F \in SUBSET Faults : Prepared(F)
      <4>1. CASE \E c \in Calls : Crash(c)
        <5>1. {"crash"} \in SUBSET Faults
          BY <4>1 DEF Crash, Fault
        <5>2. PICK c \in Calls : Crash(c)
          BY <4>1
        <5>3. call[c].pc # "idle" /\ call'[c] = Idle /\ Idle.pc = "idle"
          BY <5>2, Types DEF Crash, Idle, IInv
        <5>4. ASSUME NEW d \in Calls, Refuse(d) PROVE FALSE
          <6>1. PICK k \in CallType : k = call[d]
            BY <5>2, <5>4, Local DEF Refuse, At
          <6>2. call'[d].pc = "claimFailed" /\ (c # d => call'[c] = call[c])
            BY <5>4, <6>1, Types DEF Refuse, Go, IInv, CallType
          <6> QED
            BY <5>3, <6>2
        <5>5. \A f \in 1 .. Len(featureRuns) : ~CancelFeatureRun(f)
          BY <5>3 DEF CancelFeatureRun
        <5>6. ~Unlocked
          BY <5>3, TicksAreNew DEF Unlocked, Expire
        <5> QED
          BY <5>1, <5>4, <5>5, <5>6 DEF Prepared
      <4>2. CASE ~(\E c \in Calls : Crash(c))
        <5>1. Prepared({}) /\ {} \in SUBSET Faults
          BY <4>2 DEF Prepared
        <5> QED
          BY <5>1
      <4> QED
        BY <4>1, <4>2
    <3> QED
      BY <1>2, <2>2, <3>1, <3>2, NextAll DEF Orderly
  <2> QED
    BY <2>3, <2>4
<1> QED
  BY <1>1, <1>2

LEMMA OrderlyIsInOrder ==
  ASSUME Orderly
  PROVE  \E F : OInv(F)
BY DEF Orderly, AInv

-----------------------------------------------------------------------------
\* Types hold throughout, short of the failures that Separately excludes.
THEOREM PipelineTypes ==
  ASSUME Separately
  PROVE  Spec => []TypeOK
<1>1. Init => IInv /\ Orderly
  BY InitOK, InitOrderly
<1>2. IInv /\ Orderly /\ [Next]_vars => IInv' /\ Orderly'
  BY NextOrderly
<1>3. IInv /\ Orderly => TypeOK
  BY DEF IInv, Typed, TypeOK, Orderly, AInv, LInv
<1> QED
  BY <1>1, <1>2, <1>3, PTL DEF Spec

\* No stage of a run is executed twice, however signals, ticks, stops and
\* failures interleave: the claim makes every stage somebody heads for a new
\* one, and a tick that finds the grace period over (lines 484-486) finds a run
\* that nobody drives.  The time alone does not say so.  Either no call has
\* died, and every run that waits for a stage has a driver, or the lock of the
\* tick has held, and whoever drives a run whose grace period is over has it.
THEOREM NoStageTwice ==
  ASSUME Separately
  PROVE  Spec => []StageOnce
<1>1. Init => IInv /\ Orderly
  BY InitOK, InitOrderly
<1>2. IInv /\ Orderly /\ [Next]_vars => IInv' /\ Orderly'
  BY NextOrderly
<1>3. IInv /\ Orderly => StageOnce
  BY IInvMeansStageOnce
<1> QED
  BY <1>1, <1>2, <1>3, PTL DEF Spec

\* A signal files its result under whatever stage is current when it reads the
\* run; that stage is the one its feature run executed, however signals, ticks,
\* stops and, short of what Separately excludes, failures interleave.
THEOREM ResultsAreAttributed ==
  ASSUME Separately
  PROVE  Spec => []Attribution
<1>1. Init => IInv /\ Orderly
  BY InitOK, InitOrderly
<1>2. IInv /\ Orderly /\ [Next]_vars => IInv' /\ Orderly'
  BY NextOrderly
<1>3. IInv /\ Orderly => Attribution
  BY OrderlyIsInOrder, InOrderMeansAttribution
<1> QED
  BY <1>1, <1>2, <1>3, PTL DEF Spec

\* finalize judges by the results it finds: nobody finalizes a run before every
\* stage has a result, and nobody replaces one afterwards, so a COMPLETE run
\* passed every stage and a FAILED one accounts for every stage.
THEOREM VerdictsAreEarned ==
  ASSUME Separately
  PROVE  Spec => []VerdictIsEarned
<1>1. Init => IInv /\ Orderly
  BY InitOK, InitOrderly
<1>2. IInv /\ Orderly /\ [Next]_vars => IInv' /\ Orderly'
  BY NextOrderly
<1>3. IInv /\ Orderly => VerdictIsEarned
  BY OrderlyIsInOrder, InOrderMeansVerdictIsEarned
<1> QED
  BY <1>1, <1>2, <1>3, PTL DEF Spec

\* No stage is executed after a stage that did not pass and whose policy is
\* HALT, whether the claim, the failed start or the tick drives the run on.
THEOREM HaltsAreKept ==
  ASSUME Separately
  PROVE  Spec => []HaltHolds
<1>1. Init => IInv /\ Orderly
  BY InitOK, InitOrderly
<1>2. IInv /\ Orderly /\ [Next]_vars => IInv' /\ Orderly'
  BY NextOrderly
<1>3. IInv /\ Orderly => HaltHolds
  BY OrderlyIsInOrder, InOrderMeansHaltHolds
<1> QED
  BY <1>1, <1>2, <1>3, PTL DEF Spec

\* Pipeline runs implement StageSequence: every step of a call, a feature run
\* or a failure starts the stage that is due, ends the one that executes,
\* decides one of which nothing executes, or is invisible there.
THEOREM PipelineImplementsSequence ==
  ASSUME Separately
  PROVE  Spec => ImplementsSequence
<1>1. Init => IInv /\ Orderly /\ Sequence!SequenceInit
  BY InitOK, InitOrderly, SequenceInitially
<1>2. IInv /\ Orderly /\ [Next]_vars => IInv' /\ Orderly'
  BY NextOrderly
<1>3. IInv /\ Orderly /\ [Next]_vars => [Sequence!SequenceNext]_(Sequence!sequenceVars)
  BY OrderlyIsInOrder, SequenceSteps DEF Separately
<1> QED
  BY <1>1, <1>2, <1>3, PTL DEF Spec, ImplementsSequence, Sequence!SequenceSpec

=============================================================================
