--------------------------- MODULE Pipeline_proofs ---------------------------
(***************************************************************************)
(* What relates the rows, the feature runs and the calls of the sequencer, *)
(* and why every step of it keeps no stage executed twice, as long as a    *)
(* tick resumes a run only when nobody else drives it.  The theorems, and  *)
(* when that is so, are in PipelineOrder_proofs.                           *)
(***************************************************************************)
EXTENDS Pipeline, TLAPS

\* A call that may yet start a stage, and the stage it would start.
Starting(k) == k.pc \in {"start", "launch"}
Heading(k) == \/ Starting(k)
              \/ k.pc \in {"record", "recordWrite"} /\ k.then = "advance"
Heads(k) == IF Starting(k) THEN k.order ELSE k.order + 1

IsLatest(r, f) == f \in Started(r) /\ \A g \in Started(r) : g <= f

\* The current stage has a feature run.
AtStage(r) == /\ run[r].status = "RUNNING"
              /\ \E f \in Started(r) : featureRuns[f].order = run[r].current

KnownIn(results) == \A x \in results : x.featureRun <= Len(featureRuns)

\* While the current stage has a feature run, the latest one is not filed in
\* what is, or is about to become, the list of results.
Unfiled(r, results) == \A h \in Started(r) : AtStage(r) /\ IsLatest(r, h) => ~Recorded(results, h)

RowOK(r) ==
  /\ KnownIn(run[r].results)
  /\ run[r].status = "new" => run[r].current = 0 /\ Started(r) = {}
  /\ Started(r) # {} => \E f \in Started(r) : IsLatest(r, f)
  /\ Unfiled(r, run[r].results)
  /\ \A f \in Started(r) : featureRuns[f].order <= run[r].current
  /\ \A f, g \in Started(r) : featureRuns[f].order = featureRuns[g].order => f = g

\* What a call k of run r knows.  A call made by a stop or a stall finds the
\* run ended; a call that could not start its stage has no feature run to
\* file; the stage a call heads for is new; a tick whose list has the latest
\* feature run has no feature run of the stage it read.
CallOK(k) ==
  k.pc # "idle" =>
    /\ k.run \in Runs
    /\ KnownIn(k.seen)
    /\ k.pc = "launch" => k.order <= Last
    /\ k.pc = "create" => k.order = 0
    /\ k.pc = "finish" => k.then \in {"COMPLETE", "FAILED"}
    /\ k.pc = "create" <=> run[k.run].status = "new"
    /\ \/ k.pc \in {"stopFind", "stopFeature"}
       \/ k.pc \in {"record", "recordWrite"} /\ k.then # "advance"
       => run[k.run].status # "RUNNING"
    /\ k.pc \in {"record", "recordWrite"} /\ k.then = "advance" => k.result.featureRun = 0
    /\ k.pc \in {"claim", "stopFeature", "record", "recordWrite"}
         => k.result.featureRun <= Len(featureRuns)
    /\ Heading(k) => /\ Heads(k) <= run[k.run].current
                     /\ \A f \in Started(k.run) : featureRuns[f].order # Heads(k)
    /\ k.pc \in {"recordWrite", "skipWrite"} => Unfiled(k.run, k.seen)
    /\ k.pc = "tick" =>
         /\ k.order <= run[k.run].current
         /\ (\A h \in Started(k.run) : IsLatest(k.run, h) => Recorded(k.seen, h))
            => \A f \in Started(k.run) : featureRuns[f].order # k.order

\* Two calls of one run: neither creates it, and they head for two stages.
Apart(j, k) ==
  j.pc # "idle" /\ k.pc # "idle" /\ j.run = k.run =>
    /\ j.pc # "create" /\ k.pc # "create"
    /\ Heading(j) /\ Heading(k) => Heads(j) # Heads(k)

\* A call that drives its run on.
Driver(k) == \/ k.pc \in {"start", "launch", "claimFailed", "finalize", "finish"}
             \/ k.pc \in {"record", "recordWrite"} /\ k.then = "advance"
             \/ k.pc \in {"skip", "skipWrite"} /\ k.then = "finalize"

\* A tick that may resume a run finds nobody driving it.  The code looks at the
\* time alone; that this is enough rests on the lock of the tick, and is shown
\* in PipelineOrder_proofs.
ResumesAlone ==
  \A c, d \in Calls : call[c].pc = "tick" /\ call[c].run \in lapsed
                       /\ call[d].run = call[c].run => ~Driver(call[d])

\* TypeOK of the variables that IInv is about.
Typed ==
  /\ run \in [Runs -> [status : RunStatuses, current : Nat, results : SUBSET Result,
                       policy : [Orders -> {"HALT", "CONTINUE"}]]]
  /\ featureRuns \in Seq([run : Runs, order : Orders, status : FeatureStatuses])
  /\ call \in [Calls -> [pc : Statements, run : Runs \cup {"none"}, order : Nat,
                         result : Result, seen : SUBSET Result,
                         then : Continuations, token : BOOLEAN]]
  /\ lock \in Calls \cup {0}

IInv ==
  /\ Typed
  /\ \A r \in Runs : RowOK(r)
  /\ \A c \in Calls : CallOK(call[c])
  /\ \A c, d \in Calls : c # d => Apart(call[c], call[d])

-----------------------------------------------------------------------------
(* Frames: what a step leaves true of the rows and calls it does not       *)
(* change.                                                                 *)

CallType == [pc : Statements, run : Runs \cup {"none"}, order : Nat, result : Result,
             seen : SUBSET Result, then : Continuations, token : BOOLEAN]
FeatureRunType == [run : Runs, order : Orders, status : FeatureStatuses]

\* No feature run is started; at most the status of one changes.
SameFeatureRuns ==
  /\ Len(featureRuns') = Len(featureRuns)
  /\ \A f \in 1 .. Len(featureRuns) : /\ featureRuns'[f].run = featureRuns[f].run
                                      /\ featureRuns'[f].order = featureRuns[f].order

\* Run r, created before, may have ended or gone on by one stage.
Grows(r) ==
  /\ run[r].status # "new" \/ run'[r] = run[r]
  /\ run'[r].status = run[r].status \/ run'[r].status \notin {"new", "RUNNING"}
  /\ run'[r].current \in {run[r].current, run[r].current + 1}

LEMMA FeatureRunTypes ==
  ASSUME Typed
  PROVE  /\ Len(featureRuns) \in Nat
         /\ \A f \in 1 .. Len(featureRuns) :
              /\ featureRuns[f] \in FeatureRunType
              /\ featureRuns[f].run \in Runs
              /\ featureRuns[f].order \in Nat
<1>1. featureRuns \in Seq(FeatureRunType)
  BY DEF Typed, FeatureRunType
<1>2. Len(featureRuns) \in Nat /\ \A f \in 1 .. Len(featureRuns) : featureRuns[f] \in FeatureRunType
  BY <1>1
<1> QED
  BY <1>2 DEF FeatureRunType, Orders

\* Nothing of a call depends on the statuses of feature runs.
LEMMA SameStarted ==
  ASSUME SameFeatureRuns
  PROVE  /\ \A r : Started(r)' = Started(r)
         /\ \A r, f : IsLatest(r, f)' <=> IsLatest(r, f)
BY DEF SameFeatureRuns, Started, IsLatest

LEMMA RowKept ==
  ASSUME Typed, NEW r \in Runs, RowOK(r), SameFeatureRuns, run'[r] = run[r]
  PROVE  RowOK(r)'
<1>1. Started(r)' = Started(r) /\ \A f : IsLatest(r, f)' <=> IsLatest(r, f)
  BY SameStarted
<1>2. \A f \in Started(r) : featureRuns'[f].order = featureRuns[f].order
  BY DEF SameFeatureRuns, Started
<1>3. AtStage(r)' <=> AtStage(r)
  BY <1>1, <1>2 DEF AtStage
<1> QED
  BY <1>1, <1>2, <1>3 DEF RowOK, KnownIn, Unfiled, Recorded, SameFeatureRuns

LEMMA CallKept ==
  ASSUME Typed, NEW k, CallOK(k), k \in CallType, SameFeatureRuns,
         k.pc # "idle" => RowOK(k.run) /\ Grows(k.run)
  PROVE  CallOK(k)'
<1> SUFFICES ASSUME k.pc # "idle" PROVE CallOK(k)'
  BY DEF CallOK
<1> DEFINE r == k.run
<1>0. r \in Runs /\ RowOK(r) /\ Grows(r) /\ run[r].current \in Nat
  BY DEF CallOK, Typed
<1>1. Started(r)' = Started(r) /\ \A f : IsLatest(r, f)' <=> IsLatest(r, f)
  BY SameStarted
<1>2. \A f \in Started(r) : featureRuns'[f].order = featureRuns[f].order
                            /\ featureRuns[f].order \in Nat
  BY FeatureRunTypes DEF SameFeatureRuns, Started
<1>3. AtStage(r)' => AtStage(r)
  BY <1>0, <1>1, <1>2 DEF AtStage, Grows, RowOK
<1>4. k.pc \in {"recordWrite", "skipWrite"} => Unfiled(r, k.seen)'
  BY <1>1, <1>3 DEF CallOK, Unfiled, Recorded
<1>5. KnownIn(k.seen)' /\ Len(featureRuns') = Len(featureRuns)
  BY DEF CallOK, KnownIn, SameFeatureRuns
<1>6. (k.pc = "create" <=> run[r].status = "new")'
  BY <1>0 DEF CallOK, Grows
<1>7. Heading(k) => /\ Heads(k) <= run'[r].current
                    /\ \A f \in Started(r)' : featureRuns'[f].order # Heads(k)
  <2> Heads(k) \in Nat
    BY DEF Heads, CallType
  <2> QED BY <1>0, <1>1, <1>2 DEF CallOK, Grows
<1>8. k.pc = "tick" =>
        /\ k.order <= run'[r].current
        /\ (\A h \in Started(r)' : IsLatest(r, h)' => Recorded(k.seen, h))
           => \A f \in Started(r)' : featureRuns'[f].order # k.order
  <2> k.order \in Nat
    BY DEF CallType
  <2> QED BY <1>0, <1>1, <1>2 DEF CallOK, Grows
<1> QED
  BY <1>0, <1>4, <1>5, <1>6, <1>7, <1>8 DEF CallOK, Grows, Heading, Heads, Starting, Recorded

\* Apart does not depend on the state; only the call that moved matters.
LEMMA ApartKept ==
  ASSUME IInv, NEW c \in Calls, \A d \in Calls \ {c} : call'[d] = call[d],
         \A d \in Calls \ {c} : Apart(call'[c], call[d]) /\ Apart(call[d], call'[c])
  PROVE  \A d, e \in Calls : d # e => Apart(call'[d], call'[e])
BY DEF IInv

\* A call moves without touching a row: what it needs is about itself.
LEMMA CallMoves ==
  ASSUME IInv, SameFeatureRuns, run' = run, Typed', NEW c \in Calls,
         \A d \in Calls \ {c} : call'[d] = call[d],
         CallOK(call[c])',
         \A d \in Calls \ {c} : Apart(call'[c], call[d]) /\ Apart(call[d], call'[c])
  PROVE  IInv'
<1>1. \A r \in Runs : RowOK(r)'
  BY RowKept DEF IInv
<1>2. ASSUME NEW d \in Calls \ {c}
      PROVE  CallOK(call[d])'
  <2>1. call[d] \in CallType /\ CallOK(call[d])
    BY DEF IInv, Typed, CallType
  <2>2. call[d].pc # "idle" => RowOK(call[d].run) /\ Grows(call[d].run)
    BY <2>1 DEF IInv, CallOK, Grows
  <2> QED
    BY <2>1, <2>2, CallKept DEF IInv
<1>3. \A d \in Calls : CallOK(call[d])'
  BY <1>2
<1> QED
  BY <1>1, <1>3, ApartKept DEF IInv

\* A call changes the row of its run and moves.
LEMMA CallWrites ==
  ASSUME IInv, SameFeatureRuns, Typed', NEW c \in Calls, NEW r \in Runs,
         \A q \in Runs \ {r} : run'[q] = run[q],
         RowOK(r)',
         Grows(r) \/ \A d \in Calls \ {c} : call[d].pc # "idle" => call[d].run # r,
         \A d \in Calls \ {c} : call'[d] = call[d],
         CallOK(call[c])',
         \A d \in Calls \ {c} : Apart(call'[c], call[d]) /\ Apart(call[d], call'[c])
  PROVE  IInv'
<1>1. \A q \in Runs : RowOK(q)'
  BY RowKept DEF IInv
<1>2. ASSUME NEW d \in Calls \ {c}
      PROVE  CallOK(call[d])'
  <2>1. call[d] \in CallType /\ CallOK(call[d])
    BY DEF IInv, Typed, CallType
  <2>2. call[d].pc # "idle" => RowOK(call[d].run) /\ Grows(call[d].run)
    BY <2>1 DEF IInv, CallOK, Grows
  <2> QED
    BY <2>1, <2>2, CallKept DEF IInv
<1>3. \A d \in Calls : CallOK(call[d])'
  BY <1>2
<1> QED
  BY <1>1, <1>3, ApartKept DEF IInv

-----------------------------------------------------------------------------
(* Types.                                                                  *)

RowType == [status : RunStatuses, current : Nat, results : SUBSET Result,
            policy : [Orders -> {"HALT", "CONTINUE"}]]

LEMMA ResultTypes ==
  ASSUME NEW o \in Nat, NEW f \in Nat, NEW s \in {"PASSED", "FAILED", "CANCELLED", "SKIPPED"}
  PROVE  [order |-> o, status |-> s, featureRun |-> f] \in Result
BY DEF Result

LEMMA Types ==
  Typed <=> /\ run \in [Runs -> RowType]
             /\ featureRuns \in Seq(FeatureRunType)
             /\ call \in [Calls -> CallType]
             /\ lock \in Calls \cup {0}
BY DEF Typed, RowType, FeatureRunType, CallType

LEMMA IdleType == Idle \in CallType
BY ResultTypes DEF Idle, CallType, Statements, Continuations

LEMMA CallStays ==
  ASSUME Typed, NEW c \in Calls, NEW k \in CallType,
         call' = [call EXCEPT ![c] = k]
  PROVE  /\ call' \in [Calls -> CallType]
         /\ call'[c] = k
         /\ \A d \in Calls \ {c} : call'[d] = call[d]
BY Types

LEMMA EndType ==
  ASSUME Typed, NEW c \in Calls, End(c)
  PROVE  call' \in [Calls -> CallType] /\ lock' \in Calls \cup {0}
BY Types, IdleType DEF End

LEMMA Retyped ==
  ASSUME NEW k \in CallType, NEW pc \in Statements, NEW o \in Nat,
         NEW then \in Continuations, NEW x \in Result, NEW results \in SUBSET Result
  PROVE  /\ [k EXCEPT !.pc = pc] \in CallType
         /\ [k EXCEPT !.pc = pc, !.order = o] \in CallType
         /\ [k EXCEPT !.pc = pc, !.then = then] \in CallType
         /\ [k EXCEPT !.pc = pc, !.seen = results] \in CallType
         /\ [k EXCEPT !.seen = results] \in CallType
         /\ [k EXCEPT !.pc = pc, !.result = x] \in CallType
         /\ [k EXCEPT !.pc = pc, !.then = then, !.result = x] \in CallType
         /\ [k EXCEPT !.pc = pc, !.then = then, !.seen = results] \in CallType
         /\ [k EXCEPT !.pc = pc, !.order = o, !.then = then] \in CallType
         /\ [k EXCEPT !.pc = pc, !.then = then, !.order = o, !.seen = results] \in CallType
         /\ [k EXCEPT !.pc = pc, !.then = then, !.seen = results, !.result = x] \in CallType
BY DEF CallType

LEMMA Moved ==
  ASSUME NEW k \in CallType, NEW pc \in Statements
  PROVE  /\ [k EXCEPT !.pc = pc] \in CallType
         /\ [k EXCEPT !.pc = pc].pc = pc
         /\ [k EXCEPT !.pc = pc].run = k.run
         /\ [k EXCEPT !.pc = pc].order = k.order
         /\ [k EXCEPT !.pc = pc].seen = k.seen
         /\ [k EXCEPT !.pc = pc].then = k.then
BY DEF CallType

LEMMA AfterStageType ==
  ASSUME NEW k \in CallType, NEW o \in Nat, NEW bad
  PROVE  AfterStage(k, o, bad) \in CallType
<1>1. o + 1 \in Nat
  OBVIOUS
<1> DEFINE n == o + 1
<1>2. n \in Nat
  BY <1>1
<1> HIDE DEF n
<1>3. /\ [k EXCEPT !.pc = "skip", !.order = n, !.then = "finalize"] \in CallType
      /\ [k EXCEPT !.pc = "start", !.order = n] \in CallType
      /\ [k EXCEPT !.pc = "finalize"] \in CallType
  BY <1>2, ResultTypes DEF CallType, Statements, Continuations
<1> QED
  BY <1>3 DEF AfterStage, n

LEMMA AfterRecordType ==
  ASSUME NEW k \in CallType
  PROVE  AfterRecord(k) \in CallType
<1> DEFINE n == k.order + 1
<1>1. k.order \in Nat /\ n \in Nat
  BY DEF CallType
<1> HIDE DEF n
<1>2. [k EXCEPT !.pc = "skip", !.order = n] \in CallType
  BY <1>1 DEF CallType, Statements
<1> QED
  BY <1>1, <1>2, AfterStageType DEF AfterRecord, n

LEMMA SetRunType ==
  ASSUME Typed, NEW r \in Runs, NEW row \in RowType, SetRun(r, row)
  PROVE  run' \in [Runs -> RowType]
BY Types DEF SetRun

LEMMA SetStatusType ==
  ASSUME Typed, NEW f \in 1 .. Len(featureRuns), NEW s \in FeatureStatuses
  PROVE  /\ [featureRuns EXCEPT ![f].status = s] \in Seq(FeatureRunType)
         /\ featureRuns' = [featureRuns EXCEPT ![f].status = s] => SameFeatureRuns
<1>1. featureRuns \in Seq(FeatureRunType)
  BY Types
<1>2. featureRuns[f] \in FeatureRunType
  BY <1>1
<1>3. [featureRuns[f] EXCEPT !.status = s] \in FeatureRunType
  BY <1>2 DEF FeatureRunType
<1>4. [featureRuns EXCEPT ![f] = [featureRuns[f] EXCEPT !.status = s]] \in Seq(FeatureRunType)
  BY <1>1, <1>3
<1>5. [featureRuns EXCEPT ![f].status = s] = [featureRuns EXCEPT ![f] = [featureRuns[f] EXCEPT !.status = s]]
  OBVIOUS
<1>6. ASSUME featureRuns' = [featureRuns EXCEPT ![f] = [featureRuns[f] EXCEPT !.status = s]]
      PROVE  SameFeatureRuns
  BY <1>1, <1>2, <1>6 DEF SameFeatureRuns, FeatureRunType
<1> QED
  BY <1>4, <1>5, <1>6

LEMMA NewFeatureRunType ==
  ASSUME Typed, NEW k \in CallType, k.run \in Runs, k.order \in Orders, NewFeatureRun(k)
  PROVE  featureRuns' \in Seq(FeatureRunType)
<1>1. [run |-> k.run, order |-> k.order, status |-> "RUNNING"] \in FeatureRunType
  BY DEF FeatureRunType, FeatureStatuses
<1> QED
  BY <1>1, Types DEF NewFeatureRun

-----------------------------------------------------------------------------
(* Steps that change no row.                                               *)

\* The stage call c would start is its own.
Alone(c, k) ==
  Heading(k) => \A d \in Calls \ {c} :
                  Heading(call[d]) /\ call[d].run = k.run => Heads(call[d]) # Heads(k)

LEMMA Separate ==
  ASSUME IInv, NEW c \in Calls, NEW k \in CallType, CallOK(k), Alone(c, k),
         k.pc # "idle" => run[k.run].status # "new"
  PROVE  \A d \in Calls \ {c} : Apart(k, call[d]) /\ Apart(call[d], k)
<1> SUFFICES ASSUME NEW d \in Calls \ {c},
                    k.pc # "idle", call[d].pc # "idle", call[d].run = k.run
             PROVE  /\ k.pc # "create" /\ call[d].pc # "create"
                    /\ Heading(k) /\ Heading(call[d]) => Heads(k) # Heads(call[d])
  BY DEF Apart
<1>1. k.pc # "create" /\ call[d].pc # "create"
  BY DEF CallOK, IInv
<1> QED
  BY <1>1 DEF Alone

LEMMA CallGoes ==
  ASSUME IInv, SameFeatureRuns, featureRuns' \in Seq(FeatureRunType), run' = run,
         lock' \in Calls \cup {0}, NEW c \in Calls, NEW k \in CallType,
         call' = [call EXCEPT ![c] = k], CallOK(k), Alone(c, k),
         k.pc # "idle" => run[k.run].status # "new"
  PROVE  IInv'
<1>0. Typed
  BY DEF IInv
<1>1. /\ call' \in [Calls -> CallType] /\ call'[c] = k
      /\ \A d \in Calls \ {c} : call'[d] = call[d]
  BY <1>0, CallStays
<1>2. Typed'
  BY <1>0, <1>1, Types DEF Typed, CallType, FeatureRunType
<1>3. \A d \in Calls \ {c} : Apart(call'[c], call[d]) /\ Apart(call[d], call'[c])
  BY <1>1, Separate
<1>4. k.pc # "idle" => RowOK(k.run) /\ Grows(k.run)
  BY DEF IInv, CallOK, Grows
<1>5. CallOK(k)'
  BY <1>0, <1>4, CallKept
<1>6. CallOK(call[c])'
  BY <1>1, <1>5
<1> QED
  BY <1>1, <1>2, <1>3, <1>6, CallMoves

LEMMA CallEnds ==
  ASSUME IInv, SameFeatureRuns, featureRuns' \in Seq(FeatureRunType), run' = run,
         lock' \in Calls \cup {0}, NEW c \in Calls, call' = [call EXCEPT ![c] = Idle]
  PROVE  IInv'
<1>1. CallOK(Idle) /\ Alone(c, Idle) /\ Idle.pc = "idle"
  BY DEF CallOK, Alone, Heading, Starting, Idle
<1> QED
  BY <1>1, IdleType, CallGoes

\* Nothing but feature-run statuses and the lock changes.
LEMMA NobodyMoves ==
  ASSUME IInv, SameFeatureRuns, featureRuns' \in Seq(FeatureRunType), run' = run,
         lock' \in Calls \cup {0}, call' = call
  PROVE  IInv'
<1>1. Typed /\ Typed'
  BY Types DEF IInv, Typed, FeatureRunType
<1>2. \A r \in Runs : RowOK(r)'
  BY <1>1, RowKept DEF IInv
<1>3. ASSUME NEW d \in Calls PROVE CallOK(call[d])'
  <2>1. call[d] \in CallType /\ CallOK(call[d])
    BY DEF IInv, Typed, CallType
  <2>2. call[d].pc # "idle" => RowOK(call[d].run) /\ Grows(call[d].run)
    BY <2>1 DEF IInv, CallOK, Grows
  <2> QED
    BY <1>1, <2>1, <2>2, CallKept
<1> QED
  BY <1>1, <1>2, <1>3 DEF IInv

LEMMA Local ==
  ASSUME IInv, NEW c \in Calls
  PROVE  /\ Typed /\ call[c] \in CallType /\ CallOK(call[c]) /\ Alone(c, call[c])
         /\ call[c].pc # "idle" => /\ call[c].run \in Runs /\ RowOK(call[c].run)
                                   /\ run[call[c].run] \in RowType
<1>1. Typed /\ call[c] \in CallType /\ CallOK(call[c])
  BY Types DEF IInv
<1>2. Alone(c, call[c])
  BY DEF IInv, Alone, Apart, Heading, Starting
<1>3. call[c].pc # "idle" => call[c].run \in Runs
  BY <1>1 DEF CallOK
<1> QED
  BY <1>1, <1>2, <1>3, Types DEF IInv

LEMMA Goes ==
  ASSUME IInv, UNCHANGED <<run, featureRuns>>, NEW c \in Calls, NEW k \in CallType,
         Go(c, k), CallOK(k), Alone(c, k), k.pc # "idle" => run[k.run].status # "new"
  PROVE  IInv'
<1>1. featureRuns' \in Seq(FeatureRunType) /\ lock' \in Calls \cup {0} /\ SameFeatureRuns
  BY Types DEF IInv, Go, SameFeatureRuns
<1> QED
  BY <1>1, CallGoes DEF Go

LEMMA Ends ==
  ASSUME IInv, UNCHANGED <<run, featureRuns>>, NEW c \in Calls, End(c)
  PROVE  IInv'
<1>1. featureRuns' \in Seq(FeatureRunType) /\ lock' \in Calls \cup {0} /\ SameFeatureRuns
  BY Types DEF IInv, End, SameFeatureRuns
<1> QED
  BY <1>1, CallEnds DEF End

LEMMA StartStep ==
  ASSUME IInv, NEW c \in Calls, Start(c)
  PROVE  IInv'
<1> DEFINE k == call[c]
           pc == IF k.order <= Last THEN "launch" ELSE "finalize"
           j == [k EXCEPT !.pc = pc]
<1>1. CASE End(c)
  BY <1>1, Ends DEF Start
<1>2. CASE run[k.run].status = "RUNNING" /\ Go(c, j)
  <2>1. k \in CallType /\ CallOK(k) /\ Alone(c, k) /\ k.pc = "start"
    BY Local DEF Start, At
  <2>2. j \in CallType /\ j.pc = pc /\ j.run = k.run /\ j.order = k.order /\ j.seen = k.seen
    <3>1. pc \in Statements
      BY DEF Statements
    <3> HIDE DEF pc
    <3> QED BY <2>1, <3>1, Moved
  <2>3. CallOK(j)
    BY <2>1, <2>2, <1>2 DEF CallOK, Heading, Heads, Starting
  <2>4. Alone(c, j)
    BY <2>1, <2>2 DEF Alone, Heading, Heads, Starting
  <2> QED
    BY <1>2, <2>2, <2>3, <2>4, Goes DEF Start
<1> QED
  BY <1>1, <1>2 DEF Start

\* Calls that have read and go on to claim, to finalize or to stop head for
\* no stage, and need to know little.
Careless == {"claim", "claimFailed", "finalize", "stopClaim", "skip"}

LEMMA GoesCarelessly ==
  ASSUME IInv, UNCHANGED <<run, featureRuns>>, NEW c \in Calls, NEW k \in CallType,
         Go(c, k), k.pc \in Careless, k.run \in Runs, KnownIn(k.seen),
         k.result.featureRun <= Len(featureRuns) \/ k.pc # "claim",
         run[k.run].status # "new"
  PROVE  IInv'
<1>1. CallOK(k) /\ Alone(c, k)
  BY DEF Careless, CallOK, Alone, Heading, Starting
<1> QED
  BY <1>1, Goes

LEMMA ReadForSignalStep ==
  ASSUME IInv, UNCHANGED <<run, featureRuns>>, NEW c \in Calls, NEW k \in CallType,
         NEW f \in 1 .. Len(featureRuns), Signals(f), KnownIn(k.seen),
         Go(c, ReadForSignal(k, f))
  PROVE  IInv'
<1> DEFINE j == ReadForSignal(k, f)
           row == run[featureRuns[f].run]
           x == [order |-> row.current, status |-> featureRuns[f].status, featureRun |-> f]
<1>1. /\ featureRuns[f] \in FeatureRunType /\ featureRuns[f].run \in Runs
      /\ featureRuns[f].status \in {"PASSED", "FAILED", "CANCELLED"}
      /\ row \in RowType /\ row.current \in Nat /\ f \in Nat
  <2>1. Typed /\ Len(featureRuns) \in Nat /\ featureRuns[f] \in FeatureRunType
        /\ featureRuns[f].run \in Runs
    BY FeatureRunTypes DEF IInv
  <2>2. row \in RowType
    BY <2>1, Types
  <2> QED
    BY <2>1, <2>2 DEF FeatureRunType, FeatureStatuses, Signals, Terminal, RowType
<1>2. x \in Result
  BY <1>1, ResultTypes
<1>3. /\ j \in CallType /\ j.pc = "claim" /\ j.run = featureRuns[f].run
      /\ j.seen = k.seen /\ j.result = x /\ x.featureRun = f
  BY <1>1, <1>2 DEF ReadForSignal, CallType, Statements
<1> QED
  BY <1>1, <1>3, GoesCarelessly DEF Careless, Signals

LEMMA SignalStep ==
  ASSUME IInv, NEW c \in Calls, NEW f \in 1 .. Len(featureRuns), Signal(c, f)
  PROVE  IInv'
<1>1. KnownIn(Idle.seen)
  BY DEF KnownIn, Idle
<1> QED
  BY <1>1, IdleType, ReadForSignalStep DEF Signal

\* What follows a recorded result starts at most the stage the call was
\* heading for.
LEMMA AfterRecordOK ==
  ASSUME Typed, NEW c \in Calls, NEW k \in CallType, k.run \in Runs, CallOK(k), Alone(c, k),
         k.pc \in {"record", "recordWrite"}, NEW j, j = AfterRecord(k)
  PROVE  /\ j \in CallType /\ CallOK(j) /\ Alone(c, j) /\ j.run = k.run
         /\ j.pc \in {"skip", "start", "finalize"}
<1> DEFINE n == k.order + 1
<1>1. n \in Nat /\ k.order \in Nat
  BY DEF CallType
<1>2. CASE k.then = "advance" /\ ~(TRUE /\ Halts(k.run, k.order)) /\ k.order < Last
  <2>1. j = [k EXCEPT !.pc = "start", !.order = n]
    BY <1>2 DEF AfterRecord, AfterStage
  <2>2. /\ j \in CallType /\ j.pc = "start" /\ j.order = k.order + 1 /\ j.run = k.run
        /\ j.seen = k.seen
    <3>1. n = k.order + 1
      OBVIOUS
    <3> HIDE DEF n
    <3> QED BY <1>1, <2>1, <3>1 DEF CallType, Statements
  <2>3. CallOK(j) /\ Alone(c, j)
    BY <1>2, <2>2 DEF CallOK, Alone, Heading, Heads, Starting
  <2> QED
    BY <2>2, <2>3
<1>3. CASE ~(k.then = "advance" /\ ~(TRUE /\ Halts(k.run, k.order)) /\ k.order < Last)
  <2>1. j \in CallType
    BY AfterRecordType
  <2>2. j.pc \in {"skip", "finalize"} /\ j.run = k.run /\ j.seen = k.seen
    BY <1>3, <1>1 DEF AfterRecord, AfterStage, CallType
  <2>3. CallOK(j) /\ Alone(c, j)
    BY <2>2 DEF CallOK, Alone, Heading, Starting
  <2> QED
    BY <2>1, <2>2, <2>3
<1> QED
  BY <1>2, <1>3

LEMMA AfterRecordGoes ==
  ASSUME IInv, NEW c \in Calls, NEW k \in CallType, k.run \in Runs, CallOK(k), Alone(c, k),
         k.pc \in {"record", "recordWrite"}, run[k.run].status # "new",
         UNCHANGED <<run, featureRuns>>, Go(c, AfterRecord(k))
  PROVE  IInv'
BY AfterRecordOK, Goes DEF IInv

LEMMA TriggerStep ==
  ASSUME IInv, NEW c \in Calls, NEW r \in Runs, Trigger(c, r)
  PROVE  IInv'
<1> DEFINE k == [Idle EXCEPT !.pc = "create", !.run = r]
<1>1. k \in CallType /\ k.pc = "create" /\ k.run = r /\ k.seen = {} /\ k.order = 0
  BY IdleType DEF CallType, Statements, Idle
<1>2. call' = [call EXCEPT ![c] = k] /\ lock' = lock /\ run[r].status = "new"
  BY DEF Trigger, Go
<1>3. CallOK(k)
  BY <1>1, <1>2 DEF CallOK, KnownIn, Heading, Starting
<1> HIDE DEF k
<1>4. Typed /\ SameFeatureRuns /\ UNCHANGED <<run, featureRuns>>
  BY DEF IInv, Trigger, SameFeatureRuns
<1>5. /\ call' \in [Calls -> CallType] /\ call'[c] = k
      /\ \A d \in Calls \ {c} : call'[d] = call[d]
  BY <1>1, <1>2, <1>4, CallStays
<1>6. Typed'
  BY <1>2, <1>4, <1>5, Types DEF Typed, CallType, FeatureRunType
<1>7. \A d \in Calls \ {c} : Apart(call'[c], call[d]) /\ Apart(call[d], call'[c])
  BY <1>1, <1>5 DEF Apart, Trigger
<1>8. RowOK(r) /\ Grows(r)
  BY <1>4 DEF IInv, Grows
<1>9. CallOK(call[c])'
  <2>1. CallOK(k)'
    BY <1>1, <1>3, <1>4, <1>8, CallKept
  <2> QED
    BY <2>1, <1>5
<1> QED
  BY <1>4, <1>5, <1>6, <1>7, <1>9, CallMoves

LEMMA RecordReadStep ==
  ASSUME IInv, NEW c \in Calls, RecordRead(c)
  PROVE  IInv'
<1> DEFINE k == call[c]
           results == run[k.run].results
           w == [k EXCEPT !.pc = "recordWrite", !.seen = results]
<1>1. /\ k \in CallType /\ CallOK(k) /\ Alone(c, k) /\ k.pc = "record"
      /\ k.run \in Runs /\ RowOK(k.run) /\ results \in SUBSET Result
      /\ run[k.run].status # "new"
  BY Local DEF RecordRead, At, CallOK, RowType
<1>2. UNCHANGED <<run, featureRuns>>
  BY DEF RecordRead
<1>3. CASE ~Landed(results, k.order)
  <2>1. Go(c, w)
    BY <1>3 DEF RecordRead
  <2>2. /\ w \in CallType /\ w.pc = "recordWrite" /\ w.run = k.run /\ w.order = k.order
        /\ w.seen = results /\ w.then = k.then /\ w.result = k.result
    BY <1>1 DEF CallType, Statements
  <2>3. CallOK(w) /\ Alone(c, w)
    BY <1>1, <2>2 DEF CallOK, Alone, RowOK, Heading, Heads, Starting
  <2> QED
    BY <1>1, <1>2, <2>1, <2>2, <2>3, Goes
<1>4. CASE Landed(results, k.order)
  <2>1. Go(c, AfterRecord(k))
    BY <1>4 DEF RecordRead
  <2> QED
    BY <1>1, <1>2, <2>1, AfterRecordGoes
<1> QED
  BY <1>3, <1>4

\* The latest feature run of a run exists as soon as there is one.
LEMMA LatestIsLatest ==
  ASSUME IInv, NEW r \in Runs
  PROVE  /\ Latest(r) # 0 => IsLatest(r, Latest(r))
         /\ \A h : IsLatest(r, h) => Latest(r) = h /\ h # 0
<1>1. Typed /\ (Started(r) # {} => \E f \in Started(r) : IsLatest(r, f))
      /\ Len(featureRuns) \in Nat
  BY FeatureRunTypes DEF IInv, RowOK
<1>2. Started(r) # {} => IsLatest(r, Latest(r))
  BY <1>1 DEF Latest, IsLatest
<1>3. Started(r) = {} => Latest(r) = 0
  BY DEF Latest
<1>4. ASSUME NEW h, IsLatest(r, h)
      PROVE  Latest(r) = h /\ h # 0
  <2>1. h \in Started(r) /\ IsLatest(r, Latest(r))
    BY <1>2, <1>4 DEF IsLatest
  <2>2. h <= Latest(r) /\ Latest(r) <= h /\ h \in 1 .. Len(featureRuns)
        /\ Latest(r) \in 1 .. Len(featureRuns)
    BY <1>4, <2>1 DEF IsLatest, Started
  <2> QED
    BY <1>1, <2>2
<1> QED
  BY <1>2, <1>3, <1>4

LEMMA SkipReadStep ==
  ASSUME IInv, NEW c \in Calls, SkipRead(c)
  PROVE  IInv'
<1> DEFINE k == call[c]
           results == run[k.run].results
           w == [k EXCEPT !.pc = "skipWrite", !.seen = results]
<1>1. /\ k \in CallType /\ CallOK(k) /\ k.pc = "skip" /\ k.run \in Runs /\ RowOK(k.run)
      /\ results \in SUBSET Result /\ run[k.run].status # "new"
  BY Local DEF SkipRead, At, CallOK, RowType
<1>2. w \in CallType /\ w.pc = "skipWrite" /\ w.run = k.run /\ w.seen = results
  BY <1>1 DEF CallType, Statements
<1>3. CallOK(w) /\ Alone(c, w)
  BY <1>1, <1>2 DEF CallOK, Alone, RowOK, Heading, Starting
<1> QED
  BY <1>1, <1>2, <1>3, Goes DEF SkipRead

LEMMA FinalizeStep ==
  ASSUME IInv, NEW c \in Calls, Finalize(c)
  PROVE  IInv'
<1> DEFINE k == call[c]
           then == Verdict(run[k.run].results)
           j == [k EXCEPT !.pc = "finish", !.then = then]
<1>1. k \in CallType /\ CallOK(k) /\ k.pc = "finalize" /\ k.run \in Runs
  BY Local DEF Finalize, At
<1>2. then \in {"COMPLETE", "FAILED"}
  BY DEF Verdict
<1>3. CASE End(c)
  BY <1>3, Ends DEF Finalize
<1>4. CASE run[k.run].status = "RUNNING" /\ Go(c, j)
  <2>1. j \in CallType /\ j.pc = "finish" /\ j.run = k.run /\ j.seen = k.seen /\ j.then = then
    <3> HIDE DEF then
    <3> QED BY <1>1, <1>2 DEF CallType, Statements, Continuations
  <2>2. CallOK(j) /\ Alone(c, j)
    BY <1>1, <1>2, <2>1 DEF CallOK, Alone, Heading, Starting
  <2> QED
    BY <1>1, <1>4, <2>1, <2>2, Goes DEF Finalize
<1> QED
  BY <1>3, <1>4 DEF Finalize

LEMMA StopReadStep ==
  ASSUME IInv, NEW c \in Calls, NEW r \in Runs, StopRead(c, r)
  PROVE  IInv'
<1> DEFINE k == [Idle EXCEPT !.pc = "stopClaim", !.run = r, !.order = run[r].current,
                             !.seen = run[r].results]
<1>1. Typed /\ run[r] \in RowType /\ RowOK(r)
  BY Types DEF IInv
<1>2. k \in CallType /\ k.pc = "stopClaim" /\ k.run = r /\ k.seen = run[r].results
  BY <1>1, IdleType DEF CallType, RowType, Statements
<1> QED
  BY <1>1, <1>2, GoesCarelessly DEF StopRead, Careless, RowOK

LEMMA StopFindStep ==
  ASSUME IInv, NEW c \in Calls, StopFind(c)
  PROVE  IInv'
<1> DEFINE k == call[c]
           x(f) == [order |-> k.order, status |-> "CANCELLED", featureRun |-> f]
           j(f) == [k EXCEPT !.pc = "stopFeature", !.result = x(f)]
<1>1. k \in CallType /\ CallOK(k) /\ k.pc = "stopFind" /\ k.run \in Runs /\ k.order \in Nat
  BY Local DEF StopFind, At, CallType
<1>2. PICK f \in Nat : Go(c, j(f)) /\ f <= Len(featureRuns)
  <2>1. 0 <= Len(featureRuns) /\ \A f \in Unfinished(k.run) : f \in Nat /\ f <= Len(featureRuns)
    BY FeatureRunTypes DEF Unfinished, Started, IInv
  <2> QED
    BY <2>1 DEF StopFind
<1>3. x(f) \in Result /\ x(f).featureRun = f
  BY <1>1, ResultTypes
<1>4. /\ j(f) \in CallType /\ j(f).pc = "stopFeature" /\ j(f).run = k.run
      /\ j(f).seen = k.seen /\ j(f).result = x(f)
  BY <1>1, <1>3 DEF CallType, Statements
<1>5. CallOK(j(f)) /\ Alone(c, j(f)) /\ run[k.run].status # "new"
  BY <1>1, <1>2, <1>3, <1>4 DEF CallOK, Alone, Heading, Starting
<1> QED
  BY <1>2, <1>4, <1>5, Goes DEF StopFind

LEMMA StopFeatureStep ==
  ASSUME IInv, NEW c \in Calls, StopFeature(c)
  PROVE  IInv'
<1> DEFINE k == call[c]
           n == k.order + 1
           i == [k EXCEPT !.pc = "record", !.then = "end", !.seen = {}]
           s == [k EXCEPT !.pc = "skip", !.then = "end", !.order = n, !.seen = {}]
<1>1. /\ k \in CallType /\ CallOK(k) /\ k.pc = "stopFeature" /\ k.run \in Runs
      /\ k.order \in Nat /\ n \in Nat /\ Typed
  BY Local DEF StopFeature, At, CallType
<1>2. featureRuns' \in Seq(FeatureRunType) /\ SameFeatureRuns
  <2>1. CASE k.result.featureRun \in Unfinished(k.run)
    <3>1. k.result.featureRun \in 1 .. Len(featureRuns) /\ "CANCELLED" \in FeatureStatuses
      BY <2>1 DEF Unfinished, Started, FeatureStatuses
    <3> QED
      BY <1>1, <2>1, <3>1, SetStatusType DEF StopFeature
  <2>2. CASE k.result.featureRun \notin Unfinished(k.run)
    BY <1>1, <2>2, Types DEF StopFeature, SameFeatureRuns
  <2> QED
    BY <2>1, <2>2
<1>3. run[k.run].status \notin {"new", "RUNNING"}
  BY <1>1 DEF CallOK
<1>4. lock' \in Calls \cup {0} /\ run' = run
  BY <1>1, Types DEF StopFeature, Go
<1>5. CASE call' = [call EXCEPT ![c] = i]
  <2>1. /\ i \in CallType /\ i.pc = "record" /\ i.run = k.run /\ i.seen = {} /\ i.then = "end"
    BY <1>1 DEF CallType, Statements, Continuations
  <2>2. CallOK(i) /\ Alone(c, i)
    BY <1>1, <1>3, <2>1 DEF CallOK, Alone, Heading, Starting, KnownIn
  <2> QED
    BY <1>2, <1>3, <1>4, <1>5, <2>1, <2>2, CallGoes
<1>6. CASE call' = [call EXCEPT ![c] = s]
  <2>1. s \in CallType /\ s.pc = "skip" /\ s.run = k.run /\ s.seen = {}
    <3> HIDE DEF n
    <3> QED BY <1>1 DEF CallType, Statements, Continuations
  <2>2. CallOK(s) /\ Alone(c, s)
    BY <1>1, <1>3, <2>1 DEF CallOK, Alone, Heading, Starting, KnownIn
  <2> QED
    BY <1>2, <1>3, <1>4, <1>6, <2>1, <2>2, CallGoes
<1> QED
  BY <1>5, <1>6 DEF StopFeature, Go

LEMMA TickReadStep ==
  ASSUME IInv, NEW c \in Calls, NEW r \in Runs, TickRead(c, r)
  PROVE  IInv'
<1> DEFINE k == [Idle EXCEPT !.pc = "tick", !.run = r, !.order = run[r].current,
                             !.seen = run[r].results]
           t == [k EXCEPT !.token = TRUE]
<1>1. Typed /\ run[r] \in RowType /\ RowOK(r) /\ run[r].status = "RUNNING"
  BY Types DEF IInv, TickRead
<1>2. /\ k \in CallType /\ k.pc = "tick" /\ k.run = r /\ k.seen = run[r].results
      /\ k.order = run[r].current
  BY <1>1, IdleType DEF CallType, RowType, Statements
<1>3. /\ t \in CallType /\ t.pc = "tick" /\ t.run = r /\ t.seen = run[r].results
      /\ t.order = run[r].current
  BY <1>2 DEF CallType
<1>4. ASSUME NEW j \in CallType, j.pc = "tick", j.run = r, j.seen = run[r].results,
             j.order = run[r].current
      PROVE  CallOK(j) /\ Alone(c, j)
  <2>1. j.order <= run[r].current
    BY <1>1, <1>4 DEF RowType
  <2>2. ASSUME \A h \in Started(r) : IsLatest(r, h) => Recorded(j.seen, h),
               NEW f \in Started(r), featureRuns[f].order = j.order
        PROVE  FALSE
    BY <1>1, <1>4, <2>2 DEF RowOK, Unfiled, AtStage
  <2> QED
    BY <1>1, <1>4, <2>1, <2>2 DEF CallOK, Alone, Heading, Starting, RowOK
<1>5. SameFeatureRuns /\ featureRuns' \in Seq(FeatureRunType) /\ run' = run
      /\ lock' \in Calls \cup {0}
  BY <1>1, Types DEF TickRead, SameFeatureRuns, Go
<1>6. CASE call' = [call EXCEPT ![c] = t]
  BY <1>1, <1>3, <1>4, <1>5, <1>6, CallGoes
<1>7. CASE call' = [call EXCEPT ![c] = k]
  BY <1>1, <1>2, <1>4, <1>5, <1>7, CallGoes
<1> QED
  BY <1>6, <1>7 DEF TickRead, Go

LEMMA TickSignalStep ==
  ASSUME IInv, NEW c \in Calls, TickSignal(c)
  PROVE  IInv'
<1> DEFINE k == call[c]
           f == Latest(k.run)
           j == [k EXCEPT !.seen = {}]
<1>1. k \in CallType /\ k.run \in Runs /\ Typed
  BY Local DEF TickSignal, At
<1>2. CASE End(c)
  BY <1>2, Ends DEF TickSignal
<1>3. CASE Signals(f) /\ Go(c, ReadForSignal(j, f))
  <2>1. j \in CallType /\ KnownIn(j.seen)
    BY <1>1 DEF CallType, KnownIn
  <2>2. f \in 1 .. Len(featureRuns)
    BY <1>1, LatestIsLatest DEF TickSignal, IsLatest, Started, IInv
  <2> QED
    BY <1>3, <2>1, <2>2, ReadForSignalStep DEF TickSignal
<1> QED
  BY <1>2, <1>3 DEF TickSignal

LEMMA TickResumeStep ==
  ASSUME IInv, ResumesAlone, NEW c \in Calls, TickResume(c)
  PROVE  IInv'
<1> DEFINE k == call[c]
           j == [k EXCEPT !.seen = {}]
           s == [j EXCEPT !.pc = "skip", !.then = "finalize"]
           b == [j EXCEPT !.pc = "start"]
<1>1. /\ k \in CallType /\ CallOK(k) /\ k.pc = "tick" /\ k.run \in Runs /\ Typed
      /\ RowOK(k.run) /\ run[k.run].status # "new" /\ j \in CallType
  BY Local DEF TickResume, At, CallOK, CallType
<1>2. CASE End(c)
  BY <1>2, Ends DEF TickResume
<1>3. CASE Severed(k.run) /\ Go(c, s)
  <2>1. s \in CallType /\ s.pc = "skip" /\ s.run = k.run /\ s.seen = {}
    BY <1>1 DEF CallType, Statements, Continuations
  <2> QED
    BY <1>1, <1>3, <2>1, GoesCarelessly DEF TickResume, Careless, KnownIn
<1>4. CASE Severed(k.run) /\ Go(c, b)
  <2>1. b \in CallType /\ b.pc = "start" /\ b.run = k.run /\ b.seen = {} /\ b.order = k.order
    BY <1>1 DEF CallType, Statements
  <2>2. \A d \in Calls : call[d].run = k.run => ~Driver(call[d])
    BY <1>1, <1>4 DEF ResumesAlone, Severed
  <2>3. Alone(c, b)
    BY <2>1, <2>2 DEF Alone, Heading, Starting, Driver
  <2>4. \A h \in Started(k.run) : IsLatest(k.run, h) => Recorded(k.seen, h)
    BY <1>1, LatestIsLatest DEF TickResume, StageWithoutRun, CurrentRecorded, IInv
  <2>5. CallOK(b)
    BY <1>1, <2>1, <2>4 DEF CallOK, Heading, Heads, Starting, KnownIn
  <2> QED
    BY <1>1, <1>4, <2>1, <2>3, <2>5, Goes DEF TickResume
<1> QED
  BY <1>2, <1>3, <1>4 DEF TickResume

LEMMA CrashStep ==
  ASSUME IInv, NEW c \in Calls, Crash(c)
  PROVE  IInv'
<1>1. featureRuns' \in Seq(FeatureRunType) /\ lock' \in Calls \cup {0} /\ SameFeatureRuns
  BY Types DEF IInv, Crash, SameFeatureRuns
<1> QED
  BY <1>1, CallEnds DEF Crash

LEMMA ExpireStep ==
  ASSUME IInv, Expire
  PROVE  IInv'
<1>1. featureRuns' \in Seq(FeatureRunType) /\ lock' \in Calls \cup {0} /\ SameFeatureRuns
  BY Types DEF IInv, Expire, SameFeatureRuns
<1> QED
  BY <1>1, NobodyMoves DEF Expire

LEMMA FeatureRunEndsStep ==
  ASSUME IInv, NEW f \in 1 .. Len(featureRuns), Complete(f) \/ CancelFeatureRun(f)
  PROVE  IInv'
<1>1. PICK s \in FeatureStatuses : featureRuns' = [featureRuns EXCEPT ![f].status = s]
  BY DEF Complete, CancelFeatureRun, FeatureStatuses
<1>2. featureRuns' \in Seq(FeatureRunType) /\ SameFeatureRuns
  BY <1>1, SetStatusType DEF IInv
<1>3. run' = run /\ call' = call /\ lock' \in Calls \cup {0}
  BY Types DEF IInv, Complete, CancelFeatureRun
<1> QED
  BY <1>2, <1>3, NobodyMoves

-----------------------------------------------------------------------------
(* Steps that write a row.                                                 *)

LEMMA CallGoesWriting ==
  ASSUME IInv, featureRuns' = featureRuns, lock' \in Calls \cup {0},
         NEW r \in Runs, NEW row \in RowType, SetRun(r, row), Grows(r), RowOK(r)',
         NEW c \in Calls, NEW k \in CallType, call' = [call EXCEPT ![c] = k], CallOK(k)',
         Alone(c, k), k.pc # "idle" => k.pc # "create" /\ k.run = r,
         run[r].status # "new"
  PROVE  IInv'
<1>0. Typed /\ SameFeatureRuns
  BY DEF IInv, SameFeatureRuns
<1>1. /\ call' \in [Calls -> CallType] /\ call'[c] = k
      /\ \A d \in Calls \ {c} : call'[d] = call[d]
  BY <1>0, CallStays
<1>2. Typed' /\ \A q \in Runs \ {r} : run'[q] = run[q]
  <2>1. run' \in [Runs -> RowType] /\ \A q \in Runs \ {r} : run'[q] = run[q]
    BY <1>0, Types DEF SetRun
  <2>2. featureRuns' \in Seq(FeatureRunType)
    BY <1>0, Types
  <2> QED
    BY <1>1, <2>1, <2>2 DEF Typed, RowType, CallType, FeatureRunType
<1>3. ASSUME NEW d \in Calls \ {c}
      PROVE  Apart(k, call[d]) /\ Apart(call[d], k)
  <2> SUFFICES ASSUME k.pc # "idle", call[d].pc # "idle", call[d].run = k.run
               PROVE  /\ k.pc # "create" /\ call[d].pc # "create"
                      /\ Heading(k) /\ Heading(call[d]) => Heads(k) # Heads(call[d])
    BY DEF Apart
  <2>1. call[d].pc # "create"
    BY DEF IInv, CallOK
  <2> QED
    BY <2>1 DEF Alone
<1>4. CallOK(call[c])'
  BY <1>1
<1> QED
  BY <1>0, <1>1, <1>2, <1>3, <1>4, CallWrites

\* The rows of a step that leaves the stage and the feature runs alone.
LEMMA RowWritten ==
  ASSUME IInv, featureRuns' = featureRuns, NEW r \in Runs, NEW row \in RowType,
         SetRun(r, row), row.current = run[r].current, run[r].status # "new",
         row.status = run[r].status \/ row.status \notin {"new", "RUNNING"},
         KnownIn(row.results), run[r].status = "RUNNING" => Unfiled(r, row.results)
  PROVE  RowOK(r)' /\ Grows(r) /\ run'[r] = row
<1>1. run'[r] = row /\ Grows(r)
  BY Types DEF IInv, SetRun, Grows
<1>2. Started(r)' = Started(r) /\ \A f : IsLatest(r, f)' <=> IsLatest(r, f)
  BY DEF Started, IsLatest
<1>3. AtStage(r)' => AtStage(r) /\ run[r].status = "RUNNING"
  BY <1>1, <1>2 DEF AtStage
<1> QED
  BY <1>1, <1>2, <1>3 DEF IInv, RowOK, Unfiled, KnownIn, Recorded

LEMMA FinishStep ==
  ASSUME IInv, NEW c \in Calls, Finish(c)
  PROVE  IInv'
<1>0. PICK k \in CallType : k = call[c]
  BY Local
<1> DEFINE s == IF run[k.run].status = "RUNNING" THEN k.then ELSE run[k.run].status
           row == [run[k.run] EXCEPT !.status = s]
<1>1. /\ k \in CallType /\ k.run \in Runs /\ RowOK(k.run) /\ run[k.run] \in RowType
      /\ run[k.run].status # "new" /\ k.then \in {"COMPLETE", "FAILED"}
      /\ run \in [Runs -> RowType]
  BY <1>0, Local, Types DEF Finish, At, CallOK
<1>2. s \in RunStatuses /\ (s = run[k.run].status \/ s \notin {"new", "RUNNING"})
  BY <1>1 DEF RowType, RunStatuses
<1>3. SetRun(k.run, row)
  BY <1>0 DEF Finish, SetRun
<1> HIDE DEF s
<1>4. /\ row \in RowType /\ row.current = run[k.run].current
      /\ row.results = run[k.run].results /\ row.status = s
  BY <1>1, <1>2 DEF RowType
<1> HIDE DEF row
<1>5. RowOK(k.run)' /\ Grows(k.run)
  <2>1. featureRuns' = featureRuns /\ KnownIn(row.results)
    BY <1>1, <1>4 DEF Finish, RowOK
  <2>2. Unfiled(k.run, row.results)
    BY <1>1, <1>4 DEF RowOK
  <2> QED
    BY <1>1, <1>2, <1>3, <1>4, <2>1, <2>2, RowWritten
<1>6. PICK j \in CallType : j = Idle
  BY IdleType
<1>6a. CallOK(j)' /\ Alone(c, j) /\ j.pc = "idle"
  BY <1>6 DEF CallOK, Alone, Heading, Starting, Idle
<1>7. /\ lock' \in Calls \cup {0} /\ call' = [call EXCEPT ![c] = j]
      /\ featureRuns' = featureRuns
  BY <1>6, Types DEF IInv, Finish, End
<1> QED
  BY <1>1, <1>3, <1>4, <1>5, <1>6a, <1>7, CallGoesWriting

\* A run that is RUNNING is cancelled, and the call goes on with j.
LEMMA CancelRun ==
  ASSUME IInv, featureRuns' = featureRuns, NEW c \in Calls, call[c].pc # "idle",
         run[call[c].run].status = "RUNNING",
         SetRun(call[c].run, [run[call[c].run] EXCEPT !.status = "CANCELLED"]),
         NEW j \in CallType, Go(c, j), j.run = call[c].run, KnownIn(j.seen),
         \/ j.pc = "stopFind"
         \/ j.pc = "record" /\ j.then = "end" /\ j.result.featureRun = 0
  PROVE  IInv'
<1>0. PICK r \in Runs : r = call[c].run
  BY Local
<1> DEFINE row == [run[r] EXCEPT !.status = "CANCELLED"]
<1>1. RowOK(r) /\ run[r] \in RowType
  BY <1>0, Local
<1>2. /\ row \in RowType /\ row.current = run[r].current /\ row.results = run[r].results
      /\ row.status = "CANCELLED"
  BY <1>1 DEF RowType, RunStatuses
<1>2a. SetRun(r, row) /\ run[r].status # "new"
  BY <1>0
<1> HIDE DEF row
<1>3. RowOK(r)' /\ Grows(r) /\ run'[r] = row
  <2>1. KnownIn(row.results) /\ Unfiled(r, row.results)
    BY <1>1, <1>2 DEF RowOK
  <2> QED
    BY <1>1, <1>2, <1>2a, <2>1, RowWritten
<1>4. CallOK(j)' /\ Alone(c, j)
  <2>1. 0 <= Len(featureRuns')
    BY FeatureRunTypes DEF IInv
  <2> QED
    BY <1>0, <1>1, <1>2, <1>3, <2>1 DEF CallOK, Alone, Heading, Starting, KnownIn
<1>5. lock' \in Calls \cup {0} /\ call' = [call EXCEPT ![c] = j]
  BY Types DEF IInv, Go
<1> QED
  BY <1>0, <1>1, <1>2, <1>2a, <1>3, <1>4, <1>5, CallGoesWriting

LEMMA StopClaimStep ==
  ASSUME IInv, NEW c \in Calls, StopClaim(c)
  PROVE  IInv'
<1> DEFINE k == call[c]
           j == [k EXCEPT !.pc = "stopFind"]
<1>1. k \in CallType /\ CallOK(k) /\ k.pc = "stopClaim"
  BY Local DEF StopClaim, At
<1>2. j \in CallType /\ j.pc = "stopFind" /\ j.run = k.run /\ j.seen = k.seen
  BY <1>1, Moved DEF Statements
<1>3. KnownIn(j.seen)
  BY <1>1, <1>2 DEF CallOK
<1> QED
  BY <1>1, <1>2, <1>3, CancelRun, Ends DEF StopClaim

LEMMA TickWaitStep ==
  ASSUME IInv, NEW c \in Calls, TickWait(c)
  PROVE  IInv'
<1> DEFINE k == call[c]
           x == [order |-> k.order, status |-> "CANCELLED", featureRun |-> 0]
           j == [k EXCEPT !.pc = "record", !.then = "end", !.seen = {}, !.result = x]
<1>1. k \in CallType /\ CallOK(k) /\ k.pc = "tick" /\ k.order \in Nat
  BY Local DEF TickWait, At, CallType
<1>2. x \in Result
  BY <1>1, ResultTypes
<1>3. /\ j \in CallType /\ j.pc = "record" /\ j.run = k.run /\ j.seen = {} /\ j.then = "end"
      /\ j.result.featureRun = 0
  <2>1. x.featureRun = 0
    OBVIOUS
  <2> HIDE DEF x
  <2> QED BY <1>1, <1>2, <2>1 DEF CallType, Statements, Continuations
<1>4. KnownIn(j.seen)
  BY <1>3 DEF KnownIn
<1> QED
  BY <1>1, <1>3, <1>4, CancelRun, Ends DEF TickWait

LEMMA SkipWriteStep ==
  ASSUME IInv, NEW c \in Calls, SkipWrite(c)
  PROVE  IInv'
<1>0. PICK k \in CallType : k = call[c]
  BY Local
<1> DEFINE results == SkipFrom(k.seen, k.order)
           row == [run[k.run] EXCEPT !.results = results]
           j == [k EXCEPT !.pc = "finalize", !.seen = {}]
<1>1. /\ k \in CallType /\ CallOK(k) /\ k.pc = "skipWrite" /\ k.run \in Runs
      /\ run[k.run] \in RowType /\ run[k.run].status # "new" /\ k.seen \in SUBSET Result
  BY <1>0, Local DEF SkipWrite, At, CallOK, CallType
<1>2. /\ results \in SUBSET Result /\ KnownIn(results)
      /\ \A f \in Nat \ {0} : Recorded(results, f) => Recorded(k.seen, f)
  <2>1. \A s \in Orders : Skipped(s) \in Result /\ Skipped(s).featureRun = 0
    BY DEF Skipped, Orders, Result
  <2>2. \A x \in results : x \in k.seen \/ \E s \in Orders : x = Skipped(s)
    BY DEF SkipFrom
  <2>3. KnownIn(k.seen) /\ 0 <= Len(featureRuns)
    BY <1>1, FeatureRunTypes DEF CallOK, IInv
  <2> QED
    BY <1>1, <2>1, <2>2, <2>3 DEF KnownIn, Recorded
<1> HIDE DEF results
<1>3. /\ row \in RowType /\ row.current = run[k.run].current /\ row.results = results
      /\ row.status = run[k.run].status
  BY <1>1, <1>2 DEF RowType
<1>4. Unfiled(k.run, results)
  <2>1. \A h \in Started(k.run) : h \in Nat \ {0}
    BY FeatureRunTypes DEF Started, IInv
  <2> QED
    BY <1>1, <1>2, <2>1 DEF CallOK, Unfiled
<1>5. SetRun(k.run, row) /\ featureRuns' = featureRuns
  BY <1>0 DEF SkipWrite, results
<1> HIDE DEF row
<1>6. RowOK(k.run)' /\ Grows(k.run) /\ run'[k.run] = row
  BY <1>1, <1>2, <1>3, <1>4, <1>5, RowWritten
<1>7. CASE call' = [call EXCEPT ![c] = j]
  <2>0. call' = [call EXCEPT ![c] = j]
    BY <1>7
  <2>1. j \in CallType /\ j.pc = "finalize" /\ j.run = k.run /\ j.seen = {}
    BY <1>1 DEF CallType, Statements
  <2> HIDE DEF j
  <2>2. CallOK(j)' /\ Alone(c, j)
    BY <1>1, <1>3, <1>6, <2>1 DEF CallOK, Alone, Heading, Starting, KnownIn
  <2>3. lock' \in Calls \cup {0}
    BY Types DEF IInv, SkipWrite, Go, End
  <2> QED
    BY <1>1, <1>3, <1>5, <1>6, <2>0, <2>1, <2>2, <2>3, CallGoesWriting
<1>8. CASE call' = [call EXCEPT ![c] = Idle]
  <2>0. PICK i \in CallType : i = Idle
    BY IdleType
  <2>1. CallOK(i)' /\ Alone(c, i) /\ i.pc = "idle"
    BY <2>0 DEF CallOK, Alone, Heading, Starting, Idle
  <2>2. lock' \in Calls \cup {0} /\ call' = [call EXCEPT ![c] = i]
    BY <1>8, <2>0, Types DEF IInv, SkipWrite, Go, End
  <2> QED
    BY <1>1, <1>3, <1>5, <1>6, <2>1, <2>2, CallGoesWriting
<1> QED
  BY <1>0, <1>7, <1>8 DEF SkipWrite, Go, End

LEMMA RecordWriteStep ==
  ASSUME IInv, NEW c \in Calls, RecordWrite(c)
  PROVE  IInv'
<1>0. PICK k \in CallType : k = call[c]
  BY Local
<1> DEFINE results == k.seen \cup {k.result}
           row == [run[k.run] EXCEPT !.results = results]
           w == [k EXCEPT !.seen = {}]
<1>1. /\ CallOK(k) /\ Alone(c, k) /\ k.pc = "recordWrite" /\ k.run \in Runs
      /\ run[k.run] \in RowType /\ run[k.run].status # "new"
      /\ k.seen \in SUBSET Result /\ k.result \in Result /\ RowOK(k.run)
  BY <1>0, Local DEF RecordWrite, At, CallOK, CallType
<1>2. /\ results \in SUBSET Result
      /\ KnownIn(k.seen) /\ k.result.featureRun <= Len(featureRuns)
      /\ run[k.run].status = "RUNNING" => k.result.featureRun = 0
  BY <1>1, FeatureRunTypes DEF CallOK, IInv
<1>3. KnownIn(results)
  BY <1>2 DEF KnownIn
<1>4. run[k.run].status = "RUNNING" => Unfiled(k.run, results)
  <2>1. \A h \in Started(k.run) : h \in Nat \ {0}
    BY FeatureRunTypes DEF Started, IInv
  <2> QED
    BY <1>1, <1>2, <2>1 DEF CallOK, Unfiled, Recorded
<1> HIDE DEF results
<1>5. /\ row \in RowType /\ row.current = run[k.run].current /\ row.results = results
      /\ row.status = run[k.run].status
  BY <1>1, <1>2 DEF RowType
<1>6. SetRun(k.run, row) /\ featureRuns' = featureRuns /\ Go(c, AfterRecord(w))
  BY <1>0 DEF RecordWrite, results
<1> HIDE DEF row
<1>7. RowOK(k.run)' /\ Grows(k.run) /\ run'[k.run] = row
  BY <1>1, <1>3, <1>4, <1>5, <1>6, RowWritten
<1>8. /\ w \in CallType /\ w.pc = "recordWrite" /\ w.run = k.run /\ w.order = k.order
      /\ w.then = k.then /\ w.result = k.result /\ w.seen = {}
  BY <1>1 DEF CallType
<1> HIDE DEF w
<1>9. CallOK(w) /\ Alone(c, w)
  BY <1>1, <1>8 DEF CallOK, Alone, Heading, Heads, Starting, KnownIn, Unfiled, Recorded
<1>10. PICK j \in CallType : j = AfterRecord(w)
  BY <1>8, AfterRecordType
<1>11. CallOK(j) /\ Alone(c, j) /\ j.run = k.run /\ j.pc \in {"skip", "start", "finalize"}
  BY <1>1, <1>8, <1>9, <1>10, AfterRecordOK DEF IInv
<1>12. CallOK(j)'
  BY <1>1, <1>6, <1>7, <1>11, CallKept DEF IInv, SameFeatureRuns
<1>13. lock' \in Calls \cup {0} /\ call' = [call EXCEPT ![c] = j]
  BY <1>6, <1>10, Types DEF IInv, Go
<1> QED
  BY <1>1, <1>5, <1>6, <1>7, <1>11, <1>12, <1>13, CallGoesWriting

LEMMA CreateStep ==
  ASSUME IInv, NEW c \in Calls, Create(c)
  PROVE  IInv'
<1>0. PICK k \in CallType : k = call[c]
  BY Local
<1>1. CallOK(k) /\ k.pc = "create" /\ k.run \in Runs /\ RowOK(k.run) /\ run[k.run] \in RowType
      /\ run[k.run].status = "new" /\ Typed
  BY <1>0, Local DEF Create, At, CallOK
<1>2. PICK p \in Policies :
        SetRun(k.run, [run[k.run] EXCEPT !.status = "RUNNING", !.policy = p])
  BY <1>0 DEF Create
<1> DEFINE row == [run[k.run] EXCEPT !.status = "RUNNING", !.policy = p]
           j == [k EXCEPT !.pc = "start"]
<1>3. p \in [Orders -> {"HALT", "CONTINUE"}]
  BY StagesAssumption DEF Orders
<1>4. /\ row \in RowType /\ row.status = "RUNNING" /\ row.current = run[k.run].current
      /\ row.results = run[k.run].results
  BY <1>1, <1>3 DEF RowType, RunStatuses
<1>5. /\ j \in CallType /\ j.pc = "start" /\ j.run = k.run /\ j.order = k.order
      /\ j.seen = k.seen
  BY Moved DEF Statements
<1>6. SetRun(k.run, row) /\ call' = [call EXCEPT ![c] = j] /\ lock' = lock
      /\ featureRuns' = featureRuns
  BY <1>0, <1>2 DEF Create, Go
<1> HIDE DEF row, j
<1>7. /\ run' \in [Runs -> RowType] /\ run'[k.run] = row
      /\ \A q \in Runs \ {k.run} : run'[q] = run[q]
  BY <1>1, <1>4, <1>6, Types DEF SetRun
<1>8. /\ call' \in [Calls -> CallType] /\ call'[c] = j
      /\ \A d \in Calls \ {c} : call'[d] = call[d]
  BY <1>1, <1>5, <1>6, CallStays
<1>9. Typed' /\ SameFeatureRuns
  BY <1>1, <1>6, <1>7, <1>8, Types DEF Typed, RowType, CallType, FeatureRunType, SameFeatureRuns
<1>10. Started(k.run)' = {} /\ Started(k.run) = {} /\ run[k.run].current = 0
  BY <1>1, <1>6 DEF RowOK, Started
<1>11. RowOK(k.run)'
  BY <1>1, <1>4, <1>6, <1>7, <1>10 DEF RowOK, KnownIn, Unfiled
<1>12. \A d \in Calls \ {c} : call[d].pc # "idle" => call[d].run # k.run
  BY <1>0, <1>1 DEF IInv, Apart
<1>13. CallOK(j)'
  <2>1. j.order = 0
    BY <1>1, <1>5 DEF CallOK
  <2> QED
    BY <1>1, <1>4, <1>5, <1>6, <1>7, <1>10, <2>1 DEF CallOK, Heading, Heads, Starting, KnownIn
<1>14. CallOK(call[c])'
  BY <1>8, <1>13
<1>15. \A d \in Calls \ {c} : Apart(call'[c], call[d]) /\ Apart(call[d], call'[c])
  BY <1>1, <1>5, <1>8, <1>12 DEF Apart
<1> QED
  BY <1>1, <1>7, <1>8, <1>9, <1>11, <1>12, <1>14, <1>15, CallWrites

\* The stage a call claims is the current one; the run goes on to the next.
LEMMA StageClaimed ==
  ASSUME IInv, featureRuns' = featureRuns, NEW r \in Runs, NEW row \in RowType,
         SetRun(r, row), row.current = run[r].current + 1, row.status = "RUNNING",
         run[r].status = "RUNNING", KnownIn(row.results)
  PROVE  /\ RowOK(r)' /\ Grows(r) /\ run'[r] = row
         /\ \A f \in Started(r) : featureRuns[f].order < row.current
         /\ \A d \in Calls : Heading(call[d]) /\ call[d].run = r => Heads(call[d]) < row.current
<1>0. Typed /\ run[r] \in RowType /\ run[r].current \in Nat /\ RowOK(r)
  BY Types DEF IInv, RowType
<1>1. run'[r] = row /\ Grows(r)
  BY <1>0, Types DEF SetRun, Grows
<1>2. Started(r)' = Started(r) /\ \A f : IsLatest(r, f)' <=> IsLatest(r, f)
  BY DEF Started, IsLatest
<1>3. \A f \in Started(r) : featureRuns[f].order \in Nat
                            /\ featureRuns[f].order <= run[r].current
  BY <1>0, FeatureRunTypes DEF RowOK, Started
<1>4. ~AtStage(r)'
  BY <1>0, <1>1, <1>2, <1>3 DEF AtStage
<1>5. RowOK(r)'
  BY <1>0, <1>1, <1>2, <1>3, <1>4 DEF RowOK, Unfiled, KnownIn
<1>6. ASSUME NEW d \in Calls, Heading(call[d]), call[d].run = r
      PROVE  Heads(call[d]) < row.current
  <2>1. call[d] \in CallType /\ call[d].pc # "idle" /\ CallOK(call[d])
    BY <1>6, Local DEF Heading, Starting
  <2>2. Heads(call[d]) \in Nat
    BY <2>1 DEF Heads, CallType
  <2> QED
    BY <1>0, <1>6, <2>1, <2>2 DEF CallOK
<1> QED
  BY <1>0, <1>1, <1>3, <1>5, <1>6

LEMMA ClaimFailedStep ==
  ASSUME IInv, NEW c \in Calls, ClaimFailed(c)
  PROVE  IInv'
<1>0. PICK k \in CallType : k = call[c]
  BY Local
<1>1. CASE End(c) /\ UNCHANGED run
  BY <1>1, Ends DEF ClaimFailed
<1> DEFINE n == k.order + 1
           row == [run[k.run] EXCEPT !.current = n]
           x == [order |-> k.order, status |-> "FAILED", featureRun |-> 0]
           j == [k EXCEPT !.pc = "record", !.then = "advance", !.result = x]
<1>2. CASE Claims(k.run, k.order) /\ SetRun(k.run, row) /\ Go(c, j)
  <2>1. /\ CallOK(k) /\ k.pc = "claimFailed" /\ k.run \in Runs /\ run[k.run] \in RowType
        /\ k.order \in Nat /\ n \in Nat /\ RowOK(k.run) /\ Typed
    BY <1>0, Local DEF ClaimFailed, At, CallType
  <2>2. /\ featureRuns' = featureRuns /\ SetRun(k.run, row) /\ lock' \in Calls \cup {0}
        /\ call' = [call EXCEPT ![c] = j]
        /\ run[k.run].status = "RUNNING" /\ run[k.run].current = k.order
    BY <1>2, <2>1, Types DEF ClaimFailed, Go, Claims
  <2>3. n = k.order + 1
    OBVIOUS
  <2> HIDE DEF n
  <2>4. /\ row \in RowType /\ row.current = n /\ row.status = "RUNNING"
        /\ row.results = run[k.run].results
    BY <2>1, <2>2 DEF RowType
  <2>5. x \in Result /\ x.featureRun = 0
    BY <2>1, ResultTypes
  <2> HIDE DEF row, x
  <2>6. /\ j \in CallType /\ j.pc = "record" /\ j.then = "advance" /\ j.run = k.run
        /\ j.order = k.order /\ j.seen = k.seen /\ j.result = x
    BY <2>5 DEF CallType, Statements, Continuations
  <2> HIDE DEF j
  <2>7. KnownIn(row.results)
    BY <2>1, <2>4 DEF RowOK
  <2>8. /\ RowOK(k.run)' /\ Grows(k.run) /\ run'[k.run] = row
        /\ \A f \in Started(k.run) : featureRuns[f].order < n
        /\ \A d \in Calls : Heading(call[d]) /\ call[d].run = k.run => Heads(call[d]) < n
    BY <2>1, <2>2, <2>3, <2>4, <2>7, StageClaimed
  <2>9. Heading(j) /\ Heads(j) = n
    BY <2>3, <2>6 DEF Heading, Heads, Starting
  <2>10. Alone(c, j)
    BY <2>1, <2>3, <2>6, <2>8, <2>9 DEF Alone
  <2>11. \A f \in Started(k.run)' : featureRuns'[f].order # n
    BY <2>1, <2>2, <2>3, <2>8 DEF Started
  <2>12. CallOK(j)'
    <3>1. 0 <= Len(featureRuns')
      BY <2>1, <2>2, FeatureRunTypes
    <3>2. Heads(j) <= run'[k.run].current
      BY <2>1, <2>3, <2>4, <2>8, <2>9
    <3>3. KnownIn(j.seen)'
      BY <2>1, <2>2, <2>6 DEF CallOK, KnownIn
    <3> QED
      BY <2>1, <2>4, <2>5, <2>6, <2>8, <2>9, <2>11, <3>1, <3>2, <3>3 DEF CallOK
  <2> QED
    BY <2>1, <2>2, <2>4, <2>6, <2>8, <2>10, <2>12, CallGoesWriting
<1> QED
  BY <1>0, <1>1, <1>2 DEF ClaimFailed

LEMMA ClaimStep ==
  ASSUME IInv, NEW c \in Calls, Claim(c)
  PROVE  IInv'
<1>0. PICK k \in CallType : k = call[c]
  BY Local
<1>1. CASE End(c) /\ UNCHANGED run
  BY <1>1, Ends DEF Claim
<1> DEFINE n == k.order + 1
           results == IF Landed(run[k.run].results, k.order) THEN run[k.run].results
                      ELSE run[k.run].results \cup {k.result}
           row == [run[k.run] EXCEPT !.current = n, !.results = results]
           j == AfterStage(k, k.order, Bad(k.result))
<1>2. CASE Claims(k.run, k.order) /\ SetRun(k.run, row) /\ Go(c, j)
  <2>1. /\ CallOK(k) /\ k.pc = "claim" /\ k.run \in Runs /\ run[k.run] \in RowType
        /\ k.order \in Nat /\ n \in Nat /\ RowOK(k.run) /\ Typed /\ k.result \in Result
    BY <1>0, Local DEF Claim, At, CallType
  <2>2. /\ featureRuns' = featureRuns /\ SetRun(k.run, row) /\ lock' \in Calls \cup {0}
        /\ call' = [call EXCEPT ![c] = j]
        /\ run[k.run].status = "RUNNING" /\ run[k.run].current = k.order
    BY <1>2, <2>1, Types DEF Claim, Go, Claims
  <2>3. n = k.order + 1
    OBVIOUS
  <2>4. results \in SUBSET Result /\ KnownIn(results)
    <3>1. k.result.featureRun <= Len(featureRuns)
      BY <2>1 DEF CallOK
    <3> QED
      BY <2>1, <3>1 DEF RowOK, KnownIn, RowType
  <2> HIDE DEF results
  <2> HIDE DEF n
  <2>5. /\ row \in RowType /\ row.current = n /\ row.status = "RUNNING"
        /\ row.results = results
    BY <2>1, <2>2, <2>4 DEF RowType
  <2> HIDE DEF row
  <2>5a. PICK i \in CallType : i = j
    BY <2>1, AfterStageType
  <2>6. /\ call' = [call EXCEPT ![c] = i]
        /\ i.pc \in {"skip", "start", "finalize"} /\ i.run = k.run /\ i.seen = k.seen
        /\ i.pc = "start" => i.order = n
    <3>1. i = j /\ call' = [call EXCEPT ![c] = j]
      BY <2>2, <2>5a
    <3>2. \/ j = [k EXCEPT !.pc = "skip", !.order = n, !.then = "finalize"]
          \/ j = [k EXCEPT !.pc = "start", !.order = n]
          \/ j = [k EXCEPT !.pc = "finalize"]
      BY <2>3 DEF AfterStage
    <3> HIDE DEF j
    <3> QED
      BY <3>1, <3>2 DEF CallType
  <2>7. /\ RowOK(k.run)' /\ Grows(k.run) /\ run'[k.run] = row
        /\ \A f \in Started(k.run) : featureRuns[f].order < n
        /\ \A d \in Calls : Heading(call[d]) /\ call[d].run = k.run => Heads(call[d]) < n
    BY <2>1, <2>2, <2>3, <2>4, <2>5, StageClaimed
  <2>8. Heading(i) => Heads(i) = n
    BY <2>6 DEF Heading, Heads, Starting
  <2>9. Alone(c, i)
    BY <2>1, <2>3, <2>6, <2>7, <2>8 DEF Alone
  <2>10. \A f \in Started(k.run)' : featureRuns'[f].order # n
    BY <2>1, <2>2, <2>3, <2>7 DEF Started
  <2>11. CallOK(i)'
    <3>1. Heading(i) => Heads(i) <= run'[k.run].current
      BY <2>1, <2>3, <2>5, <2>7, <2>8
    <3>2. KnownIn(i.seen)'
      BY <2>1, <2>2, <2>6 DEF CallOK, KnownIn
    <3> QED
      BY <2>1, <2>5, <2>6, <2>7, <2>8, <2>10, <3>1, <3>2 DEF CallOK
  <2> QED
    BY <2>1, <2>2, <2>5, <2>6, <2>7, <2>9, <2>11, CallGoesWriting
<1> QED
  BY <1>0, <1>1, <1>2 DEF Claim

-----------------------------------------------------------------------------
(* A feature run is started.                                               *)

LEMMA StartedGrows ==
  ASSUME Typed, NEW k \in CallType, k.run \in Runs, k.order \in Orders, NewFeatureRun(k)
  PROVE  /\ Len(featureRuns) \in Nat /\ Len(featureRuns') = Len(featureRuns) + 1
         /\ featureRuns' \in Seq(FeatureRunType)
         /\ \A f \in 1 .. Len(featureRuns) : featureRuns'[f] = featureRuns[f]
         /\ featureRuns'[Len(featureRuns) + 1].order = k.order
         /\ \A r \in Runs \ {k.run} : Started(r)' = Started(r)
         /\ Started(k.run)' = Started(k.run) \cup {Len(featureRuns) + 1}
         /\ \A r \in Runs : \A f \in Started(r) : f \in 1 .. Len(featureRuns)
<1>1. featureRuns \in Seq(FeatureRunType) /\ Len(featureRuns) \in Nat
  BY Types
<1> DEFINE new == [run |-> k.run, order |-> k.order, status |-> "RUNNING"]
<1>2. new.run = k.run /\ new.order = k.order /\ featureRuns' = Append(featureRuns, new)
      /\ new \in FeatureRunType
  BY DEF NewFeatureRun, FeatureRunType, FeatureStatuses
<1> HIDE DEF new
<1>3. /\ Len(featureRuns') = Len(featureRuns) + 1 /\ featureRuns' \in Seq(FeatureRunType)
      /\ featureRuns'[Len(featureRuns) + 1] = new
      /\ \A f \in 1 .. Len(featureRuns) : featureRuns'[f] = featureRuns[f]
  BY <1>1, <1>2
<1>4. \A f : f \in 1 .. Len(featureRuns') <=> (f \in 1 .. Len(featureRuns) \/ f = Len(featureRuns) + 1)
  BY <1>1, <1>3
<1>5. \A r \in Runs \ {k.run} : Started(r)' = Started(r)
  BY <1>2, <1>3, <1>4 DEF Started
<1>6. Started(k.run)' = Started(k.run) \cup {Len(featureRuns) + 1}
  BY <1>2, <1>3, <1>4 DEF Started
<1> QED
  BY <1>1, <1>2, <1>3, <1>5, <1>6 DEF Started

\* Call c starts the stage it was heading for, and goes on with k.
LEMMA FeatureRunStarted ==
  ASSUME IInv, run' = run, NEW c \in Calls, call[c].pc = "launch", NewFeatureRun(call[c]),
         lock' \in Calls \cup {0}, NEW j \in CallType, call' = [call EXCEPT ![c] = j],
         \/ j.pc = "idle"
         \/ j.pc = "claimFailed" /\ j.run = call[c].run /\ j.seen = call[c].seen
  PROVE  IInv'
<1>0. PICK k \in CallType : k = call[c]
  BY Local
<1> DEFINE n == Len(featureRuns) + 1
<1>1. /\ Typed /\ CallOK(k) /\ Alone(c, k) /\ k.pc = "launch" /\ k.run \in Runs
      /\ k.order \in Orders /\ NewFeatureRun(k) /\ Heading(k) /\ Heads(k) = k.order
      /\ run[k.run].status # "new"
  <2>1. Typed /\ CallOK(k) /\ Alone(c, k) /\ k.pc = "launch" /\ k.run \in Runs
        /\ k.order \in Nat /\ k.order <= Last
    BY <1>0, Local DEF CallOK, CallType
  <2> QED
    BY <1>0, <2>1, StagesAssumption DEF Orders, Heading, Heads, Starting, CallOK
<1>2. /\ Len(featureRuns) \in Nat /\ Len(featureRuns') = n
      /\ featureRuns' \in Seq(FeatureRunType)
      /\ \A f \in 1 .. Len(featureRuns) : featureRuns'[f] = featureRuns[f]
      /\ featureRuns'[n].order = k.order
      /\ \A r \in Runs \ {k.run} : Started(r)' = Started(r)
      /\ Started(k.run)' = Started(k.run) \cup {n}
      /\ \A r \in Runs : \A f \in Started(r) : f \in 1 .. Len(featureRuns)
  BY <1>1, StartedGrows
<1>3. /\ call' \in [Calls -> CallType] /\ call'[c] = j
      /\ \A d \in Calls \ {c} : call'[d] = call[d]
  BY <1>1, CallStays
<1>4. Typed'
  BY <1>1, <1>2, <1>3, Types DEF Typed, CallType, FeatureRunType
<1> HIDE DEF n
<1>5. n \in Nat /\ n > Len(featureRuns) /\ n # 0
  BY <1>2 DEF n
<1>6. /\ \A h : IsLatest(k.run, h)' <=> h = n
      /\ \A r \in Runs \ {k.run} : \A h : IsLatest(r, h)' <=> IsLatest(r, h)
  <2>1. \A f \in Started(k.run) : f \in Nat /\ f < n
    BY <1>1, <1>2, <1>5
  <2> QED
    BY <1>1, <1>2, <1>5, <2>1 DEF IsLatest
<1>7. \A r \in Runs : \A f \in Started(r) : featureRuns'[f].order = featureRuns[f].order
  BY <1>2
<1>9. \A results \in SUBSET Result : KnownIn(results) =>
        KnownIn(results)' /\ ~Recorded(results, n)
  <2> SUFFICES ASSUME NEW results \in SUBSET Result, KnownIn(results)
               PROVE  KnownIn(results)' /\ ~Recorded(results, n)
    OBVIOUS
  <2>1. \A x \in results : x.featureRun \in Nat /\ x.featureRun <= Len(featureRuns)
    BY DEF KnownIn, Result
  <2>2. \A x \in results : x.featureRun <= Len(featureRuns') /\ x.featureRun # n
    BY <1>2, <1>5, <2>1
  <2> QED
    BY <2>2 DEF KnownIn, Recorded
<1>10. ASSUME NEW r \in Runs
       PROVE  RowOK(r)'
  <2>1. RowOK(r) /\ run[r].results \in SUBSET Result
    BY <1>1, Types DEF IInv, RowType
  <2>2. CASE r # k.run
    <3>1. AtStage(r)' <=> AtStage(r)
      BY <1>2, <1>7, <2>2 DEF AtStage
    <3> QED
      BY <1>2, <1>6, <1>7, <1>9, <2>1, <2>2, <3>1 DEF RowOK, Unfiled, KnownIn, Recorded
  <2>3. CASE r = k.run
    <3>1. \A f \in Started(r) : featureRuns[f].order # k.order
      BY <1>1, <2>3 DEF CallOK
    <3>2. k.order <= run[r].current
      BY <1>1, <2>3 DEF CallOK
    <3>3. \A f, g \in Started(r)' : featureRuns'[f].order = featureRuns'[g].order => f = g
      BY <1>2, <1>7, <2>1, <2>3, <3>1 DEF RowOK
    <3>4. \A f \in Started(r)' : featureRuns'[f].order <= run'[r].current
      BY <1>2, <1>7, <2>1, <2>3, <3>2 DEF RowOK
    <3>5. Unfiled(r, run[r].results)' /\ KnownIn(run[r].results)'
      BY <1>6, <1>9, <2>1, <2>3 DEF RowOK, Unfiled, KnownIn, Recorded
    <3>6. \E f \in Started(r)' : IsLatest(r, f)'
      BY <1>2, <1>6, <2>3
    <3> QED
      BY <1>1, <2>3, <3>3, <3>4, <3>5, <3>6 DEF RowOK
  <2> QED
    BY <2>2, <2>3
<1>11. ASSUME NEW d \in Calls \ {c}, NEW i, i = call[d]
       PROVE  CallOK(i)'
  <2>1. CallOK(i) /\ i \in CallType
    BY <1>11, Local
  <2> SUFFICES ASSUME i.pc # "idle" PROVE CallOK(i)'
    BY DEF CallOK
  <2>2. i.run \in Runs /\ i.seen \in SUBSET Result /\ KnownIn(i.seen) /\ i.order \in Nat
        /\ i.result.featureRun \in Nat
    BY <2>1 DEF CallOK, CallType, Result
  <2>3. KnownIn(i.seen)' /\ ~Recorded(i.seen, n)
    BY <1>9, <2>2
  <2>4. i.result.featureRun <= Len(featureRuns) => i.result.featureRun <= Len(featureRuns')
    BY <1>2, <1>5, <2>2
  <2>5. CASE i.run # k.run
    <3>1. AtStage(i.run)' <=> AtStage(i.run)
      BY <1>2, <1>7, <2>2, <2>5 DEF AtStage
    <3> QED
      BY <1>2, <1>6, <1>7, <2>1, <2>2, <2>3, <2>4, <2>5, <3>1 DEF CallOK, Unfiled, Recorded
  <2>6. CASE i.run = k.run
    <3>1. Heading(i) => \A f \in Started(i.run)' : featureRuns'[f].order # Heads(i)
      BY <1>1, <1>2, <1>7, <1>11, <2>1, <2>2, <2>6 DEF Alone, CallOK
    <3>2. Unfiled(i.run, i.seen)'
      BY <1>6, <2>3, <2>6 DEF Unfiled, Recorded
    <3>3. ~(\A h \in Started(i.run)' : IsLatest(i.run, h)' => Recorded(i.seen, h))
      BY <1>2, <1>6, <2>3, <2>6
    <3> QED
      BY <2>1, <2>2, <2>3, <2>4, <2>6, <3>1, <3>2, <3>3 DEF CallOK, Recorded
  <2> QED
    BY <2>5, <2>6
<1>12. CallOK(j)'
  <2>1. k.seen \in SUBSET Result /\ KnownIn(k.seen)
    BY <1>1 DEF CallOK, CallType
  <2> QED
    BY <1>0, <1>1, <1>9, <2>1 DEF CallOK, Heading, Starting
<1>13. ASSUME NEW d \in Calls PROVE CallOK(call[d])'
  BY <1>3, <1>11, <1>12
<1>14. \A d \in Calls \ {c} : Apart(call'[c], call[d]) /\ Apart(call[d], call'[c])
  <2>1. ASSUME NEW d \in Calls \ {c}, call[d].pc # "idle", call[d].run = k.run
        PROVE  call[d].pc # "create"
    BY <1>1, <2>1, Local DEF CallOK
  <2> QED
    BY <1>0, <1>3, <2>1 DEF Apart, Heading, Starting
<1> QED
  BY <1>3, <1>4, <1>10, <1>13, <1>14, ApartKept DEF IInv

LEMMA LaunchStep ==
  ASSUME IInv, NEW c \in Calls, Launch(c)
  PROVE  IInv'
<1>1. PICK j \in CallType : j = Idle
  BY IdleType
<1>2. /\ j.pc = "idle" /\ call' = [call EXCEPT ![c] = j] /\ lock' \in Calls \cup {0}
      /\ NewFeatureRun(call[c]) /\ call[c].pc = "launch" /\ run' = run
  BY <1>1, Types DEF IInv, Launch, End, At, Idle
<1> QED
  BY <1>2, FeatureRunStarted

LEMMA RefuseStep ==
  ASSUME IInv, NEW c \in Calls, Refuse(c)
  PROVE  IInv'
<1> DEFINE k == call[c]
           j == [k EXCEPT !.pc = "claimFailed"]
<1>1. k \in CallType /\ CallOK(k) /\ k.pc = "launch" /\ k.run \in Runs
  BY Local DEF Refuse, At
<1>2. j \in CallType /\ j.pc = "claimFailed" /\ j.run = k.run /\ j.seen = k.seen
  BY <1>1, Moved DEF Statements
<1>3. Go(c, j) /\ run' = run /\ call' = [call EXCEPT ![c] = j] /\ lock' \in Calls \cup {0}
  BY Types DEF IInv, Refuse, Go
<1> HIDE DEF j
<1>4. CASE UNCHANGED featureRuns
  BY <1>1, <1>2, <1>3, <1>4, GoesCarelessly DEF Careless, CallOK
<1>5. CASE NewFeatureRun(k)
  BY <1>1, <1>2, <1>3, <1>5, FeatureRunStarted
<1> QED
  BY <1>4, <1>5 DEF Refuse

-----------------------------------------------------------------------------
LEMMA InitOK ==
  ASSUME Init
  PROVE  IInv
<1>1. featureRuns = <<>> /\ Len(featureRuns) = 0 /\ \A r : Started(r) = {}
  BY DEF Init, Started
<1>2. Typed
  <2>1. run \in [Runs -> RowType]
    BY DEF Init, RowType, RunStatuses
  <2>2. featureRuns \in Seq(FeatureRunType) /\ call \in [Calls -> CallType] /\ lock = 0
    BY <1>1, IdleType DEF Init
  <2> QED
    BY <2>1, <2>2, Types
<1>3. \A r \in Runs : RowOK(r)
  BY <1>1 DEF Init, RowOK, KnownIn, Unfiled
<1>4. \A c \in Calls : CallOK(call[c]) /\ call[c].pc = "idle"
  BY DEF Init, CallOK, Idle
<1> QED
  BY <1>2, <1>3, <1>4 DEF IInv, Apart

LEMMA NextOK ==
  ASSUME IInv, ResumesAlone, [Next]_vars
  PROVE  IInv'
<1>1. CASE UNCHANGED vars
  BY <1>1, Types, NobodyMoves DEF vars, IInv, SameFeatureRuns
<1>2. ASSUME NEW c \in Calls, CallStep(c) \/ Refuse(c) \/ Crash(c)
      PROVE  IInv'
  BY <1>2, CreateStep, StartStep, LaunchStep, ClaimFailedStep, ClaimStep, RecordReadStep,
     RecordWriteStep, SkipReadStep, SkipWriteStep, FinalizeStep, FinishStep, StopClaimStep,
     StopFindStep, StopFeatureStep, TickSignalStep, TickResumeStep, TickWaitStep, RefuseStep,
     CrashStep DEF CallStep
<1>3. ASSUME NEW c \in Calls, NEW r \in Runs, Trigger(c, r) \/ StopRead(c, r) \/ TickRead(c, r)
      PROVE  IInv'
  BY <1>3, TriggerStep, StopReadStep, TickReadStep
<1>4. ASSUME NEW f \in 1 .. Len(featureRuns),
             Complete(f) \/ CancelFeatureRun(f) \/ \E c \in Calls : Signal(c, f)
      PROVE  IInv'
  BY <1>4, FeatureRunEndsStep, SignalStep
<1>5. ASSUME NEW r \in Runs, Lapse(r) PROVE IInv'
  BY <1>5, Types, NobodyMoves DEF Lapse, IInv, SameFeatureRuns
<1> QED
  BY <1>1, <1>2, <1>3, <1>4, <1>5, ExpireStep DEF Next

LEMMA IInvMeansStageOnce ==
  ASSUME IInv
  PROVE  StageOnce
<1>1. \A f \in 1 .. Len(featureRuns) : featureRuns[f].run \in Runs
                                      /\ f \in Started(featureRuns[f].run)
  BY FeatureRunTypes DEF IInv, Started
<1> QED
  BY <1>1 DEF IInv, RowOK, StageOnce

=============================================================================
