----------------------------- MODULE ManualSession ----------------------------
(***************************************************************************)
(* One tester's MANUAL FeatureRuns: any number of start requests that race *)
(* each other through the active-run guard and the reconciliation behind   *)
(* it, and the requests that end, pause, resume or finish a run.  A start  *)
(* is named like the FeatureRun it creates.  The rows of the tests and the *)
(* tester's work session are left out; no step here reads them.            *)
(***************************************************************************)
EXTENDS Naturals, FiniteSets, RunStatus

CONSTANTS
  Starts,      \* the start requests, and the FeatureRuns they create
  Concurrent,  \* those made with allowConcurrent: "End previous & start new"
  Requests,    \* the other requests that may be in progress
  Ops,         \* which requests the tester makes
  IdRank,      \* IdRank[s]: the order of the FeatureRuns' ids
  MaxClock     \* bound on the number of distinct milliseconds

ASSUME StartsAssumption ==
  /\ Concurrent \subseteq Starts
  /\ Starts \cap Requests = {}
  /\ IdRank \in [Starts -> Nat]
  /\ \A s, t \in Starts : IdRank[s] = IdRank[t] => s = t
ASSUME OpsAssumption ==
  /\ Ops \subseteq {"stop", "pause", "resume", "finish", "abandon", "endAll"}
  /\ MaxClock \in Nat

VARIABLES
  clock,      \* the wall clock, in milliseconds
  status,     \* FeatureRun.status, "absent" before the row is committed
  startedAt,  \* FeatureRun.startedAt
  pc,         \* the step each request is at
  todo,       \* the runs its read selected for ending
  target      \* the run it is about to write, as a set

vars == <<clock, status, startedAt, pc, todo, target>>

Procs == Starts \cup Requests

(* What each one-row request needs to read and what it then writes.        *)
RowOps == {"stop", "pause", "resume", "finish"}
Needed(op) ==
  CASE op = "stop"   -> ACTIVE_FEATURE_RUN
    [] op = "pause"  -> {"RUNNING"}
    [] op = "resume" -> {"PAUSED"}
    [] op = "finish" -> ACTIVE_FEATURE_RUN \cup {"COMPLETE"}
Written(op) ==
  CASE op = "stop"   -> "CANCELLED"
    [] op = "pause"  -> "PAUSED"
    [] op = "resume" -> "RUNNING"
    [] op = "finish" -> "COMPLETE"

StartSteps == {"idle", "stamp", "commit", "reconcile", "endRead", "endWrite",
               "conflict", "started", "lost"}
RequestSteps == {"idle", "endRead", "endWrite", "done"} \cup RowOps

Created == {s \in Starts : status[s] # "absent"}
Active == {s \in Starts : status[s] \in ACTIVE_FEATURE_RUN}

(* The total order of the reconciliation: startedAt, then id.              *)
(* Variants, here and below, are mistakes the code must not make; no       *)
(* action uses them.  Here: no order within a millisecond.                 *)
BeforeOrSame(s, t) == startedAt[s] <= startedAt[t]
Before(s, t) ==
  \/ startedAt[s] < startedAt[t]
  \/ startedAt[s] = startedAt[t] /\ IdRank[s] < IdRank[t]

------------------------------------------------------------------------------
Init ==
  /\ clock = 0
  /\ status = [s \in Starts |-> "absent"]
  /\ startedAt = [s \in Starts |-> 0]
  /\ pc = [p \in Procs |-> "idle"]
  /\ todo = [p \in Procs |-> {}]
  /\ target = [p \in Procs |-> {}]

Goto(p, step) == pc' = [pc EXCEPT ![p] = step]

(* Go through the runs in S ending each, and return to step afterwards.    *)
EndAll(p, S, step) ==
  /\ Goto(p, IF S = {} THEN step ELSE "endRead")
  /\ todo' = [todo EXCEPT ![p] = S]

(* The concurrency guard refuses while the tester has an active run.       *)
Guard(s) ==
  /\ pc[s] = "idle" /\ s \notin Concurrent
  /\ Goto(s, IF Active = {} THEN "stamp" ELSE "conflict")
  /\ UNCHANGED <<clock, status, startedAt, todo, target>>

(* allowConcurrent ends every active run first.                            *)
EndPrevious(s) ==
  /\ pc[s] = "idle" /\ s \in Concurrent
  /\ EndAll(s, Active, "stamp")
  /\ UNCHANGED <<clock, status, startedAt, target>>

(* The creating transaction takes startedAt from the clock when it begins  *)
(* and is visible to other requests only when it commits.                  *)
Stamp(s) ==
  /\ pc[s] = "stamp"
  /\ startedAt' = [startedAt EXCEPT ![s] = clock]
  /\ Goto(s, "commit")
  /\ UNCHANGED <<clock, status, todo, target>>

Commit(s) ==
  /\ pc[s] = "commit"
  /\ status' = [status EXCEPT ![s] = "RUNNING"]
  /\ Goto(s, IF s \in Concurrent THEN "started" ELSE "reconcile")
  /\ UNCHANGED <<clock, startedAt, todo, target>>

(* The start gives way when an earlier active run exists.                  *)
(* Variant: when any other active run exists.                              *)
LosesToAny(s) == Active \ {s} # {}
Loses(s) == \E t \in Active \ {s} : Before(t, s)

Reconcile(s) ==
  /\ pc[s] = "reconcile"
  /\ IF Loses(s)
        THEN EndAll(s, {s}, "lost")
        ELSE Goto(s, "started") /\ UNCHANGED todo
  /\ UNCHANGED <<clock, status, startedAt, target>>

(* What follows the last run a caller had to end.                          *)
(* Variant: a start returns like a request that only ends runs.            *)
AfterEndingAlways(p) == "done"
AfterEnding(p) ==
  IF p \in Requests THEN "done" ELSE IF status[p] = "absent" THEN "stamp" ELSE "lost"

(* abandon: nothing to do for a run that is already closed.                *)
EndRead(p) ==
  /\ pc[p] = "endRead"
  /\ \E x \in todo[p] :
       /\ todo' = [todo EXCEPT ![p] = @ \ {x}]
       /\ IF x \in Active
             THEN Goto(p, "endWrite") /\ target' = [target EXCEPT ![p] = {x}]
             ELSE /\ Goto(p, IF todo[p] = {x} THEN AfterEnding(p) ELSE "endRead")
                  /\ UNCHANGED target
  /\ UNCHANGED <<clock, status, startedAt>>

SetTarget(p, s) ==
  /\ status' = [x \in Starts |-> IF x \in target[p] THEN s ELSE status[x]]
  /\ target' = [target EXCEPT ![p] = {}]

EndWrite(p) ==
  /\ pc[p] = "endWrite"
  /\ SetTarget(p, "COMPLETE")
  /\ Goto(p, IF todo[p] = {} THEN AfterEnding(p) ELSE "endRead")
  /\ UNCHANGED <<clock, startedAt, todo>>

(* stop, pause, resume, and the completion after the tester marked the     *)
(* last step (onRunComplete): a read of the run, then an unconditional     *)
(* write.                                                                  *)
RowRead(p, op, x) ==
  /\ pc[p] = "idle" /\ op \in Ops \cap RowOps
  /\ x \in Created /\ status[x] \in Needed(op)
  /\ Goto(p, op)
  /\ target' = [target EXCEPT ![p] = {x}]
  /\ UNCHANGED <<clock, status, startedAt, todo>>

RowWrite(p) ==
  /\ pc[p] \in RowOps
  /\ SetTarget(p, Written(pc[p]))
  /\ Goto(p, "done")
  /\ UNCHANGED <<clock, startedAt, todo>>

(* abandon of one run, and ending all of them (logout, end-all).           *)
RequestEnd(p) ==
  /\ pc[p] = "idle"
  /\ \/ "abandon" \in Ops /\ \E x \in Created : EndAll(p, {x}, "done")
     \/ "endAll" \in Ops /\ EndAll(p, Active, "done")
  /\ UNCHANGED <<clock, status, startedAt, target>>

Tick ==
  /\ clock < MaxClock
  /\ clock' = clock + 1
  /\ UNCHANGED <<status, startedAt, pc, todo, target>>

StartStep(s) == Guard(s) \/ EndPrevious(s) \/ Stamp(s) \/ Commit(s) \/ Reconcile(s)

RequestStep(p) ==
  \/ \E op \in RowOps, x \in Starts : RowRead(p, op, x)
  \/ RowWrite(p) \/ RequestEnd(p)

Next ==
  \/ \E s \in Starts : StartStep(s)
  \/ \E p \in Requests : RequestStep(p)
  \/ \E p \in Procs : EndRead(p) \/ EndWrite(p)
  \/ Tick

Spec == Init /\ [][Next]_vars

------------------------------------------------------------------------------
TypeOK ==
  /\ clock \in Nat
  /\ status \in [Starts -> FeatureRunStatuses \cup {"absent"}]
  /\ startedAt \in [Starts -> Nat]
  /\ pc \in [Procs -> StartSteps \cup RequestSteps]
  /\ \A s \in Starts : pc[s] \in StartSteps
  /\ \A p \in Requests : pc[p] \in RequestSteps
  /\ todo \in [Procs -> SUBSET Starts]
  /\ target \in [Procs -> SUBSET Starts]

(* The starts that created a run and then gave way.                        *)
Losers == {s \in Created : pc[s] \in {"endRead", "endWrite", "lost"}}

(* Nobody has asked to end or change a run: only starts race.              *)
OnlyStarts ==
  /\ \A p \in Requests : pc[p] = "idle"
  /\ \A s \in Concurrent : pc[s] = "idle"

(* Which rows a request may write, by the step it is at: a start has no    *)
(* row before its commit, and without allowConcurrent it ends only its own *)
(* run, after it created it.                                               *)
OwnRows ==
  /\ \A s \in Starts :
       /\ pc[s] \in {"idle", "stamp", "commit", "conflict"} => s \notin Created
       /\ pc[s] \in {"reconcile", "started", "lost"} => s \in Created
       /\ pc[s] \in {"endRead", "endWrite"} => (s \in Created <=> s \notin Concurrent)
       /\ pc[s] = "reconcile" => s \notin Concurrent
  /\ \A s \in Starts \ Concurrent : todo[s] \cup target[s] \subseteq {s}
  /\ \A p \in Procs : target[p] \subseteq Created

(* A start gives way only to a run that does not give way itself.          *)
LosersHaveWinners == \A s \in Losers : \E w \in Created \ Losers : Before(w, s)

(* While only starts race, whoever did not give way is still active.       *)
WinnersStayActive == OnlyStarts => Created \ Losers \subseteq Active

(* The reconciliation's total order at work, whatever requests interfere:  *)
(* the inductive invariant behind NeverZero.                               *)
RaceInvariant == OwnRows /\ LosersHaveWinners /\ WinnersStayActive

(* A race of starts never leaves the tester without a run: exactly one     *)
(* always survives, "never zero".                                          *)
NeverZero == OnlyStarts /\ Created # {} => Active \ Losers # {}

(* ... and "never two": once every start of a race has returned, at most   *)
(* one of them left a run.                                                 *)
NeverTwo ==
  (OnlyStarts /\ \A s \in Starts : pc[s] \in {"idle", "conflict", "started", "lost"}) =>
    Cardinality(Active) <= 1
==============================================================================
