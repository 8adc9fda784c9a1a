---------------------------- MODULE RunSchedule -----------------------------
(***************************************************************************)
(* Recurring automated runs (run-schedules/run-schedules.service.ts): the  *)
(* minute tick of every API replica under its cron lock, the claim on      *)
(* nextRunAt, skip-if-running, and the edits of testers.                   *)
(*                                                                         *)
(* A target is a feature with its environment, or a pipeline; both are     *)
(* started by a check for a running one and a create that follows it.      *)
(***************************************************************************)
EXTENDS Naturals, FiniteSets

CONSTANTS
  Schedules,    \* schedules that may be created
  Crons,        \* cron expressions with their timezones
  Targets,      \* what a schedule starts
  Ticks,        \* executions of the tick that may be open at once
  Edits,        \* the edit requests
  Creates,      \* the schedules a create may ask for
  Patches,      \* what an edit may ask for
  NextFire,     \* NextFire[c][t]: the first time after t that matches c (cron-parser)
  MaxTime,      \* bound on the clock
  MaxLive,      \* bound on the runs that are live at once
  Kinds,        \* the kinds of failure that can happen, each at most once
  MaxFailures,  \* bound on the number of those failures
  MaxOps        \* bound on the edits, removals and starts of testers

ASSUME ClockAssumption ==
  /\ MaxTime \in Nat
  /\ NextFire \in [Crons -> [0 .. MaxTime -> Nat]]
  /\ \A c \in Crons, t \in 0 .. MaxTime : NextFire[c][t] > t
ASSUME RequestsAssumption ==
  /\ Creates \subseteq [cron : Crons, enabled : {"on", "off"}, target : Targets]
  /\ Patches \subseteq [cron : Crons \cup {"keep"}, enabled : {"on", "off", "keep"},
                        target : Targets \cup {"keep"}]
ASSUME KindsAssumption ==
  Kinds \subseteq {"redis", "expire", "crash", "late"} /\ MaxFailures \in Nat /\ MaxLive \in Nat /\ MaxOps \in Nat
ASSUME TicksAssumption == Ticks \subseteq Nat \ {0}
ASSUME NamesAssumption ==
  /\ "tester" \notin Schedules
  /\ "keep" \notin Crons \cup Targets
ASSUME SomeAssumption == Schedules # {} /\ Crons # {} /\ Targets # {}

Times == 0 .. MaxTime

\* The columns a tick selects of a due schedule.
Read == [id : Schedules, cron : Crons, target : Targets, nextRunAt : Nat]
Row == [exists : {"new", "stored", "removed"}, enabled : {"on", "off"},
        cron : Crons, target : Targets, nextRunAt : Nat]

VARIABLES
  now,       \* what new Date() reads, the same for every process
  schedule,  \* schedule[s]: the RunSchedule row
  tick,      \* tick[c]: the locals of one execution of the tick, pc: its next statement
  lock,      \* the tick whose token the Redis key holds, or 0
  edit,      \* edit[e]: the locals of an edit request
  live,      \* the RUNNING or PAUSED runs, by target and by who started them
  fired,     \* history: the due time claimed last of each schedule, 0 for none
  failed,    \* history: the kinds of failure so far
  ops        \* what testers have done so far, creates apart

vars == <<now, schedule, tick, lock, edit, live, fired, failed, ops>>

Tester == "tester"
SomeCron == CHOOSE c \in Crons : TRUE
SomeTarget == CHOOSE t \in Targets : TRUE
SomeSchedule == CHOOSE s \in Schedules : TRUE
SomeRead == [id |-> SomeSchedule, cron |-> SomeCron, target |-> SomeTarget, nextRunAt |-> 0]
NewRow == [exists |-> "new", enabled |-> "off", cron |-> SomeCron, target |-> SomeTarget,
           nextRunAt |-> 0]
Idle == [pc |-> "idle", locked |-> FALSE, due |-> {}, s |-> SomeRead, next |-> 0]
NewEdit == [pc |-> "new", id |-> SomeSchedule, cron |-> SomeCron, enabled |-> "keep",
            target |-> "keep", nextRunAt |-> 0]

Failure(kind) ==
  /\ kind \in Kinds \ failed /\ Cardinality(failed) < MaxFailures
  /\ failed' = failed \cup {kind}

Op == ops < MaxOps /\ ops' = ops + 1

Stored(s) == schedule[s].exists = "stored"
At(c, pc) == tick[c].pc = pc
Go(c, t) == tick' = [tick EXCEPT ![c] = t]
\* A new tick takes the lowest free number.
Free(c) == At(c, "idle") /\ \A d \in Ticks : d < c => ~At(d, "idle")
Continue(c) == Go(c, [tick[c] EXCEPT !.pc = "next", !.s = SomeRead])

-----------------------------------------------------------------------------
(* Create, update, remove.                                                 *)

Create(s) ==
  /\ schedule[s].exists = "new"
  /\ \E d \in Creates :
       schedule' = [schedule EXCEPT ![s] =
         [exists |-> "stored", enabled |-> d.enabled, cron |-> d.cron, target |-> d.target,
          nextRunAt |-> NextFire[d.cron][now]]]
  /\ UNCHANGED <<now, tick, lock, edit, live, fired, failed, ops>>

Remove(s) ==
  /\ Op /\ Stored(s)
  /\ schedule' = [schedule EXCEPT ![s] = [NewRow EXCEPT !.exists = "removed"]]
  /\ UNCHANGED <<now, tick, lock, edit, live, fired, failed>>

\* findOne; the expression the edit does not name is the one read here, and it
\* is written again.
EditRead(e) ==
  /\ Op /\ edit[e].pc = "new"
  /\ \E s \in Schedules, p \in Patches :
       /\ Stored(s)
       /\ edit' = [edit EXCEPT ![e] =
            [pc |-> "read", id |-> s, nextRunAt |-> 0, enabled |-> p.enabled,
             target |-> p.target,
             cron |-> IF p.cron = "keep" THEN schedule[s].cron ELSE p.cron]]
  /\ UNCHANGED <<now, schedule, tick, lock, live, fired, failed>>

AnchorOnlyCadence(e) == IF edit[e].cron = schedule[edit[e].id].cron
                        THEN schedule[edit[e].id].nextRunAt
                        ELSE NextFire[edit[e].cron][now]
AnchorAsRead(e) == NextFire[schedule[edit[e].id].cron][now]
\* Whatever the edit changes, it anchors the next fire again.
Anchor(e) == NextFire[edit[e].cron][now]

EditAnchor(e) ==
  /\ edit[e].pc = "read"
  /\ edit' = [edit EXCEPT ![e] = [@ EXCEPT !.pc = "anchored", !.nextRunAt = Anchor(e)]]
  /\ UNCHANGED <<now, schedule, tick, lock, live, fired, failed, ops>>

\* A row with the columns an edit names.
Patched(row, p) ==
  [row EXCEPT !.cron = p.cron, !.nextRunAt = p.nextRunAt,
              !.enabled = IF p.enabled = "keep" THEN @ ELSE p.enabled,
              !.target = IF p.target = "keep" THEN @ ELSE p.target]

\* The update by id; it throws when the row is gone.
EditWrite(e) ==
  /\ edit[e].pc = "anchored"
  /\ edit' = [edit EXCEPT ![e] = [NewEdit EXCEPT !.pc = "done"]]
  /\ schedule' = IF Stored(edit[e].id)
                 THEN [schedule EXCEPT ![edit[e].id] = Patched(@, edit[e])]
                 ELSE schedule
  /\ UNCHANGED <<now, tick, lock, live, fired, failed, ops>>

-----------------------------------------------------------------------------
(* The tick.                                                               *)

Due(s) == Stored(s) /\ schedule[s].enabled = "on" /\ schedule[s].nextRunAt <= now

\* What the tick loads: all that is due.
AllDue == {[id |-> s, cron |-> schedule[s].cron, target |-> schedule[s].target,
            nextRunAt |-> schedule[s].nextRunAt] : s \in {d \in Schedules : Due(d)}}

\* The cron fires and the lock is free, or Redis is out of reach and the tick goes
\* on without it.  Lock and query are one step: waiting between them does nothing.
Tick(c) ==
  /\ Free(c)
  /\ \/ lock = 0 /\ lock' = c /\ UNCHANGED failed
        /\ Go(c, [Idle EXCEPT !.pc = "next", !.locked = TRUE, !.due = AllDue])
     \/ Failure("redis") /\ UNCHANGED lock
        /\ Go(c, [Idle EXCEPT !.pc = "next", !.locked = FALSE, !.due = AllDue])
  /\ UNCHANGED <<now, schedule, edit, live, fired, ops>>

\* The next schedule of the loop; its next fire is computed before the claim.
Take(c) ==
  /\ At(c, "next")
  /\ \E s \in tick[c].due :
       Go(c, [tick[c] EXCEPT !.pc = "claim", !.due = @ \ {s}, !.s = s,
                             !.next = NextFire[s.cron][now]])
  /\ UNCHANGED <<now, schedule, lock, edit, live, fired, failed, ops>>

ClaimsById(s) == Stored(s.id)
\* count = 1 of the updateMany.
Claims(s) == Stored(s.id) /\ schedule[s.id].nextRunAt = s.nextRunAt

Claim(c) ==
  LET s == tick[c].s IN
  /\ At(c, "claim") /\ Claims(s)
  /\ schedule' = [schedule EXCEPT ![s.id].nextRunAt = tick[c].next]
  /\ fired' = [fired EXCEPT ![s.id] = s.nextRunAt]
  /\ Go(c, [tick[c] EXCEPT !.pc = "check", !.next = 0])
  /\ UNCHANGED <<now, lock, edit, live, failed, ops>>

LoseClaim(c) ==
  /\ At(c, "claim") /\ ~Claims(tick[c].s)
  /\ Go(c, [tick[c] EXCEPT !.pc = "next", !.s = SomeRead, !.next = 0])
  /\ UNCHANGED <<now, schedule, lock, edit, live, fired, failed, ops>>

RunningOfSchedule(s) == \E r \in live : r.target = s.target /\ r.by = s.id
\* Skip-if-running looks at the target, whoever started the run.
Running(s) == \E r \in live : r.target = s.target

Check(c) ==
  /\ At(c, "check")
  /\ IF Running(tick[c].s) THEN Continue(c) ELSE Go(c, [tick[c] EXCEPT !.pc = "start"])
  /\ UNCHANGED <<now, schedule, lock, edit, live, fired, failed, ops>>

\* An environment or feature no longer fit to run, or a start that throws: the
\* loop goes on with the next schedule.
Skip(c) ==
  /\ At(c, "check") \/ At(c, "start")
  /\ Continue(c)
  /\ UNCHANGED <<now, schedule, lock, edit, live, fired, failed, ops>>

Start(c) ==
  LET s == tick[c].s IN
  /\ At(c, "start") /\ Cardinality(live) < MaxLive
  /\ live' = live \cup {[target |-> s.target, by |-> s.id, due |-> s.nextRunAt]}
  /\ Continue(c)
  /\ UNCHANGED <<now, schedule, lock, edit, fired, failed, ops>>

\* The tick returns and deletes the key if it still holds its token.
End(c) ==
  /\ At(c, "next") /\ tick[c].due = {}
  /\ Go(c, Idle)
  /\ lock' = IF tick[c].locked /\ lock = c THEN 0 ELSE lock
  /\ UNCHANGED <<now, schedule, edit, live, fired, failed, ops>>

-----------------------------------------------------------------------------
(* Testers, runs, time, failures.                                          *)

\* A tester starts the target; a pipeline would refuse beside a running one.
TesterStarts(t) ==
  /\ Op /\ Cardinality(live) < MaxLive
  /\ live' = live \cup {[target |-> t, by |-> Tester, due |-> 0]}
  /\ UNCHANGED <<now, schedule, tick, lock, edit, fired, failed>>

RunEnds(r) ==
  /\ live' = live \ {r}
  /\ UNCHANGED <<now, schedule, tick, lock, edit, fired, failed, ops>>

\* An edit writes the time it has computed before that time comes; "late" is the
\* failure that it does not.
Passes ==
  /\ now < MaxTime /\ now' = now + 1
  /\ \/ (\A e \in Edits : edit[e].pc # "anchored") /\ UNCHANGED failed
     \/ Failure("late")
  /\ UNCHANGED <<schedule, tick, lock, edit, live, fired, ops>>

\* The process of a tick dies; its key stays.
Crash(c) ==
  /\ ~At(c, "idle") /\ Failure("crash")
  /\ Go(c, Idle)
  /\ UNCHANGED <<now, schedule, lock, edit, live, fired, ops>>

NeverExpires == FALSE
\* The ttl of a key whose tick has died.
Expires == lock # 0 /\ ~tick[lock].locked

Expire ==
  /\ Expires /\ lock' = 0
  /\ UNCHANGED <<now, schedule, tick, edit, live, fired, failed, ops>>

\* A tick outlives its ttl.
Outlive ==
  /\ lock # 0 /\ tick[lock].locked /\ Failure("expire") /\ lock' = 0
  /\ UNCHANGED <<now, schedule, tick, edit, live, fired, ops>>

-----------------------------------------------------------------------------
Init ==
  /\ now = 0 /\ lock = 0 /\ live = {} /\ failed = {} /\ ops = 0
  /\ schedule = [s \in Schedules |-> NewRow]
  /\ tick = [c \in Ticks |-> Idle]
  /\ edit = [e \in Edits |-> NewEdit]
  /\ fired = [s \in Schedules |-> 0]

Loop(c) == Take(c) \/ Claim(c) \/ LoseClaim(c) \/ Check(c) \/ Skip(c) \/ Start(c) \/ End(c)

Next ==
  \/ \E s \in Schedules : Create(s) \/ Remove(s)
  \/ \E e \in Edits : EditRead(e) \/ EditAnchor(e) \/ EditWrite(e)
  \/ \E c \in Ticks : Tick(c) \/ Loop(c) \/ Crash(c)
  \/ \E t \in Targets : TesterStarts(t)
  \/ \E r \in live : RunEnds(r)
  \/ Passes
  \/ Expire
  \/ Outlive

Spec == Init /\ [][Next]_vars

\* The cron fires again and again, a tick goes on, a key with a ttl expires.
\* Nothing is asked of testers, runs, the clock or failures.
FairSpec ==
  /\ Spec
  /\ WF_tick(\E c \in Ticks : Tick(c))
  /\ \A c \in Ticks : WF_tick(Loop(c))
  /\ WF_lock(Expire)

-----------------------------------------------------------------------------
(* What must hold.                                                         *)

\* Rows and locals keep their types.
TypeOK ==
  /\ now \in Times
  /\ schedule \in [Schedules -> Row]
  /\ tick \in [Ticks -> [pc : {"idle", "next", "claim", "check", "start"}, locked : BOOLEAN,
                         due : SUBSET Read, s : Read, next : Nat]]
  /\ lock \in Ticks \cup {0}
  /\ edit \in [Edits -> [pc : {"new", "read", "anchored", "done"}, id : Schedules,
                         cron : Crons, enabled : {"on", "off", "keep"},
                         target : Targets \cup {"keep"}, nextRunAt : Nat]]
  /\ live \in SUBSET [target : Targets, by : Schedules \cup {Tester}, due : Nat]
  /\ fired \in [Schedules -> Nat]
  /\ failed \subseteq Kinds /\ ops \in Nat

(* "A concurrent instance that already claimed it matches 0 rows": with the *)
(* lock failing open or outlived, and whatever testers edit meanwhile, each *)
(* due time of a schedule is claimed at most once, and in their order.      *)
FiresOnce ==
  [][\A c \in Ticks : LET s == tick[c].s IN
       "late" \notin failed /\ At(c, "claim") /\ tick'[c].pc = "check" =>
         fired[s.id] < s.nextRunAt]_vars

(* The claim compares nextRunAt only, yet it also vouches for the columns   *)
(* read before it: a schedule that was edited since is not fired as it was, *)
(* nor one that was switched off, because every edit anchors nextRunAt anew. *)
ActsOnWhatItRead ==
  [][\A c \in Ticks : LET s == tick[c].s IN
       "late" \notin failed /\ At(c, "claim") /\ tick'[c].pc = "check" =>
         /\ schedule[s.id].enabled = "on"
         /\ schedule[s.id].cron = s.cron /\ schedule[s.id].target = s.target]_vars

(* Edits and claims that overlap, each writing what it computed from an     *)
(* earlier read, never leave nextRunAt at a time of another expression than *)
(* the stored one.                                                          *)
KeepsCadence ==
  "late" \notin failed =>
    \A s \in Schedules : Stored(s) =>
      \E t \in Times : schedule[s].nextRunAt = NextFire[schedule[s].cron][t]

(* Skip-if-running reads before the start.  As long as the lock keeps ticks *)
(* apart, also through crashes, schedules never stack two runs on a target. *)
NeverStacks ==
  failed \cap {"redis", "expire"} = {} =>
    \A a, b \in live :
      a.by # Tester /\ b.by # Tester /\ a.target = b.target => a = b

\* Every due schedule is claimed, or changed by a tester: a tick that dies with
\* the lock, or a schedule before it in the loop that throws, does not stop it.
DueIsClaimed == \A s \in Schedules : Due(s) ~> ~Due(s)
=============================================================================
