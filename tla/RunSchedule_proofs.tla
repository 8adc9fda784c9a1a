------------------------- MODULE RunSchedule_proofs --------------------------
(***************************************************************************)
(* The safety properties of RunSchedule for any number of schedules, ticks *)
(* and edits, any cron expressions and any failures.                       *)
(*                                                                         *)
(* That a claim on nextRunAt alone is enough rests on time: whatever is    *)
(* written to nextRunAt is later than every due time read before, so a due *)
(* time never comes back (Order).  That runs do not stack rests on the     *)
(* lock (Apart).                                                           *)
(***************************************************************************)
EXTENDS RunSchedule, TLAPS

EditType == [pc : {"new", "read", "anchored", "done"}, id : Schedules,
             cron : Crons, enabled : {"on", "off", "keep"},
             target : Targets \cup {"keep"}, nextRunAt : Nat]
TickType == [pc : {"idle", "next", "claim", "check", "start"}, locked : BOOLEAN,
             due : SUBSET Read, s : Read, next : Nat]
LiveType == [target : Targets, by : Schedules \cup {Tester}, due : Nat]

-----------------------------------------------------------------------------
(* The order of the times.                                                 *)

\* nextRunAt is a time of the row's own expression.
OfCadence(cron, next) == \E t \in Times : next = NextFire[cron][t]

\* A row that was read is still the same, or its nextRunAt has moved on.
StillAsRead(r) ==
  /\ r.nextRunAt <= now /\ schedule[r.id].exists # "new"
  /\ Stored(r.id) => /\ schedule[r.id].nextRunAt >= r.nextRunAt
                     /\ schedule[r.id].nextRunAt = r.nextRunAt =>
                          /\ schedule[r.id].enabled = "on"
                          /\ schedule[r.id].cron = r.cron
                          /\ schedule[r.id].target = r.target

\* What a tick has read, and not claimed yet.
Unclaimed(t) == t.due \cup (IF t.pc = "claim" THEN {t.s} ELSE {})

ReadsHold == \A c \in Ticks : \A r \in Unclaimed(tick[c]) : StillAsRead(r)
NextIsLater == \A c \in Ticks : At(c, "claim") =>
                 /\ tick[c].next > tick[c].s.nextRunAt
                 /\ OfCadence(tick[c].s.cron, tick[c].next)
AnchorsAhead == \A e \in Edits : edit[e].pc = "anchored" =>
                  edit[e].nextRunAt > now /\ OfCadence(edit[e].cron, edit[e].nextRunAt)
FiredBefore == \A s \in Schedules :
                 fired[s] <= now /\ (Stored(s) => fired[s] < schedule[s].nextRunAt)
OnCadence == \A s \in Schedules : Stored(s) =>
               OfCadence(schedule[s].cron, schedule[s].nextRunAt)

Order == "late" \notin failed =>
           ReadsHold /\ NextIsLater /\ AnchorsAhead /\ FiredBefore /\ OnCadence

-----------------------------------------------------------------------------
(* The lock.                                                               *)

OneTick == \A c \in Ticks : ~At(c, "idle") => tick[c].locked /\ lock = c
StartIsFree == \A c \in Ticks : At(c, "start") =>
                 \A r \in live : r.target = tick[c].s.target => r.by = Tester
NoTwo == \A a, b \in live :
           a.by # Tester /\ b.by # Tester /\ a.target = b.target => a = b

Apart == failed \cap {"redis", "expire"} = {} => OneTick /\ StartIsFree /\ NoTwo

-----------------------------------------------------------------------------
LEMMA NextFireIsLater ==
  ASSUME NEW c \in Crons, NEW t \in Times
  PROVE  NextFire[c][t] \in Nat /\ NextFire[c][t] > t
BY ClockAssumption DEF Times

LEMMA SomeTypes ==
  /\ SomeCron \in Crons /\ SomeTarget \in Targets /\ SomeSchedule \in Schedules
  /\ SomeRead \in Read /\ NewRow \in Row /\ Idle \in TickType /\ NewEdit \in EditType
<1>1. SomeCron \in Crons /\ SomeTarget \in Targets /\ SomeSchedule \in Schedules
  BY SomeAssumption DEF SomeCron, SomeTarget, SomeSchedule
<1>2. SomeRead \in Read
  BY <1>1 DEF SomeRead, Read
<1> QED
  BY <1>1, <1>2 DEF NewRow, Row, Idle, TickType, NewEdit, EditType

LEMMA TypeInit == Init => TypeOK
<1> SUFFICES ASSUME Init PROVE TypeOK
  OBVIOUS
<1>1. now \in Times /\ lock \in Ticks \cup {0} /\ ops \in Nat
  BY ClockAssumption DEF Init, Times
<1>4. live \in SUBSET LiveType /\ failed \subseteq Kinds
  BY DEF Init
<1>2. schedule \in [Schedules -> Row] /\ fired \in [Schedules -> Nat]
  BY SomeTypes DEF Init
<1>3. tick \in [Ticks -> TickType] /\ edit \in [Edits -> EditType]
  BY SomeTypes DEF Init
<1> QED
  BY <1>1, <1>2, <1>3, <1>4 DEF TypeOK, TickType, EditType, LiveType

\* A step of the loop keeps the types of the locals.
LEMMA TickTypes ==
  ASSUME TypeOK, NEW c \in Ticks, NEW t \in TickType, Go(c, t)
  PROVE  tick' \in [Ticks -> TickType]
BY DEF TypeOK, TickType, Go

LEMMA ContinueType ==
  ASSUME TypeOK, NEW c \in Ticks
  PROVE  [tick[c] EXCEPT !.pc = "next", !.s = SomeRead] \in TickType
BY SomeTypes DEF TypeOK, TickType

LEMMA TypeStep == TypeOK /\ [Next]_vars => TypeOK'
<1> SUFFICES ASSUME TypeOK, [Next]_vars PROVE TypeOK'
  OBVIOUS
<1> USE DEF TypeOK
<1>1. ASSUME NEW s \in Schedules, Create(s) PROVE TypeOK'
  <2>1. PICK d \in Creates : schedule' = [schedule EXCEPT ![s] =
          [exists |-> "stored", enabled |-> d.enabled, cron |-> d.cron,
           target |-> d.target, nextRunAt |-> NextFire[d.cron][now]]]
    BY <1>1 DEF Create
  <2>2. NextFire[d.cron][now] \in Nat
    BY RequestsAssumption, NextFireIsLater
  <2>3. schedule' \in [Schedules -> Row]
    BY <2>1, <2>2, RequestsAssumption DEF Row
  <2> QED
    BY <1>1, <2>3 DEF Create
<1>2. ASSUME NEW s \in Schedules, Remove(s) PROVE TypeOK'
  BY <1>2, SomeTypes DEF Remove, Op, Row
<1>3. ASSUME NEW e \in Edits, EditRead(e) PROVE TypeOK'
  <2>1. PICK s \in Schedules, p \in Patches : edit' = [edit EXCEPT ![e] =
          [pc |-> "read", id |-> s, nextRunAt |-> 0, enabled |-> p.enabled,
           target |-> p.target,
           cron |-> IF p.cron = "keep" THEN schedule[s].cron ELSE p.cron]]
    BY <1>3 DEF EditRead
  <2>2. (IF p.cron = "keep" THEN schedule[s].cron ELSE p.cron) \in Crons
    BY RequestsAssumption DEF Row
  <2>3. edit' \in [Edits -> EditType]
    BY <2>1, <2>2, RequestsAssumption DEF EditType
  <2> QED
    BY <1>3, <2>3 DEF EditRead, Op, EditType
<1>4. ASSUME NEW e \in Edits, EditAnchor(e) PROVE TypeOK'
  <2>1. NextFire[edit[e].cron][now] \in Nat
    BY NextFireIsLater
  <2>2. [edit[e] EXCEPT !.pc = "anchored", !.nextRunAt = Anchor(e)] \in EditType
    BY <2>1 DEF Anchor, EditType
  <2> QED
    BY <1>4, <2>2 DEF EditAnchor, EditType
<1>5. ASSUME NEW e \in Edits, EditWrite(e) PROVE TypeOK'
  <2>0. edit[e] \in EditType /\ schedule[edit[e].id] \in Row
    BY DEF EditType
  <2>1. Patched(schedule[edit[e].id], edit[e]) \in Row
    BY <2>0 DEF Patched, Row, EditType
  <2>2. [NewEdit EXCEPT !.pc = "done"] \in EditType
    BY SomeTypes DEF EditType
  <2> QED
    BY <1>5, <2>1, <2>2 DEF EditWrite, EditType
<1>6. ASSUME NEW c \in Ticks, Tick(c) PROVE TypeOK'
  <2>1. AllDue \in SUBSET Read
    BY DEF AllDue, Read, Row
  <2>2. /\ [Idle EXCEPT !.pc = "next", !.locked = TRUE, !.due = AllDue] \in TickType
        /\ [Idle EXCEPT !.pc = "next", !.locked = FALSE, !.due = AllDue] \in TickType
    BY <2>1, SomeTypes DEF TickType
  <2>3. tick' \in [Ticks -> TickType]
    BY <1>6, <2>2, TickTypes DEF Tick
  <2> QED
    BY <1>6, <2>3 DEF Tick, Failure, TickType
<1>7. ASSUME NEW c \in Ticks, Loop(c) PROVE TypeOK'
  <2>1. CASE Take(c)
    <3>1. PICK s \in tick[c].due :
            Go(c, [tick[c] EXCEPT !.pc = "claim", !.due = @ \ {s}, !.s = s,
                                  !.next = NextFire[s.cron][now]])
      BY <2>1 DEF Take
    <3>2. s \in Read /\ NextFire[s.cron][now] \in Nat /\ tick[c] \in TickType
      BY NextFireIsLater DEF Read, TickType
    <3>3. [tick[c] EXCEPT !.pc = "claim", !.due = @ \ {s}, !.s = s,
                          !.next = NextFire[s.cron][now]] \in TickType
      BY <3>2 DEF TickType
    <3>4. tick' \in [Ticks -> TickType]
      BY <3>1, <3>3, TickTypes
    <3> QED
      BY <2>1, <3>4 DEF Take, TickType
  <2>2. CASE Claim(c)
    <3>1. [tick[c] EXCEPT !.pc = "check", !.next = 0] \in TickType
      BY DEF TickType
    <3>2. tick' \in [Ticks -> TickType]
      BY <2>2, <3>1, TickTypes DEF Claim
    <3>3. schedule' \in [Schedules -> Row] /\ fired' \in [Schedules -> Nat]
      BY <2>2 DEF Claim, Row, Read
    <3> QED
      BY <2>2, <3>2, <3>3 DEF Claim, TickType
  <2>3. CASE LoseClaim(c)
    <3>1. [tick[c] EXCEPT !.pc = "next", !.s = SomeRead, !.next = 0] \in TickType
      BY SomeTypes DEF TickType
    <3>2. tick' \in [Ticks -> TickType]
      BY <2>3, <3>1, TickTypes DEF LoseClaim
    <3> QED
      BY <2>3, <3>2 DEF LoseClaim, TickType
  <2>4. CASE Check(c)
    <3>1. [tick[c] EXCEPT !.pc = "start"] \in TickType
      BY DEF TickType
    <3>2. tick' \in [Ticks -> TickType]
      BY <2>4, <3>1, ContinueType, TickTypes DEF Check, Continue
    <3> QED
      BY <2>4, <3>2 DEF Check, TickType
  <2>5. CASE Skip(c)
    <3>1. tick' \in [Ticks -> TickType]
      BY <2>5, ContinueType, TickTypes DEF Skip, Continue
    <3> QED
      BY <2>5, <3>1 DEF Skip, TickType
  <2>6. CASE Start(c)
    <3>1. tick' \in [Ticks -> TickType]
      BY <2>6, ContinueType, TickTypes DEF Start, Continue
    <3>2. live' \in SUBSET LiveType
      BY <2>6 DEF Start, LiveType, Read
    <3> QED
      BY <2>6, <3>1, <3>2 DEF Start, TickType, LiveType
  <2>7. CASE End(c)
    <3>1. tick' \in [Ticks -> TickType]
      BY <2>7, SomeTypes, TickTypes DEF End
    <3> QED
      BY <2>7, <3>1 DEF End, TickType
  <2> QED
    BY <1>7, <2>1, <2>2, <2>3, <2>4, <2>5, <2>6, <2>7 DEF Loop
<1>8. ASSUME NEW c \in Ticks, Crash(c) PROVE TypeOK'
  <2>1. tick' \in [Ticks -> TickType]
    BY <1>8, SomeTypes, TickTypes DEF Crash
  <2> QED
    BY <1>8, <2>1 DEF Crash, Failure, TickType
<1>9. ASSUME NEW t \in Targets, TesterStarts(t) PROVE TypeOK'
  BY <1>9 DEF TesterStarts, Op
<1>10. ASSUME NEW r \in live, RunEnds(r) PROVE TypeOK'
  BY <1>10 DEF RunEnds
<1>11. CASE Passes
  <2>1. now' \in Times /\ failed' \subseteq Kinds
    BY <1>11, ClockAssumption DEF Passes, Failure, Times
  <2> QED
    BY <1>11, <2>1 DEF Passes
<1>12. CASE Expire
  BY <1>12 DEF Expire
<1>13. CASE Outlive
  BY <1>13 DEF Outlive, Failure
<1>14. CASE UNCHANGED vars
  BY <1>14 DEF vars
<1> QED
  BY <1>1, <1>2, <1>3, <1>4, <1>5, <1>6, <1>7, <1>8, <1>9, <1>10, <1>11, <1>12,
     <1>13, <1>14 DEF Next

\* Rows, locals and histories of RunSchedule keep their types.
THEOREM ScheduleTypes == Spec => []TypeOK
<1>1. Init => TypeOK
  BY TypeInit
<1>2. TypeOK /\ [Next]_vars => TypeOK'
  BY TypeStep
<1> QED
  BY <1>1, <1>2, PTL DEF Spec

-----------------------------------------------------------------------------
LEMMA FailuresStay == [Next]_vars => failed \subseteq failed'
<1> SUFFICES ASSUME Next PROVE failed \subseteq failed'
  BY DEF vars
<1>1. ASSUME NEW c \in Ticks, Loop(c) PROVE failed \subseteq failed'
  BY <1>1 DEF Loop, Take, Claim, LoseClaim, Check, Skip, Start, End
<1>2. ASSUME NEW c \in Ticks, Tick(c) \/ Crash(c) PROVE failed \subseteq failed'
  BY <1>2 DEF Tick, Crash, Failure
<1>3. ASSUME NEW e \in Edits, EditRead(e) \/ EditAnchor(e) \/ EditWrite(e)
      PROVE  failed \subseteq failed'
  BY <1>3 DEF EditRead, EditAnchor, EditWrite
<1> QED
  BY <1>1, <1>2, <1>3 DEF Next, Create, Remove, TesterStarts, RunEnds, Passes, Expire,
     Outlive, Failure

-----------------------------------------------------------------------------
(* The lock.                                                               *)

ApartNow == OneTick /\ StartIsFree /\ NoTwo

\* A step of the loop that neither arrives at the start nor changes a run.
LEMMA LoopApart ==
  ASSUME TypeOK, ApartNow, NEW c \in Ticks, NEW t \in TickType, Go(c, t),
         ~At(c, "idle"), t.locked = tick[c].locked, t.pc # "start", t.pc # "idle",
         UNCHANGED <<lock, live>>
  PROVE  ApartNow'
<1>1. /\ tick' \in [Ticks -> TickType]
      /\ \A d \in Ticks : tick'[d] = IF d = c THEN t ELSE tick[d]
  BY DEF TypeOK, TickType, Go
<1> QED
  BY <1>1 DEF ApartNow, OneTick, StartIsFree, NoTwo, At

LEMMA ApartStep == TypeOK /\ TypeOK' /\ Apart /\ [Next]_vars => Apart'
<1> SUFFICES ASSUME TypeOK, TypeOK', Apart, [Next]_vars,
                    failed' \cap {"redis", "expire"} = {}
             PROVE  ApartNow'
  BY DEF Apart, ApartNow
<1>0. ApartNow /\ SomeRead \in Read
  BY FailuresStay, SomeTypes DEF Apart, ApartNow
<1>1. CASE UNCHANGED <<tick, lock, live>>
  BY <1>0, <1>1 DEF ApartNow, OneTick, StartIsFree, NoTwo, At
<1>2. ASSUME NEW c \in Ticks, Tick(c) PROVE ApartNow'
  <2>1. lock = 0 /\ lock' = c
        /\ Go(c, [Idle EXCEPT !.pc = "next", !.locked = TRUE, !.due = AllDue])
    BY <1>2 DEF Tick, Failure
  <2>2. \A d \in Ticks : At(d, "idle")
    BY <1>0, <2>1, TicksAssumption DEF ApartNow, OneTick
  <2>3. \A d \in Ticks : IF d = c THEN tick'[d].pc = "next" /\ tick'[d].locked
                                   ELSE tick'[d] = tick[d]
    BY <2>1 DEF Go, Idle, TypeOK
  <2> QED
    BY <1>0, <1>2, <2>1, <2>2, <2>3
    DEF Tick, ApartNow, OneTick, StartIsFree, NoTwo, At
<1>3. ASSUME NEW c \in Ticks, Loop(c) PROVE ApartNow'
  <2> DEFINE T == tick[c]
  <2>0. T \in TickType
    BY DEF TypeOK, TickType
  <2>1. CASE Take(c)
    <3>1. PICK s \in T.due :
            Go(c, [T EXCEPT !.pc = "claim", !.due = @ \ {s}, !.s = s,
                            !.next = NextFire[s.cron][now]])
      BY <2>1 DEF Take
    <3>2. s \in Read /\ NextFire[s.cron][now] \in Nat
      BY <2>0, NextFireIsLater DEF Read, TickType, TypeOK
    <3> QED
      BY <1>0, <2>0, <2>1, <3>1, <3>2, LoopApart DEF Take, At, TickType
  <2>2. CASE Claim(c)
    BY <1>0, <2>0, <2>2, LoopApart DEF Claim, At, TickType
  <2>3. CASE LoseClaim(c)
    BY <1>0, <2>0, <2>3, LoopApart DEF LoseClaim, At, TickType
  <2>4. CASE Check(c) /\ Continue(c)
    BY <1>0, <2>0, <2>4, LoopApart DEF Check, Continue, At, TickType
  <2>5. CASE Check(c) /\ ~Running(T.s)
    <3>1. \A d \in Ticks : tick'[d] = IF d = c THEN [T EXCEPT !.pc = "start"] ELSE tick[d]
      BY <2>5 DEF Check, Go, TypeOK
    <3>2. OneTick'
      BY <1>0, <2>0, <2>5, <3>1 DEF ApartNow, OneTick, Check, At, TickType
    <3>3. StartIsFree'
      BY <1>0, <2>0, <2>5, <3>1 DEF ApartNow, StartIsFree, Check, At, TickType, Running
    <3> QED
      BY <1>0, <2>5, <3>2, <3>3 DEF ApartNow, NoTwo, Check
  <2>6. CASE Skip(c)
    BY <1>0, <2>0, <2>6, LoopApart DEF Skip, Continue, At, TickType
  <2>7. CASE Start(c)
    <3>1. \A d \in Ticks : tick'[d] = IF d = c
            THEN [T EXCEPT !.pc = "next", !.s = SomeRead] ELSE tick[d]
      BY <2>7 DEF Start, Continue, Go, TypeOK
    <3>2. OneTick'
      BY <1>0, <2>0, <2>7, <3>1 DEF ApartNow, OneTick, Start, At, TickType
    <3>3. \A d \in Ticks : ~At(d, "start")'
      BY <1>0, <2>0, <2>7, <3>1, TicksAssumption
      DEF ApartNow, OneTick, Start, At, TickType
    <3>4. \A r \in live : r.target = T.s.target => r.by = Tester
      BY <1>0, <2>7 DEF ApartNow, StartIsFree, Start
    <3>5. NoTwo'
      BY <1>0, <2>7, <3>4 DEF ApartNow, NoTwo, Start
    <3> QED
      BY <3>2, <3>3, <3>5 DEF ApartNow, StartIsFree
  <2>8. CASE End(c)
    <3>1. \A d \in Ticks : tick'[d] = IF d = c THEN Idle ELSE tick[d]
      BY <2>8 DEF End, Go, TypeOK
    <3>2. \A d \in Ticks \ {c} : At(d, "idle")
      BY <1>0, <2>8, TicksAssumption DEF ApartNow, OneTick, End, At
    <3> QED
      BY <1>0, <2>8, <3>1, <3>2 DEF ApartNow, OneTick, StartIsFree, NoTwo, End, At, Idle
  <2> QED
    BY <1>3, <2>1, <2>2, <2>3, <2>4, <2>5, <2>6, <2>7, <2>8 DEF Loop, Check
<1>4. ASSUME NEW c \in Ticks, Crash(c) PROVE ApartNow'
  <2>1. \A d \in Ticks : tick'[d] = IF d = c THEN Idle ELSE tick[d]
    BY <1>4 DEF Crash, Go, TypeOK
  <2> QED
    BY <1>0, <1>4, <2>1 DEF ApartNow, OneTick, StartIsFree, NoTwo, Crash, At, Idle
<1>5. ASSUME NEW t \in Targets, TesterStarts(t) PROVE ApartNow'
  BY <1>0, <1>5 DEF TesterStarts, ApartNow, OneTick, StartIsFree, NoTwo, At
<1>6. ASSUME NEW r \in live, RunEnds(r) PROVE ApartNow'
  BY <1>0, <1>6 DEF RunEnds, ApartNow, OneTick, StartIsFree, NoTwo, At
<1>7. CASE Expire
  <2>1. \A c \in Ticks : At(c, "idle")
    BY <1>0, <1>7, TicksAssumption DEF Expire, Expires, ApartNow, OneTick
  <2> QED
    BY <1>0, <1>7, <2>1 DEF Expire, ApartNow, OneTick, StartIsFree, NoTwo, At
<1>8. ~Outlive
  BY DEF Outlive, Failure
<1> QED
  BY <1>1, <1>2, <1>3, <1>4, <1>5, <1>6, <1>7, <1>8 DEF Next, vars, Create, Remove,
     EditRead, EditAnchor, EditWrite, Passes

\* As long as no tick runs without the lock, schedules never have two runs of
\* one target live at once, however many share it and whoever else starts it.
THEOREM RunsNeverStack == Spec => []NeverStacks
<1>1. Init => TypeOK /\ Apart
  BY TypeInit, SomeTypes DEF Init, Apart, OneTick, StartIsFree, NoTwo, At, Idle
<1>2. TypeOK /\ Apart /\ [Next]_vars => (TypeOK /\ Apart)'
  BY TypeStep, ApartStep
<1>3. TypeOK /\ Apart => NeverStacks
  BY DEF Apart, NoTwo, NeverStacks
<1> QED
  BY <1>1, <1>2, <1>3, PTL DEF Spec

-----------------------------------------------------------------------------
(* The order of the times.                                                 *)

OrderNow == ReadsHold /\ NextIsLater /\ AnchorsAhead /\ FiredBefore /\ OnCadence

\* A step of one tick that claims nothing.
LEMMA TickOrder ==
  ASSUME TypeOK, OrderNow, NEW c \in Ticks, NEW t \in TickType, Go(c, t),
         UNCHANGED <<now, schedule, edit, fired>>,
         \A r \in Unclaimed(t) : StillAsRead(r),
         t.pc = "claim" => t.next > t.s.nextRunAt /\ OfCadence(t.s.cron, t.next)
  PROVE  OrderNow'
<1>1. \A d \in Ticks : tick'[d] = IF d = c THEN t ELSE tick[d]
  BY DEF TypeOK, Go
<1>2. ReadsHold'
  BY <1>1 DEF OrderNow, ReadsHold, StillAsRead, Stored, Unclaimed
<1>3. NextIsLater'
  BY <1>1 DEF OrderNow, NextIsLater, At, OfCadence
<1> QED
  BY <1>2, <1>3 DEF OrderNow, AnchorsAhead, FiredBefore, OnCadence, OfCadence, Stored

\* A write to the row of s moves nextRunAt past all that was read or claimed of it.
LEMMA RowOrder ==
  ASSUME TypeOK, OrderNow, NEW s \in Schedules, NEW row \in Row,
         schedule' = [schedule EXCEPT ![s] = row],
         UNCHANGED <<now, tick, edit>>,
         fired' \in [Schedules -> Nat],
         \A q \in Schedules : q # s => fired'[q] = fired[q],
         row.exists # "new",
         \A c \in Ticks : \A r \in Unclaimed(tick[c]) :
           r.id = s => r.nextRunAt < row.nextRunAt \/ row.exists = "removed",
         fired'[s] <= now,
         row.exists = "stored" =>
           fired'[s] < row.nextRunAt /\ OfCadence(row.cron, row.nextRunAt)
  PROVE  OrderNow'
<1>1. \A q \in Schedules : schedule'[q] = IF q = s THEN row ELSE schedule[q]
  BY DEF TypeOK
<1>2. ReadsHold'
  <2> SUFFICES ASSUME NEW c \in Ticks, NEW r \in Unclaimed(tick[c])
               PROVE  StillAsRead(r)'
    BY DEF ReadsHold, Unclaimed
  <2>1. r \in Read /\ StillAsRead(r)
    BY DEF OrderNow, ReadsHold, TypeOK, Unclaimed
  <2> QED
    BY <1>1, <2>1 DEF StillAsRead, Stored, Read, Row, TypeOK, Times
<1>3. FiredBefore'
  BY <1>1 DEF OrderNow, FiredBefore, Stored
<1>4. OnCadence'
  BY <1>1 DEF OrderNow, OnCadence, Stored, OfCadence
<1> QED
  BY <1>2, <1>3, <1>4 DEF OrderNow, NextIsLater, AnchorsAhead, At, OfCadence

LEMMA NowIsOfCadence ==
  ASSUME TypeOK, NEW c \in Crons
  PROVE  /\ NextFire[c][now] \in Nat /\ NextFire[c][now] > now
         /\ OfCadence(c, NextFire[c][now])
BY NextFireIsLater DEF TypeOK, OfCadence

LEMMA OrderStep == TypeOK /\ TypeOK' /\ Order /\ [Next]_vars => Order'
<1> SUFFICES ASSUME TypeOK, TypeOK', Order, [Next]_vars, "late" \notin failed'
             PROVE  OrderNow'
  BY DEF Order, OrderNow
<1>0. OrderNow
  BY FailuresStay DEF Order, OrderNow
<1>01. now \in Nat
  BY ClockAssumption DEF TypeOK, Times
<1>1. CASE UNCHANGED <<now, schedule, tick, edit, fired>>
  BY <1>0, <1>1 DEF OrderNow, ReadsHold, StillAsRead, Unclaimed, Stored, NextIsLater,
     AnchorsAhead, FiredBefore, OnCadence, OfCadence, At
<1>2. ASSUME NEW s \in Schedules, Create(s) PROVE OrderNow'
  <2>1. PICK d \in Creates : schedule' = [schedule EXCEPT ![s] =
          [exists |-> "stored", enabled |-> d.enabled, cron |-> d.cron,
           target |-> d.target, nextRunAt |-> NextFire[d.cron][now]]]
    BY <1>2 DEF Create
  <2> DEFINE row == [exists |-> "stored", enabled |-> d.enabled, cron |-> d.cron,
                     target |-> d.target, nextRunAt |-> NextFire[d.cron][now]]
  <2>2. /\ NextFire[d.cron][now] \in Nat /\ NextFire[d.cron][now] > now
        /\ OfCadence(d.cron, NextFire[d.cron][now])
    BY RequestsAssumption, NowIsOfCadence
  <2>3. row \in Row
    BY <2>2, RequestsAssumption DEF Row
  <2>4. \A c \in Ticks : \A r \in Unclaimed(tick[c]) : r.id # s
    BY <1>0, <1>2 DEF OrderNow, ReadsHold, StillAsRead, Create
  <2>5. fired'[s] = fired[s] /\ fired[s] <= now /\ fired[s] \in Nat
    BY <1>0, <1>2 DEF OrderNow, FiredBefore, Create, TypeOK
  <2>6. fired'[s] < row.nextRunAt
    BY <2>2, <2>5, <1>01
  <2>7. UNCHANGED <<now, tick, edit, fired>>
    BY <1>2 DEF Create
  <2> HIDE DEF row
  <2>8. row.exists = "stored" /\ OfCadence(row.cron, row.nextRunAt)
    BY <2>2 DEF row
  <2>9. schedule' = [schedule EXCEPT ![s] = row]
    BY <2>1 DEF row
  <2> QED
    BY <1>0, <2>3, <2>4, <2>5, <2>6, <2>7, <2>8, <2>9, RowOrder DEF TypeOK
<1>3. ASSUME NEW s \in Schedules, Remove(s) PROVE OrderNow'
  <2>1. [NewRow EXCEPT !.exists = "removed"] \in Row
        /\ [NewRow EXCEPT !.exists = "removed"].exists = "removed"
    BY SomeTypes DEF NewRow, Row
  <2>2. fired' = fired /\ fired[s] <= now
    BY <1>0, <1>3 DEF Remove, OrderNow, FiredBefore
  <2> QED
    BY <1>0, <1>3, <2>1, <2>2, RowOrder DEF Remove, TypeOK
<1>4. ASSUME NEW e \in Edits, EditRead(e) PROVE OrderNow'
  <2>1. \A f \in Edits : edit'[f].pc = "anchored" => edit'[f] = edit[f]
    BY <1>4 DEF EditRead, TypeOK
  <2> QED
    BY <1>0, <1>4, <2>1 DEF EditRead, OrderNow, ReadsHold, StillAsRead, Unclaimed, Stored,
       NextIsLater, AnchorsAhead, FiredBefore, OnCadence, OfCadence, At
<1>5. ASSUME NEW e \in Edits, EditAnchor(e) PROVE OrderNow'
  <2>1. edit[e].cron \in Crons
    BY DEF TypeOK
  <2>2. \A f \in Edits : edit'[f] = IF f = e
          THEN [edit[e] EXCEPT !.pc = "anchored", !.nextRunAt = NextFire[edit[e].cron][now]]
          ELSE edit[f]
    BY <1>5 DEF EditAnchor, Anchor, TypeOK
  <2>3. AnchorsAhead'
    <3> SUFFICES ASSUME NEW f \in Edits, edit'[f].pc = "anchored"
                 PROVE  edit'[f].nextRunAt > now' /\ OfCadence(edit'[f].cron, edit'[f].nextRunAt)
      BY DEF AnchorsAhead, OfCadence
    <3>1. now' = now
      BY <1>5 DEF EditAnchor
    <3>2. CASE f # e
      BY <1>0, <2>2, <3>1, <3>2 DEF OrderNow, AnchorsAhead
    <3>3. CASE f = e
      <4>1. edit'[f].cron = edit[e].cron /\ edit'[f].nextRunAt = NextFire[edit[e].cron][now]
        BY <2>2, <3>3 DEF TypeOK
      <4> QED
        BY <2>1, <3>1, <4>1, NowIsOfCadence
    <3> QED
      BY <3>2, <3>3
  <2> QED
    BY <1>0, <1>5, <2>3 DEF EditAnchor, OrderNow, ReadsHold, StillAsRead, Unclaimed, Stored,
       NextIsLater, FiredBefore, OnCadence, OfCadence, At
<1>6. ASSUME NEW e \in Edits, EditWrite(e) PROVE OrderNow'
  <2> DEFINE s == edit[e].id
             row == Patched(schedule[s], edit[e])
  <2>0. edit[e] \in EditType /\ schedule[s] \in Row /\ s \in Schedules
    BY DEF TypeOK, EditType
  <2>1. edit[e].nextRunAt > now /\ OfCadence(edit[e].cron, edit[e].nextRunAt)
    BY <1>0, <1>6 DEF EditWrite, OrderNow, AnchorsAhead
  <2>2. row \in Row /\ row.nextRunAt = edit[e].nextRunAt /\ row.cron = edit[e].cron
        /\ row.exists = schedule[s].exists
    BY <2>0 DEF Patched, Row, EditType
  <2>3. \A f \in Edits : edit'[f].pc = "anchored" => edit'[f] = edit[f]
    BY <1>6 DEF EditWrite, TypeOK, NewEdit
  <2>4. ASSUME UNCHANGED <<now, tick, fired>>, schedule' = [schedule EXCEPT ![s] = row],
               Stored(s)
        PROVE  ReadsHold' /\ FiredBefore' /\ OnCadence'
    <3>1. \A q \in Schedules : schedule'[q] = IF q = s THEN row ELSE schedule[q]
      BY <2>0, <2>4 DEF TypeOK
    <3>2. ReadsHold'
      <4> SUFFICES ASSUME NEW c \in Ticks, NEW r \in Unclaimed(tick[c])
                   PROVE  StillAsRead(r)'
        BY <2>4 DEF ReadsHold, Unclaimed
      <4>1. r \in Read /\ StillAsRead(r)
        BY <1>0 DEF OrderNow, ReadsHold, TypeOK, Unclaimed
      <4> HIDE DEF row
      <4> QED
        BY <1>01, <2>0, <2>1, <2>2, <2>4, <3>1, <4>1
        DEF StillAsRead, Stored, Read, Row, EditType
    <3> HIDE DEF row
    <3>3. FiredBefore'
      BY <1>0, <1>01, <2>0, <2>1, <2>2, <2>4, <3>1
      DEF OrderNow, FiredBefore, Stored, TypeOK, EditType
    <3>4. OnCadence'
      BY <1>0, <2>1, <2>2, <3>1 DEF OrderNow, OnCadence, Stored, OfCadence
    <3> QED
      BY <3>2, <3>3, <3>4
  <2>5. ASSUME UNCHANGED <<now, tick, fired, schedule>>
        PROVE  ReadsHold' /\ FiredBefore' /\ OnCadence'
    BY <1>0, <2>5 DEF OrderNow, ReadsHold, StillAsRead, Unclaimed, Stored, FiredBefore,
       OnCadence, OfCadence
  <2>6. ReadsHold' /\ FiredBefore' /\ OnCadence'
    BY <1>6, <2>4, <2>5 DEF EditWrite
  <2> QED
    BY <1>0, <1>6, <2>3, <2>6 DEF EditWrite, OrderNow, NextIsLater, AnchorsAhead, At, OfCadence
<1>7. ASSUME NEW c \in Ticks, Tick(c) PROVE OrderNow'
  <2>1. PICK b \in BOOLEAN : Go(c, [Idle EXCEPT !.pc = "next", !.locked = b, !.due = AllDue])
    BY <1>7 DEF Tick
  <2> DEFINE t == [Idle EXCEPT !.pc = "next", !.locked = b, !.due = AllDue]
  <2>2. AllDue \in SUBSET Read
    BY DEF AllDue, Read, Row, TypeOK
  <2>3. t \in TickType /\ t.pc = "next" /\ t.due = AllDue
    BY <2>2, SomeTypes DEF TickType, Idle
  <2>4. \A r \in AllDue : StillAsRead(r)
    BY DEF AllDue, Due, StillAsRead, Stored, TypeOK, Row
  <2>5. UNCHANGED <<now, schedule, edit, fired>>
    BY <1>7 DEF Tick
  <2> HIDE DEF t
  <2> QED
    BY <1>0, <2>1, <2>3, <2>4, <2>5, TickOrder DEF Unclaimed, t
<1>8. ASSUME NEW c \in Ticks, Take(c) PROVE OrderNow'
  <2> DEFINE T == tick[c]
  <2>0. T \in TickType
    BY DEF TypeOK, TickType
  <2>1. PICK s \in T.due :
          Go(c, [T EXCEPT !.pc = "claim", !.due = @ \ {s}, !.s = s,
                          !.next = NextFire[s.cron][now]])
    BY <1>8 DEF Take
  <2> DEFINE t == [T EXCEPT !.pc = "claim", !.due = @ \ {s}, !.s = s,
                            !.next = NextFire[s.cron][now]]
  <2>2. s \in Read /\ s.cron \in Crons
    BY <2>0 DEF TickType, Read
  <2>3. /\ NextFire[s.cron][now] \in Nat /\ NextFire[s.cron][now] > now
        /\ OfCadence(s.cron, NextFire[s.cron][now])
    BY <2>2, NowIsOfCadence
  <2>4. t \in TickType /\ t.s = s /\ t.next = NextFire[s.cron][now]
        /\ t.due = T.due \ {s} /\ t.pc = "claim"
    BY <2>0, <2>2, <2>3 DEF TickType
  <2> HIDE DEF t
  <2>5. \A r \in Unclaimed(t) : StillAsRead(r)
    BY <1>0, <2>4 DEF OrderNow, ReadsHold, Unclaimed
  <2>6. t.next > t.s.nextRunAt /\ OfCadence(t.s.cron, t.next)
    BY <1>01, <2>2, <2>3, <2>4, <2>5 DEF StillAsRead, Unclaimed, Read
  <2>7. UNCHANGED <<now, schedule, edit, fired>> /\ Go(c, t)
    BY <1>8, <2>1 DEF Take, t
  <2> QED
    BY <1>0, <2>4, <2>5, <2>6, <2>7, TickOrder
<1>9. ASSUME NEW c \in Ticks, Claim(c) PROVE OrderNow'
  <2> DEFINE T == tick[c]
             s == T.s
             row == [schedule[s.id] EXCEPT !.nextRunAt = T.next]
  <2>0. T \in TickType /\ s \in Read /\ s.id \in Schedules /\ schedule[s.id] \in Row
    BY DEF TypeOK, TickType, Read
  <2>1. StillAsRead(s) /\ T.next > s.nextRunAt /\ OfCadence(s.cron, T.next)
    BY <1>0, <1>9 DEF Claim, At, OrderNow, ReadsHold, NextIsLater, Unclaimed
  <2>2. Stored(s.id) /\ schedule[s.id].nextRunAt = s.nextRunAt /\ schedule[s.id].cron = s.cron
    BY <1>9, <2>1 DEF Claim, Claims, StillAsRead
  <2>3. row \in Row /\ row.exists = "stored" /\ row.nextRunAt = T.next /\ row.cron = s.cron
    BY <2>0, <2>2 DEF Row, TickType, Stored
  <2>4. schedule' = [schedule EXCEPT ![s.id] = row]
    BY <1>9, <2>0 DEF Claim, TypeOK
  <2>5. /\ \A q \in Schedules : fired'[q] = IF q = s.id THEN s.nextRunAt ELSE fired[q]
        /\ UNCHANGED <<now, edit>>
    BY <1>9 DEF Claim, TypeOK
  <2>6. \A d \in Ticks : tick'[d] = IF d = c THEN [T EXCEPT !.pc = "check", !.next = 0] ELSE tick[d]
    BY <1>9 DEF Claim, Go, TypeOK
  <2>7. \A d \in Ticks : \A r \in Unclaimed(tick'[d]) : r \in Unclaimed(tick[d])
    BY <2>0, <2>6 DEF Unclaimed, TickType
  <2>8. \A q \in Schedules : schedule'[q] = IF q = s.id THEN row ELSE schedule[q]
    BY <2>0, <2>4 DEF TypeOK
  <2> HIDE DEF row
  <2>9. ReadsHold'
    <3> SUFFICES ASSUME NEW d \in Ticks, NEW r \in Unclaimed(tick'[d])
                 PROVE  StillAsRead(r)'
      BY DEF ReadsHold, Unclaimed
    <3>1. r \in Read /\ StillAsRead(r)
      BY <1>0, <2>7 DEF OrderNow, ReadsHold, TypeOK, Unclaimed
    <3> QED
      BY <2>0, <2>1, <2>2, <2>3, <2>5, <2>8, <3>1
      DEF StillAsRead, Stored, Read, Row, TickType
  <2>14. \A d \in Ticks : tick'[d].pc = "claim" => tick'[d] = tick[d]
    BY <2>0, <2>6 DEF TickType
  <2>10. NextIsLater'
    BY <1>0, <2>14 DEF OrderNow, NextIsLater, At, OfCadence
  <2>11. FiredBefore'
    BY <1>0, <2>1, <2>3, <2>5, <2>8 DEF OrderNow, FiredBefore, Stored, StillAsRead
  <2>12. OnCadence'
    BY <1>0, <2>1, <2>3, <2>8 DEF OrderNow, OnCadence, Stored, OfCadence
  <2>13. AnchorsAhead'
    BY <1>0, <2>5 DEF OrderNow, AnchorsAhead, OfCadence
  <2> QED
    BY <2>9, <2>10, <2>11, <2>12, <2>13 DEF OrderNow
<1>10. ASSUME NEW c \in Ticks, NEW t \in TickType, Go(c, t), t.pc # "claim",
              t.due \subseteq tick[c].due, UNCHANGED <<now, schedule, edit, fired>>
       PROVE  OrderNow'
  <2>1. \A r \in Unclaimed(t) : StillAsRead(r)
    BY <1>0, <1>10 DEF OrderNow, ReadsHold, Unclaimed
  <2> QED
    BY <1>0, <1>10, <2>1, TickOrder
<1>11. ASSUME NEW c \in Ticks,
              LoseClaim(c) \/ Check(c) \/ Skip(c) \/ Start(c) \/ End(c) \/ Crash(c)
       PROVE  OrderNow'
  <2> DEFINE T == tick[c]
  <2>0. T \in TickType
    BY DEF TypeOK, TickType
  <2> DEFINE Goal(t) == t \in TickType /\ t.pc # "claim" /\ t.due \subseteq T.due
  <2>4. Goal([T EXCEPT !.pc = "next", !.s = SomeRead, !.next = 0])
        /\ Goal([T EXCEPT !.pc = "next", !.s = SomeRead])
        /\ Goal([T EXCEPT !.pc = "start"])
    BY <2>0, SomeTypes DEF TickType
  <2>5. Goal(Idle)
    BY SomeTypes DEF Idle
  <2>1. \A t \in {[T EXCEPT !.pc = "next", !.s = SomeRead, !.next = 0],
                  [T EXCEPT !.pc = "next", !.s = SomeRead],
                  [T EXCEPT !.pc = "start"], Idle} : Goal(t)
    BY <2>4, <2>5
  <2>2. PICK t \in {[T EXCEPT !.pc = "next", !.s = SomeRead, !.next = 0],
                   [T EXCEPT !.pc = "next", !.s = SomeRead],
                   [T EXCEPT !.pc = "start"], Idle} : Go(c, t)
    BY <1>11 DEF LoseClaim, Check, Skip, Start, End, Crash, Continue
  <2>3. UNCHANGED <<now, schedule, edit, fired>>
    BY <1>11 DEF LoseClaim, Check, Skip, Start, End, Crash
  <2> QED
    BY <1>10, <2>1, <2>2, <2>3
<1>12. CASE Passes
  <2>1. \A e \in Edits : edit[e].pc # "anchored"
    BY <1>12 DEF Passes, Failure
  <2>2. now' = now + 1 /\ UNCHANGED <<schedule, tick, edit, fired>>
    BY <1>12 DEF Passes
  <2>3. ReadsHold'
    <3> SUFFICES ASSUME NEW c \in Ticks, NEW r \in Unclaimed(tick[c])
                 PROVE  StillAsRead(r)'
      BY <2>2 DEF ReadsHold, Unclaimed
    <3>1. r \in Read /\ StillAsRead(r)
      BY <1>0 DEF OrderNow, ReadsHold, TypeOK, Unclaimed
    <3> QED
      BY <1>01, <2>2, <3>1 DEF StillAsRead, Stored, Read
  <2>4. FiredBefore'
    BY <1>0, <1>01, <2>2 DEF OrderNow, FiredBefore, Stored, TypeOK
  <2> QED
    BY <1>0, <2>1, <2>2, <2>3, <2>4
    DEF OrderNow, NextIsLater, AnchorsAhead, OnCadence, OfCadence, Stored, At
<1>13. (\E t \in Targets : TesterStarts(t)) \/ (\E r \in live : RunEnds(r)) \/ Expire
       \/ Outlive \/ UNCHANGED vars => UNCHANGED <<now, schedule, tick, edit, fired>>
  BY DEF TesterStarts, RunEnds, Expire, Outlive, vars
<1> QED
  BY <1>1, <1>2, <1>3, <1>4, <1>5, <1>6, <1>7, <1>8, <1>9, <1>11, <1>12, <1>13
  DEF Next, Loop

LEMMA OrderInvariant == Spec => [](TypeOK /\ Order)
<1>1. Init => TypeOK /\ Order
  <2> SUFFICES ASSUME Init PROVE OrderNow
    BY TypeInit DEF Order, OrderNow
  <2>1. ReadsHold /\ NextIsLater
    BY DEF Init, ReadsHold, NextIsLater, Unclaimed, At, Idle
  <2>2. AnchorsAhead
    BY DEF Init, AnchorsAhead, NewEdit
  <2>3. FiredBefore /\ OnCadence
    BY DEF Init, FiredBefore, OnCadence, Stored, NewRow
  <2> QED
    BY <2>1, <2>2, <2>3 DEF OrderNow
<1>2. TypeOK /\ Order /\ [Next]_vars => (TypeOK /\ Order)'
  BY TypeStep, OrderStep
<1> QED
  BY <1>1, <1>2, PTL DEF Spec

\* What a claim finds.
LEMMA ClaimFinds ==
  ASSUME TypeOK, Order, [Next]_vars, "late" \notin failed, NEW c \in Ticks,
         At(c, "claim"), tick'[c].pc = "check"
  PROVE  LET s == tick[c].s IN
         /\ fired[s.id] < s.nextRunAt
         /\ schedule[s.id].enabled = "on"
         /\ schedule[s.id].cron = s.cron /\ schedule[s.id].target = s.target
<1>1. Claims(tick[c].s)
  <2>1. tick'[c] # tick[c]
    BY DEF At
  <2>2. ASSUME NEW d \in Ticks, NEW t, Go(d, t), t.pc # "check" PROVE FALSE
    BY <2>1, <2>2 DEF Go, TypeOK, At
  <2>3. ASSUME NEW d \in Ticks, Tick(d) PROVE FALSE
    BY <2>2, <2>3 DEF Tick, Idle
  <2>4. ASSUME NEW d \in Ticks, Crash(d) PROVE FALSE
    BY <2>2, <2>4 DEF Crash, Idle
  <2>5. ASSUME NEW d \in Ticks, Loop(d) PROVE Claims(tick[c].s)
    <3> DEFINE T == tick[d]
    <3>0. T \in TickType
      BY DEF TypeOK, TickType
    <3>1. \A p, s, n : [T EXCEPT !.pc = "next", !.s = s].pc = "next"
                     /\ [T EXCEPT !.pc = "next", !.s = s, !.next = n].pc = "next"
                     /\ [T EXCEPT !.pc = "start"].pc = "start"
                     /\ [T EXCEPT !.pc = "claim", !.due = @ \ {s}, !.s = s, !.next = n].pc = "claim"
      BY <3>0 DEF TickType
    <3>2. CASE Claim(d)
      BY <2>1, <3>2 DEF Claim, Go, TypeOK
    <3>3. ~Take(d)
      BY <2>2, <3>1 DEF Take
    <3>4. ~LoseClaim(d) /\ ~Check(d) /\ ~Skip(d) /\ ~Start(d) /\ ~End(d)
      BY <2>2, <3>1 DEF LoseClaim, Check, Skip, Start, End, Continue, Idle
    <3> QED
      BY <2>5, <3>2, <3>3, <3>4 DEF Loop
  <2> QED
    BY <2>1, <2>3, <2>4, <2>5 DEF Next, vars, Create, Remove, EditRead, EditAnchor,
       EditWrite, TesterStarts, RunEnds, Passes, Expire, Outlive
<1>2. tick[c].s.id \in Schedules
  BY DEF TypeOK, Read
<1>3. StillAsRead(tick[c].s) /\ FiredBefore
  BY DEF Order, ReadsHold, Unclaimed, At
<1> QED
  BY <1>1, <1>2, <1>3 DEF Claims, StillAsRead, FiredBefore

\* The claim on nextRunAt lets every due time through at most once, whatever
\* becomes of the lock, and in their order.
THEOREM FiresAtMostOnce == Spec => FiresOnce
<1>1. TypeOK /\ Order /\ [Next]_vars =>
        [\A c \in Ticks : LET s == tick[c].s IN
           "late" \notin failed /\ At(c, "claim") /\ tick'[c].pc = "check" =>
             fired[s.id] < s.nextRunAt]_vars
  BY ClaimFinds
<1> QED
  BY <1>1, OrderInvariant, PTL DEF Spec, FiresOnce

\* The claim on nextRunAt also vouches for the other columns read before it.
THEOREM FiresTheStoredRow == Spec => ActsOnWhatItRead
<1>1. TypeOK /\ Order /\ [Next]_vars =>
        [\A c \in Ticks : LET s == tick[c].s IN
           "late" \notin failed /\ At(c, "claim") /\ tick'[c].pc = "check" =>
             /\ schedule[s.id].enabled = "on"
             /\ schedule[s.id].cron = s.cron /\ schedule[s.id].target = s.target]_vars
  BY ClaimFinds
<1> QED
  BY <1>1, OrderInvariant, PTL DEF Spec, ActsOnWhatItRead

\* nextRunAt is always a time of the stored expression.
THEOREM CadenceIsKept == Spec => []KeepsCadence
<1>1. TypeOK /\ Order => KeepsCadence
  BY DEF Order, OnCadence, OfCadence, KeepsCadence
<1> QED
  BY <1>1, OrderInvariant, PTL
=============================================================================
