-------------------------- MODULE ManualSession_proofs ------------------------
(***************************************************************************)
(* For any number of start requests and any requests beside them, a race   *)
(* of manual starts never leaves the tester without a run.                 *)
(***************************************************************************)
EXTENDS ManualSession, TLAPS

Inv == TypeOK /\ RaceInvariant

LEMMA InitInv == Init => Inv
<1> SUFFICES ASSUME Init PROVE Inv
  OBVIOUS
<1> USE StartsAssumption
<1>1. Created = {}
  BY DEF Init, Created
<1>2. TypeOK
  BY DEF Init, TypeOK, Procs, StartSteps, RequestSteps
<1>3. OwnRows
  BY <1>1 DEF Init, OwnRows, Procs
<1>4. LosersHaveWinners /\ WinnersStayActive
  BY <1>1 DEF LosersHaveWinners, WinnersStayActive, Losers
<1> QED
  BY <1>2, <1>3, <1>4 DEF Inv, RaceInvariant

------------------------------------------------------------------------------
(* Types.                                                                  *)
LEMMA StartTypes ==
  ASSUME TypeOK, NEW s \in Starts, StartStep(s)
  PROVE  TypeOK'
<1> USE StartsAssumption DEF TypeOK, Procs, StartSteps, RequestSteps, RowOps,
        FeatureRunStatuses, Goto
<1>1. CASE Guard(s)
  BY <1>1 DEF Guard
<1>2. CASE EndPrevious(s)
  BY <1>2 DEF EndPrevious, EndAll, Active
<1>3. CASE Stamp(s)
  BY <1>3 DEF Stamp
<1>4. CASE Commit(s)
  BY <1>4 DEF Commit
<1>5. CASE Reconcile(s)
  BY <1>5 DEF Reconcile, EndAll
<1> QED
  BY <1>1, <1>2, <1>3, <1>4, <1>5 DEF StartStep

LEMMA RequestTypes ==
  ASSUME TypeOK, NEW p \in Requests, RequestStep(p)
  PROVE  TypeOK'
<1> USE StartsAssumption DEF TypeOK, Procs, StartSteps, RequestSteps, RowOps,
        FeatureRunStatuses, Goto
<1>1. ASSUME NEW op \in RowOps, NEW x \in Starts, RowRead(p, op, x)
      PROVE  TypeOK'
  BY <1>1 DEF RowRead
<1>2. CASE RowWrite(p)
  BY <1>2 DEF RowWrite, SetTarget, Written
<1>3. CASE RequestEnd(p)
  BY <1>3 DEF RequestEnd, EndAll, Active, Created
<1> QED
  BY <1>1, <1>2, <1>3 DEF RequestStep

LEMMA EndingTypes ==
  ASSUME TypeOK, NEW p \in Procs, EndRead(p) \/ EndWrite(p)
  PROVE  TypeOK'
<1> USE StartsAssumption DEF TypeOK, Procs, StartSteps, RequestSteps, RowOps,
        FeatureRunStatuses, Goto
<1>1. /\ p \in Requests => AfterEnding(p) \in RequestSteps
      /\ p \in Starts => AfterEnding(p) \in StartSteps
  BY DEF AfterEnding
<1>2. CASE EndRead(p)
  BY <1>1, <1>2 DEF EndRead, Active
<1>3. CASE EndWrite(p)
  BY <1>1, <1>3 DEF EndWrite, SetTarget
<1> QED
  BY <1>2, <1>3

------------------------------------------------------------------------------
(* Winners stay winners when no start gives way and no row disappears.     *)
LEMMA SameLosers ==
  ASSUME LosersHaveWinners, Losers' = Losers, Created \subseteq Created',
         \A s \in Created : startedAt'[s] = startedAt[s]
  PROVE  LosersHaveWinners'
<1> SUFFICES ASSUME NEW s \in Losers PROVE \E w \in Created' \ Losers' : Before(w, s)'
  BY DEF LosersHaveWinners
<1>1. PICK w \in Created \ Losers : Before(w, s)
  BY DEF LosersHaveWinners
<1>2. s \in Created
  BY DEF Losers
<1>3. Before(w, s)'
  BY <1>1, <1>2 DEF Before
<1> QED
  BY <1>1, <1>3

(* A start that gives way has an earlier run to give way to.  Should that  *)
(* run have given way itself, its own winner is earlier still.             *)
LEMMA NewLoser ==
  ASSUME TypeOK, LosersHaveWinners, NEW s \in Created, NEW t \in Created, t # s,
         Before(t, s), Created' = Created, Losers' = Losers \cup {s}, startedAt' = startedAt
  PROVE  LosersHaveWinners'
<1>1. \A x, y \in Starts : Before(x, y)' <=> Before(x, y)
  BY DEF Before
<1>2. \A x, y, z \in Starts : Before(x, y) /\ Before(y, z) => Before(x, z)
  BY StartsAssumption DEF Before, TypeOK
<1>3. \A x \in Starts : ~Before(x, x)
  BY StartsAssumption DEF Before, TypeOK
<1>4. Created \subseteq Starts /\ Losers \subseteq Created
  BY DEF Created, Losers
<1>5. PICK w \in Created \ (Losers \cup {s}) : Before(w, s)
  <2>1. CASE t \notin Losers
    BY <2>1
  <2>2. CASE t \in Losers
    <3>1. PICK w \in Created \ Losers : Before(w, t)
      BY <2>2 DEF LosersHaveWinners
    <3>2. Before(w, s) /\ w # s
      BY <1>2, <1>3, <1>4, <3>1
    <3> QED
      BY <3>1, <3>2
  <2> QED
    BY <2>1, <2>2
<1>6. SUFFICES ASSUME NEW x \in Losers \cup {s}
               PROVE  \E w2 \in Created \ (Losers \cup {s}) : Before(w2, x)
  BY <1>1, <1>4 DEF LosersHaveWinners
<1>7. CASE x = s
  BY <1>5, <1>7
<1>8. CASE x \in Losers
  <2>1. PICK v \in Created \ Losers : Before(v, x)
    BY <1>8 DEF LosersHaveWinners
  <2>2. CASE v # s
    BY <2>1, <2>2
  <2>3. CASE v = s
    BY <1>2, <1>4, <1>5, <2>1, <2>3
  <2> QED
    BY <2>2, <2>3
<1> QED
  BY <1>7, <1>8

(* Once a request or an allowConcurrent start has begun, it has begun.     *)
LEMMA BegunStaysBegun ==
  ASSUME TypeOK, [Next]_vars
  PROVE  OnlyStarts' => OnlyStarts
<1> USE StartsAssumption DEF TypeOK, Procs, Goto, EndAll
<1>1. SUFFICES ASSUME NEW p \in Procs, pc[p] # "idle" PROVE pc'[p] # "idle"
  BY DEF OnlyStarts
<1>2. ASSUME NEW s \in Starts, StartStep(s) PROVE pc'[p] # "idle"
  BY <1>1, <1>2 DEF StartStep, Guard, EndPrevious, Stamp, Commit, Reconcile
<1>3. ASSUME NEW q \in Requests, RequestStep(q) PROVE pc'[p] # "idle"
  BY <1>1, <1>3 DEF RequestStep, RowRead, RowWrite, RequestEnd, RowOps
<1>4. ASSUME NEW q \in Procs, EndRead(q) \/ EndWrite(q) PROVE pc'[p] # "idle"
  BY <1>1, <1>4 DEF EndRead, EndWrite, AfterEnding
<1>5. CASE Tick \/ UNCHANGED vars
  BY <1>1, <1>5 DEF Tick, vars
<1> QED
  BY <1>2, <1>3, <1>4, <1>5 DEF Next

------------------------------------------------------------------------------
LEMMA StartInv ==
  ASSUME Inv, NEW s \in Starts, StartStep(s), OnlyStarts' => OnlyStarts
  PROVE  RaceInvariant'
<1> USE StartsAssumption DEF Inv, RaceInvariant, TypeOK, Procs, Goto
<1>1. CASE Guard(s)
  <2> USE <1>1 DEF Guard
  <2>1. Created' = Created /\ Losers' = Losers /\ Active' = Active
    BY DEF Created, Losers, Active, OwnRows
  <2>2. OwnRows'
    BY <2>1 DEF OwnRows
  <2>3. LosersHaveWinners'
    BY <2>1, SameLosers
  <2> QED
    BY <2>1, <2>2, <2>3 DEF WinnersStayActive
<1>2. CASE EndPrevious(s)
  <2> USE <1>2 DEF EndPrevious, EndAll
  <2>1. Created' = Created /\ Active' = Active
    BY DEF Created, Active
  <2>2. Losers' = Losers
    BY <2>1 DEF Losers, OwnRows
  <2>3. OwnRows'
    BY <2>1 DEF OwnRows
  <2>4. LosersHaveWinners'
    BY <2>1, <2>2, SameLosers
  <2> QED
    BY <2>1, <2>2, <2>3, <2>4 DEF WinnersStayActive
<1>3. CASE Stamp(s)
  <2> USE <1>3 DEF Stamp
  <2>1. Created' = Created /\ Active' = Active /\ s \notin Created
    BY DEF Created, Active, OwnRows
  <2>2. Losers' = Losers
    BY <2>1 DEF Losers
  <2>3. OwnRows'
    BY <2>1 DEF OwnRows
  <2>4. \A x \in Created : startedAt'[x] = startedAt[x]
    BY <2>1 DEF Created
  <2>5. LosersHaveWinners'
    BY <2>1, <2>2, <2>4, SameLosers
  <2> QED
    BY <2>1, <2>2, <2>3, <2>5 DEF WinnersStayActive
<1>4. CASE Commit(s)
  <2> USE <1>4 DEF Commit
  <2>1. Created' = Created \cup {s} /\ s \notin Created
    BY DEF Created, OwnRows
  <2>2. Losers' = Losers
    BY <2>1 DEF Losers
  <2>3. Active' = Active \cup {s}
    BY DEF Active, ACTIVE_FEATURE_RUN
  <2>4. OwnRows'
    BY <2>1 DEF OwnRows
  <2>5. LosersHaveWinners'
    BY <2>1, <2>2, SameLosers
  <2> QED
    BY <2>1, <2>2, <2>3, <2>4, <2>5 DEF WinnersStayActive
<1>5. CASE Reconcile(s) /\ ~Loses(s)
  <2> USE <1>5 DEF Reconcile
  <2>1. Created' = Created /\ Losers' = Losers /\ Active' = Active
    BY DEF Created, Losers, Active
  <2>2. OwnRows'
    BY <2>1 DEF OwnRows
  <2>3. LosersHaveWinners'
    BY <2>1, SameLosers
  <2> QED
    BY <2>1, <2>2, <2>3 DEF WinnersStayActive
<1>6. CASE Reconcile(s) /\ Loses(s)
  <2> USE <1>6 DEF Reconcile, EndAll
  <2>1. Created' = Created /\ Active' = Active
    BY DEF Created, Active
  <2>2. PICK t \in Active \ {s} : Before(t, s)
    BY DEF Loses
  <2>3. t \in Created /\ s \notin Losers
    BY DEF Active, Created, Losers, ACTIVE_FEATURE_RUN
  <2>4. s \in Created \ Concurrent
    BY DEF OwnRows
  <2>5. Losers' = Losers \cup {s}
    <3>1. pc' = [pc EXCEPT ![s] = "endRead"]
      OBVIOUS
    <3>2. pc'[s] = "endRead" /\ \A x \in Starts : x # s => pc'[x] = pc[x]
      BY <3>1
    <3>3. Created \subseteq Starts
      BY DEF Created
    <3> QED
      BY ONLY <2>1, <2>4, <3>2, <3>3 DEF Losers
  <2>6. OwnRows'
    BY <2>1, <2>4 DEF OwnRows
  <2>7. LosersHaveWinners'
    BY <2>1, <2>2, <2>3, <2>4, <2>5, NewLoser
  <2> QED
    BY <2>1, <2>5, <2>6, <2>7 DEF WinnersStayActive
<1> QED
  BY <1>1, <1>2, <1>3, <1>4, <1>5, <1>6 DEF StartStep

LEMMA RequestInv ==
  ASSUME Inv, NEW p \in Requests, RequestStep(p)
  PROVE  RaceInvariant'
<1> USE StartsAssumption DEF Inv, RaceInvariant, TypeOK, Procs, Goto
<1>1. pc'[p] # "idle" /\ p \notin Starts
  BY DEF RequestStep, RowRead, RowWrite, RequestEnd, EndAll, RowOps
<1>2. ~OnlyStarts'
  BY <1>1 DEF OnlyStarts
<1>3. /\ \A s \in Starts : pc'[s] = pc[s] /\ todo'[s] = todo[s]
      /\ \A s \in Starts : target'[s] = target[s]
      /\ startedAt' = startedAt
  BY <1>1 DEF RequestStep, RowRead, RowWrite, RequestEnd, EndAll, SetTarget
<1>4. Created' = Created /\ \A q \in Procs : target'[q] \subseteq Created
  <2>1. ASSUME NEW op \in RowOps, NEW x \in Starts, RowRead(p, op, x)
        PROVE  Created' = Created /\ \A q \in Procs : target'[q] \subseteq Created
    BY <2>1 DEF RowRead, Created, OwnRows
  <2>2. CASE RowWrite(p)
    BY <2>2 DEF RowWrite, SetTarget, Created, OwnRows, Written, RowOps
  <2>3. CASE RequestEnd(p)
    BY <2>3 DEF RequestEnd, EndAll, Created, OwnRows
  <2> QED
    BY <2>1, <2>2, <2>3 DEF RequestStep
<1>5. Losers' = Losers
  BY <1>3, <1>4 DEF Losers, Created
<1>6. OwnRows'
  BY <1>3, <1>4 DEF OwnRows
<1>7. LosersHaveWinners'
  BY <1>3, <1>4, <1>5, SameLosers
<1> QED
  BY <1>2, <1>6, <1>7 DEF WinnersStayActive

LEMMA EndingInv ==
  ASSUME Inv, NEW p \in Procs, EndRead(p) \/ EndWrite(p), OnlyStarts' => OnlyStarts
  PROVE  RaceInvariant'
<1> USE StartsAssumption DEF Inv, RaceInvariant, TypeOK, Procs, Goto
<1>1. startedAt' = startedAt
  BY DEF EndRead, EndWrite
<1>2. Created' = Created /\ \A q \in Procs : target'[q] \subseteq Created
  <2>1. CASE EndRead(p)
    BY <2>1 DEF EndRead, Created, OwnRows, Active, ACTIVE_FEATURE_RUN
  <2>2. CASE EndWrite(p)
    BY <2>2 DEF EndWrite, SetTarget, Created, OwnRows
  <2> QED
    BY <2>1, <2>2
<1>3. /\ \A s \in Starts : s # p =>
           pc'[s] = pc[s] /\ todo'[s] = todo[s] /\ target'[s] = target[s]
      /\ p \in Starts => /\ todo'[p] \cup target'[p] \subseteq todo[p] \cup target[p]
                         /\ pc[p] \in {"endRead", "endWrite"}
                         /\ pc'[p] \in {"endRead", "endWrite", AfterEnding(p)}
  BY DEF EndRead, EndWrite, SetTarget
<1>4. p \in Starts => /\ p \in Created => AfterEnding(p) = "lost"
                      /\ p \notin Created => AfterEnding(p) = "stamp"
  BY DEF AfterEnding, Created
<1>5. Losers' = Losers
  BY <1>2, <1>3, <1>4 DEF Losers, Created
<1>6. OwnRows'
  BY <1>2, <1>3, <1>4 DEF OwnRows
<1>7. LosersHaveWinners'
  BY <1>1, <1>2, <1>5, SameLosers
<1>8. WinnersStayActive'
  <2> SUFFICES ASSUME OnlyStarts' PROVE Created \ Losers \subseteq Active'
    BY <1>2, <1>5 DEF WinnersStayActive
  <2>1. OnlyStarts /\ p \in Starts \ Concurrent
    BY DEF OnlyStarts, EndRead, EndWrite
  <2>2. p \in Losers
    BY <1>3, <2>1 DEF OwnRows, Losers
  <2>3. \A s \in Starts : s # p => status'[s] = status[s]
    BY <2>1 DEF EndRead, EndWrite, SetTarget, OwnRows
  <2> QED
    BY <2>1, <2>2, <2>3 DEF WinnersStayActive, Active, Created
<1> QED
  BY <1>6, <1>7, <1>8

LEMMA IdleInv ==
  ASSUME Inv, Tick \/ UNCHANGED vars
  PROVE  Inv'
<1> USE DEF Inv, RaceInvariant, Tick, vars
<1>1. TypeOK'
  BY OpsAssumption DEF TypeOK
<1>2. Created' = Created /\ Active' = Active /\ Losers' = Losers
  BY DEF Created, Active, Losers
<1>3. OwnRows'
  BY <1>2 DEF OwnRows
<1>4. LosersHaveWinners'
  BY <1>2, SameLosers
<1>5. WinnersStayActive'
  BY <1>2 DEF WinnersStayActive, OnlyStarts
<1> QED
  BY <1>1, <1>3, <1>4, <1>5

(* Every step preserves the types and the race invariant.                  *)
LEMMA NextInv == Inv /\ [Next]_vars => Inv'
<1> SUFFICES ASSUME Inv, [Next]_vars PROVE Inv'
  OBVIOUS
<1>1. OnlyStarts' => OnlyStarts
  BY BegunStaysBegun DEF Inv
<1>2. ASSUME NEW s \in Starts, StartStep(s) PROVE Inv'
  BY <1>1, <1>2, StartTypes, StartInv DEF Inv
<1>3. ASSUME NEW p \in Requests, RequestStep(p) PROVE Inv'
  BY <1>3, RequestTypes, RequestInv DEF Inv
<1>4. ASSUME NEW p \in Procs, EndRead(p) \/ EndWrite(p) PROVE Inv'
  BY <1>1, <1>4, EndingTypes, EndingInv DEF Inv
<1>5. CASE Tick \/ UNCHANGED vars
  BY <1>5, IdleInv
<1> QED
  BY <1>2, <1>3, <1>4, <1>5 DEF Next

(* Types hold throughout: the steps of one request never leave another at  *)
(* a step its own procedure does not have, and end only rows of starts.    *)
THEOREM SessionTypes == Spec => []TypeOK
<1>1. Inv => TypeOK
  BY DEF Inv
<1> QED
  BY InitInv, NextInv, <1>1, PTL DEF Spec

(* The reconciliation is sound: a start gives way only to an earlier run   *)
(* that stays, and only requests other than racing starts end such a run.  *)
THEOREM Reconciliation == Spec => []RaceInvariant
<1>1. Inv => RaceInvariant
  BY DEF Inv
<1> QED
  BY InitInv, NextInv, <1>1, PTL DEF Spec

(* However many start requests race, on however many API processes, at     *)
(* least one of the runs they create survives.                             *)
THEOREM RaceLeavesARun == Spec => []NeverZero
<1>1. Inv => NeverZero
  <2> SUFFICES ASSUME Inv, OnlyStarts, NEW c \in Created PROVE Active \ Losers # {}
    BY DEF NeverZero
  <2>1. \E w \in Created : w \notin Losers
    BY DEF Inv, RaceInvariant, LosersHaveWinners
  <2> QED
    BY <2>1 DEF Inv, RaceInvariant, WinnersStayActive
<1> QED
  BY InitInv, NextInv, <1>1, PTL DEF Spec
==============================================================================
