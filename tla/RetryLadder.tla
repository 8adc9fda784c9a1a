----------------------------- MODULE RetryLadder -----------------------------
(***************************************************************************)
(* What the retry ladder promises about how often tests execute, however   *)
(* its implementation is interleaved, crashed, redelivered or resumed:     *)
(* waves open one after another up to a fixed number, and a test executes  *)
(* at most once in each wave, never in a wave that has not opened.         *)
(***************************************************************************)
EXTENDS Naturals

CONSTANTS
  TestRuns,     \* the tests of one feature run
  MaxAttempt    \* the number of waves

VARIABLES
  opened,       \* the last wave that has opened
  executed      \* executed[r][a]: how often r has executed in wave a

ladderVars == <<opened, executed>>

Waves == 1..MaxAttempt

LadderInit ==
  /\ opened = 1
  /\ executed = [r \in TestRuns |-> [a \in Waves |-> 0]]

OpenWave ==
  /\ opened < MaxAttempt
  /\ opened' = opened + 1
  /\ UNCHANGED executed

Execute(r, a) ==
  /\ a <= opened
  /\ executed[r][a] = 0
  /\ executed' = [executed EXCEPT ![r][a] = 1]
  /\ UNCHANGED opened

LadderNext ==
  \/ OpenWave
  \/ \E r \in TestRuns, a \in Waves : Execute(r, a)

LadderSpec == LadderInit /\ [][LadderNext]_ladderVars
==============================================================================
