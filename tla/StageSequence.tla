---------------------------- MODULE StageSequence ----------------------------
(***************************************************************************)
(* What pipeline runs promise about their stages, whatever drives them: a  *)
(* run executes its stages in their order and one at a time, each at most  *)
(* once, and decides a stage only while none executes.  A stage that could *)
(* not be started is decided without having been executed.                 *)
(***************************************************************************)
EXTENDS Naturals

CONSTANT Runs

VARIABLES
  at,        \* at[r]: the first stage of run r that is not decided
  started,   \* started[r]: the stages of r that execute or have executed
  busy       \* busy[r]: whether one is executing

sequenceVars == <<at, started, busy>>

SequenceInit ==
  /\ at = [r \in Runs |-> 0]
  /\ started = [r \in Runs |-> {}]
  /\ busy = [r \in Runs |-> FALSE]

Execute(r) ==
  /\ ~busy[r] /\ at[r] \notin started[r]
  /\ started' = [started EXCEPT ![r] = @ \cup {at[r]}]
  /\ busy' = [busy EXCEPT ![r] = TRUE]
  /\ UNCHANGED at

Ended(r) ==
  /\ busy[r] /\ busy' = [busy EXCEPT ![r] = FALSE]
  /\ UNCHANGED <<at, started>>

Decide(r) ==
  /\ ~busy[r] /\ at' = [at EXCEPT ![r] = @ + 1]
  /\ UNCHANGED <<started, busy>>

SequenceNext == \E r \in Runs : Execute(r) \/ Ended(r) \/ Decide(r)

SequenceSpec == SequenceInit /\ [][SequenceNext]_sequenceVars
=============================================================================
