SPECIFICATION FairSpec
CONSTANTS
  Runs = {r1}
  Calls = {1,2,3}
  Last = 1
  Policies <- Uniform
  Faults = {"crash","refuse","cancel","expire","redis"}
  MaxFaults = 1
  Ops = {"stop","stall"}
  MaxOps = 1
  MaxFeatureRuns = 4
INVARIANTS TypeOK Attribution StageOnce VerdictIsEarned HaltHolds
PROPERTIES ImplementsSequence EventuallyEnds
CHECK_DEADLOCK FALSE
