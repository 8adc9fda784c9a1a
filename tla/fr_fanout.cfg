SPECIFICATION Spec
CONSTANTS
  TestRuns = {t1, t2, t3, t4}
  Workers = {w1, w2}
  Callers = {c1, c2}
  Concurrency = 1
  MaxAttempt = 1
  BatchSize = 1
  LadderEnabled = FALSE
  FailFast = FALSE
  Quarantined = {}
  Verdicts = {"PASSED"}
  Deliveries = {3}
  UserOps = {}
  MaxOps = 0
  Faults = {"worker"}
  MaxCrashes = 1
  Sweeps = FALSE
  MaxAge = 0
SYMMETRY AllInterchangeable
INVARIANTS WithinBudget CompleteMeansFinished
PROPERTIES PassedStays
CHECK_DEADLOCK FALSE
