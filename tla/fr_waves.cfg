SPECIFICATION FairSpec
CONSTANTS
  TestRuns = {t1, t2}
  Workers = {w1, w2}
  Callers = {c1}
  Concurrency = 1
  MaxAttempt = 3
  BatchSize = 1
  LadderEnabled = TRUE
  FailFast = FALSE
  Quarantined = {}
  Verdicts = {"PASSED", "ERROR"}
  Deliveries = {1}
  UserOps = {}
  MaxOps = 0
  Faults = {}
  MaxCrashes = 0
  Sweeps = FALSE
  MaxAge = 0
INVARIANTS StampedPasses
PROPERTIES WaveReports EventuallyComplete
CHECK_DEADLOCK FALSE
