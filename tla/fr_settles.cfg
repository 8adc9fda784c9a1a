SPECIFICATION FairSpec
CONSTANTS
  TestRuns = {t1, t2}
  Workers = {w1}
  Callers = {c1, c2}
  Concurrency = 1
  MaxAttempt = 1
  BatchSize = 1
  LadderEnabled = FALSE
  FailFast = FALSE
  Quarantined = {}
  Verdicts = {"PASSED"}
  Deliveries = {0, 1}
  UserOps = {"pause"}
  MaxOps = 1
  Faults = {"worker", "event", "api", "publish"}
  MaxCrashes = 1
  Sweeps = TRUE
  MaxAge = 2
PROPERTIES EventuallySettled
CHECK_DEADLOCK FALSE
