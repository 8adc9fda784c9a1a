SPECIFICATION Spec
CONSTANTS
  TestRuns = {t1, t2}
  Workers = {w1}
  Callers = {c1, c2}
  Concurrency = 1
  MaxAttempt = 1
  BatchSize = 1
  LadderEnabled = FALSE
  FailFast = TRUE
  Quarantined = {t2}
  Verdicts = {"PASSED", "FAILED"}
  Deliveries = {1}
  UserOps = {"pause", "resume", "stop", "skip", "cancel", "heartbeat"}
  MaxOps = 2
  Faults = {"worker"}
  MaxCrashes = 1
  Sweeps = TRUE
  MaxAge = 2
SYMMETRY Interchangeable
INVARIANTS CancelledIsQuiescent
CHECK_DEADLOCK FALSE
