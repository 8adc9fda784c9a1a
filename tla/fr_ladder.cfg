SPECIFICATION Spec
CONSTANTS
  TestRuns = {t1, t2}
  Workers = {w1, w2}
  Callers = {c1, c2}
  Concurrency = 2
  MaxAttempt = 3
  BatchSize = 1
  LadderEnabled = TRUE
  FailFast = FALSE
  Quarantined = {}
  Verdicts = {"PASSED", "FAILED"}
  Deliveries = {1}
  UserOps = {}
  MaxOps = 0
  Faults = {"worker", "stall", "connect", "api", "event"}
  MaxCrashes = 1
  Sweeps = FALSE
  MaxAge = 0
SYMMETRY AllInterchangeable
INVARIANTS TypeOK AttemptOnce WaveOwnership ExclusiveExecution
PROPERTIES ImplementsLadder
CHECK_DEADLOCK FALSE
