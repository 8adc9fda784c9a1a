SPECIFICATION Spec
CONSTANTS
  s1 = s1
  s2 = s2
  s3 = s3
  s4 = s4
  Starts = {s1, s2}
  Concurrent = {}
  Requests = {}
  Ops = {}
  IdRank <- MCIdRank
  MaxClock = 1
INVARIANTS NeverTwo
CHECK_DEADLOCK FALSE
