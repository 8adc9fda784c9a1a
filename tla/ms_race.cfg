SPECIFICATION Spec
CONSTANTS
  s1 = s1
  s2 = s2
  s3 = s3
  s4 = s4
  Starts = {s1, s2, s3, s4}
  Concurrent = {s4}
  Requests = {q1}
  Ops = {"stop", "pause", "resume", "finish", "abandon", "endAll"}
  IdRank <- MCIdRank
  MaxClock = 1
INVARIANTS TypeOK RaceInvariant NeverZero
CHECK_DEADLOCK FALSE
