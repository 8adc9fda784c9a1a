SPECIFICATION FairSpec
CONSTANTS
  each = each
  second = second
  f1 = f1
  f2 = f2
  Schedules = {s1, s2}
  Crons = {each, second}
  Targets = {f1, f2}
  Ticks = {1, 2}
  Edits = {e1}
  Creates <- MCCreates
  Patches <- MCPatches
  NextFire <- MCNextFire
  MaxTime = 2
  MaxLive = 2
  Kinds = {"redis", "expire", "crash", "late"}
  MaxFailures = 1
  MaxOps = 1
INVARIANTS KeepsCadence NeverStacks
PROPERTIES FiresOnce ActsOnWhatItRead DueIsClaimed
CHECK_DEADLOCK FALSE
