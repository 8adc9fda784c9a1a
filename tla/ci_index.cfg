SPECIFICATION FairSpec
CONSTANTS
  Requests = {q1, q2}
  Indexers = {1, 2}
  Batches = 2
  MaxFingerprint = 2
  Kinds = {"enqueue", "added", "api", "aborted", "error", "denied", "crash", "unacked", "stall", "slow", "ack", "purge", "edit", "remove"}
  MaxBeside = 1
  MaxGeneration = 2
  MaxCommit = 2
INVARIANTS TypeOK ServedWhole Refreshed Reembedded Tidy
PROPERTIES NeverBack EverSettles
CHECK_DEADLOCK FALSE
