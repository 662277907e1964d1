SPECIFICATION Spec
CONSTANTS
  Threads = {t1}
  Kinds = {"message", "abort"}
  MaxSubs = 3
CHECK_DEADLOCK FALSE
INVARIANT CleanupIsComplete
