SPECIFICATION Spec
CONSTANTS
  Threads = {t1}
  Kinds = {"message", "inline"}
  MaxSubs = 3
CHECK_DEADLOCK FALSE
INVARIANT ShellsAreRun
