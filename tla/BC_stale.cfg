SPECIFICATION Spec
CONSTANTS
  r1 = r1
  r2 = r2
  Requests = {r1, r2}
  Outcomes = {"ok", "error"}
  MaxAborts = 0
  Slow = FALSE
  Modal = {}
CHECK_DEADLOCK FALSE
INVARIANT NoStaleTerminal
