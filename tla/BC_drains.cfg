SPECIFICATION FairSpec
CONSTANTS
  r1 = r1
  r2 = r2
  r3 = r3
  Requests = {r1, r2, r3}
  Outcomes = {"ok", "error"}
  MaxAborts = 2
  Slow = TRUE
  Modal = {r3}
CHECK_DEADLOCK FALSE
INVARIANT TypeOK
INVARIANT SomeDrainGoes
INVARIANT SingleReader
INVARIANT OwnTerminal
INVARIANT DoneIsSettled
PROPERTY DrainsEnd
