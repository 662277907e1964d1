SPECIFICATION FairSpec
CONSTANTS
  r1 = r1
  Requests = {r1}
  Outcomes = {"ok"}
  MaxAborts = 1
  Slow = TRUE
  Modal = {}
CHECK_DEADLOCK FALSE
PROPERTY EveryDrainEnds
