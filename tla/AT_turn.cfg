SPECIFICATION FairSpec
CONSTANTS
  Rounds = 2
  FastRounds = 2
  MaxBatch = 2
  MaxNudges = 1
  MaxReplans = 1
  MaxSteers = 1
CHECK_DEADLOCK FALSE
INVARIANT TypeOK
INVARIANT ApprovedOnce
INVARIANT NothingIsForgotten
PROPERTY GateHolds
PROPERTY ComplexWorkIsConfirmed
PROPERTY TurnEnds
