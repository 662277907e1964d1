SPECIFICATION FairSpec
CONSTANTS
  Threads = {t1}
  Kinds = {"message", "resume", "shell", "inline", "abort"}
  MaxSubs = 4
CHECK_DEADLOCK FALSE
INVARIANT TypeOK
INVARIANT NothingDropped
INVARIANT AtMostOneEnd
INVARIANT EntriesAreLive
PROPERTY TurnsAreSerial
PROPERTY EveryTurnEnds
