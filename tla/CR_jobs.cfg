SPECIFICATION FairSpec
CONSTANTS
  Jobs = {a, b}
  Schedulers = {g, h}
  Editors = {d}
  NoJob = none
  Torn = torn
  Every = 1
  MaxNow = 2
  MaxEdits = 2
  MaxStarts = 2
CHECK_DEADLOCK FALSE
INVARIANT TypeOK
PROPERTY OneShotOnce
PROPERTY DueJobsRun
