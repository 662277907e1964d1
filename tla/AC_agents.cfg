SPECIFICATION FairSpec
CONSTANTS
  MaxAgents = 3
  MaxConcurrent = 1
  MaxRestarts = 1
CHECK_DEADLOCK FALSE
INVARIANT TypeOK
INVARIANT NoPlaceLeaks
INVARIANT RowsTellTheTruth
INVARIANT ToldIsStored
PROPERTY EveryAgentReports
