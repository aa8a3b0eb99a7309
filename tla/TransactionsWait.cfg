SPECIFICATION FairSpec
CONSTANTS
  QueueSize = 1
  MaxCalls = 2
  MaxQueries = 2
PROPERTIES
  WaitEnds
CHECK_DEADLOCK FALSE
