SPECIFICATION FairSpec
CONSTANTS
  QueueSize = 2
  MaxCalls = 2
  MaxQueries = 3
INVARIANTS
  TypeOK
  TransactionsConserved
  RepliesMatch
  NoOrphans
  MutexReleased
PROPERTIES
  LastWaitEnds
  TimeoutMakesRoom
  ClosedReleases
CHECK_DEADLOCK FALSE
