SPECIFICATION FairSpec
CONSTANTS
  reader = reader
  writer = writer
  ThreadList <- ReaderAndWriter
  EarlyFailures = FALSE
  MaxCalls = 2
  MaxEvents = 2
INVARIANTS
  TypeOK
  StoppedMeansIdle
  ThreadsUseOpenPort
PROPERTIES
  FatalErrorStopsAll
  StoppingEnds
  StartEnds
CHECK_DEADLOCK FALSE
