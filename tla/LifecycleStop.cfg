SPECIFICATION FairSpec
CONSTANTS
  reader = reader
  writer = writer
  ThreadList <- ReaderAndWriter
  EarlyFailures = FALSE
  MaxCalls = 1
  MaxEvents = 3
PROPERTY
  StopEnds
CHECK_DEADLOCK FALSE
