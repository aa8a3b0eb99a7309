\* Every combination of faults; a call that waits for ever blocks the port.
SPECIFICATION FairSpec
CHECK_DEADLOCK FALSE
CONSTANTS
  FaultSets <- AnyFaults
  MaxPolls = 1
  CloseDuringCall = FALSE
INVARIANTS
  TypeOK
  StopsByItself
PROPERTIES
  QueryAnswered
  CallersAreTold
  CallEnds
