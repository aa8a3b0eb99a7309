\* Without the timeout protocol select() has no timeout.
SPECIFICATION FairSpec
CONSTANTS
  f1 = f1
  f2 = f2
  NoFrame = NoFrame
  InitialPool <- TwoFrames
  TimeoutProtocol = FALSE
  FreshStart = TRUE
  MaxComplete = 1
PROPERTIES
  AcceptedStopEnds
