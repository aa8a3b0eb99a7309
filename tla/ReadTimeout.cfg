\* Frames end with a read timeout or when they are complete; the port is set
\* up again before each start, as mdtPortManager does.
SPECIFICATION FairSpec
CONSTANTS
  f1 = f1
  f2 = f2
  NoFrame = NoFrame
  InitialPool <- TwoFrames
  TimeoutProtocol = TRUE
  FreshStart = TRUE
  MaxComplete = 2
INVARIANTS
  TypeOK
  BusyOnlyWhilePolling
PROPERTIES
  Circulation
  FrameDelivered
  ShortageEnds
  AcceptedStopEnds
