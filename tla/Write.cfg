\* Two frames that need up to two write() calls, one retry of a busy write(),
\* any interframe and byte per byte configuration, a finite write timeout.
SPECIFICATION FairSpec
CONSTANTS
  f1 = f1
  f2 = f2
  NoFrame = NoFrame
  InitialPool <- TwoFrames
  Configs <- AllConfigs
  FiniteTimeout = TRUE
  MaxChunks = 2
  MaxWriteTry = 1
INVARIANTS
  TypeOK
  FramesConserved
  FlushSparesNewFramesWithoutGaps
PROPERTIES
  FlushStopsWriting
  Circulation
  QueuedFrameTaken
  AcceptedStopEnds
