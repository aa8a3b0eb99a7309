\* A thread that sleeps between frames, or between bytes.
SPECIFICATION Spec
CONSTANTS
  f1 = f1
  f2 = f2
  NoFrame = NoFrame
  InitialPool <- TwoFrames
  Configs <- AllConfigs
  FiniteTimeout = TRUE
  MaxChunks = 1
  MaxWriteTry = 1
INVARIANTS
  FlushSparesNewFrames
