\* Frames end when they are complete, one at most per read; the thread is
\* started again on a port that was not set up again, as the port tests do.
\* A thread that is stopped before its first frame keeps the mutex: nothing
\* can go on after that, so the system may stop.
SPECIFICATION Spec
CHECK_DEADLOCK FALSE
CONSTANTS
  f1 = f1
  f2 = f2
  NoFrame = NoFrame
  InitialPool <- TwoFrames
  TimeoutProtocol = FALSE
  FreshStart = FALSE
  MaxComplete = 1
INVARIANTS
  FramesConserved
PROPERTIES
  FlushDropsCurrent
