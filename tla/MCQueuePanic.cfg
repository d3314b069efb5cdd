SPECIFICATION Spec
CONSTANTS
  QueueSize = 6
  Headroom = 4
  Aline <- MCAline
  Command <- MCCommand
  Line <- MCLine
INVARIANT ABufferIsAlwaysFound
CHECK_DEADLOCK FALSE
