SPECIFICATION Spec
CONSTANTS
  QueueSize = 6
  Headroom = 4
  Aline <- MCAline
  Command <- MCCommand
  Line <- MCLine
INVARIANTS
  TypeOK
  NeverOutOfBuffers
  UsedAreTheRunToWrite
  NeverOverPromised
  EmptiedIsExact
PROPERTY IsFifo
CONSTRAINT BeforeWrap
CHECK_DEADLOCK FALSE
