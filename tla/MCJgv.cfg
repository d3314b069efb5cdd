CONSTANTS
  MaxSpeed = 2
  Ramp = 1
  Orders <- MCOrders
  Positions = 5
  Limits = TRUE
  Depth = 1
  FullAt = 2
  WatchdogTime = 2
  BlockTimeout = 1
  StartupPace = 2
  PassTime = 1
  MaxInterruptions = 1
SPECIFICATION FairSpec
INVARIANT SegmentsJoin
INVARIANT LagIsBounded
INVARIANT JobGetsItsModesBack
PROPERTY SilenceEndsJog
