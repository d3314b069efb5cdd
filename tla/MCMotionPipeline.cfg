SPECIFICATION FairSpec
CONSTANTS
  Kinds = {"move", "zero length", "command", "dwell"}
  FullAt = 3
  MaxSegments = 2
INVARIANTS
  TypeOK
  PreparedIsLoadedOnce
  StagedCommandIsRunBlock
  NextMoveHasItsRamps
  MovesAreInCycle
PROPERTIES
  BlocksRun
  CycleEnds
