CONSTANTS
  Items = {"stat", "posx"}
  Buffers = 2
  MaxChanges = 3
  MaxBlocks = 2
  MaxQueries = 1
SPECIFICATION FairSpec
INVARIANTS DepthIsReported
PROPERTY HostIsCurrent
