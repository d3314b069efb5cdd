CONSTANTS
  Far = 3
  Surfaces = {1, 2, 4}
  MaxChatter = 1
  MaxKeys = 1
  Targets = {0, 3}
  MaxProbes = 1
SPECIFICATION FairSpec
INVARIANT LeavesNoTrace
INVARIANT ReportsTheContact
INVARIANT ContactStops
PROPERTY ProbeEnds
