CONSTANTS
  Far = 4
  Surfaces = {2, 9}
  MaxChatter = 1
  MaxKeys = 1
  Travel = 3
  Jobs = {3}
  Backoff = 2
  ZeroBackoff = 1
  MaxHomings = 1
SPECIFICATION FairSpec
INVARIANT MovesStartWhereItStands
INVARIANT HomedAtTheSwitch
PROPERTY HomingEnds
