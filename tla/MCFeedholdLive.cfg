SPECIFICATION FairSpec
CONSTANTS
  Keys = {"!", "~", "%", "alarm"}
  CoolantPauses = TRUE
  MaxBlocks = 2
  MaxSegments = 2
INVARIANTS ExitChainFits
PROPERTIES Settles FlushEndsTheHold AlarmIsEntered
