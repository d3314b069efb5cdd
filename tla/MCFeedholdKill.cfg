SPECIFICATION FairSpec
CONSTANTS
  Keys = {"!", "%", "^D", "alarm"}
  CoolantPauses = TRUE
  MaxBlocks = 2
  MaxSegments = 2
PROPERTIES KillIsServed
