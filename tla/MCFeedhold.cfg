SPECIFICATION Spec
CONSTANTS
  Keys = {"!", "~", "%", "^D", "alarm"}
  CoolantPauses = TRUE
  MaxBlocks = 2
  MaxSegments = 2
INVARIANTS TypeOK P2OnlyInHold ParkedIsStill
PROPERTIES HeldJobIsKept FlushDropsTheJob
