CONSTANTS
  Slots = 3
  Lines <- MCLines
  MaxTexts = 7
  MaxHolds = 2
SPECIFICATION Spec
INVARIANTS OwnText RoomComesBack
CHECK_DEADLOCK FALSE
