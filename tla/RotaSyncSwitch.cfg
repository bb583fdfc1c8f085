SPECIFICATION SyncSpec
CONSTANTS
  Plans = {p1, p2}
  p1 = p1
  p2 = p2
  First = p1
  Modes <- EditingOn
  MaxEdits = 2
  MaxWire = 2
INVARIANT SwitchKeepsEdits
CHECK_DEADLOCK FALSE
