SPECIFICATION RotaSpec
CONSTANTS
  e1 = e1
  e2 = e2
  g1 = g1
  g2 = g2
  Emps = {e1, e2}
  LastDate = 2
  Published = {e1}
  MaxShifts = 3
  InitCell <- FirstCell
  Mixes <- Work
  Guards = {g1, g2}
  Modes <- Disturbed
  MaxRows = 3
INVARIANT RotaTypeOK
INVARIANT AttendanceFollows
INVARIANT RowsCover
INVARIANT AdjustmentsExclusive
INVARIANT RecordKept
INVARIANT PublishedMatches
PROPERTY ImplementsShiftBook
CHECK_DEADLOCK FALSE
