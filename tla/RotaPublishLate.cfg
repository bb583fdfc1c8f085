SPECIFICATION PublicationSpec
CONSTANTS
  g1 = g1
  Guards = {g1}
  MaxRows = 3
  Modes <- Late
INVARIANT SingleAnswer
CHECK_DEADLOCK FALSE
