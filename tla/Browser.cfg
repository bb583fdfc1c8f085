SPECIFICATION BrowserSpec
CONSTANTS
  p1 = p1
  p2 = p2
  t1 = t1
  t2 = t2
  DayLen = 6
  Breaks = {0, 1}
  MaxLate = 3
  Agreed = 2
  DayMinutes = 3
  LastDay = 3
  MaxShifts = 2
  Plans = {p1, p2}
  First = p1
  Modes <- PlanModes
  MaxEdits = 2
  MaxWire = 2
  Tabs = {t1, t2}
  MaxTokens = 2
INVARIANT BrowserTypeOK
INVARIANT HoursAdd
INVARIANT TimesRestored
INVARIANT WarnedIsMarked
INVARIANT MarkedIffShared
INVARIANT NoForeign
INVARIANT LeftIsSaved
INVARIANT TabsAgree
PROPERTY EventuallySaved
PROPERTY SignOutSpreads
CHECK_DEADLOCK FALSE
