SPECIFICATION FairSpec
CONSTANTS
  Guards = {g1}
  SessionIds = {1}
  CheckIds = {1,2}
  IncidentIds = {1,2}
  Requests = {r1}
  Sweepers = {w1}
  Rules <- BriskOnly
  DefaultRules <- Brisk
  Tops = {2}
  MaxTime = 2
  MaxAlarms = 0
  MaxLevel = 2
  MaxCrashes = 1
  NamedChecks = FALSE
  Serial = FALSE
PROPERTY OverdueIsFound
PROPERTY LadderClimbs
INVARIANT MissedIsAlarmed
