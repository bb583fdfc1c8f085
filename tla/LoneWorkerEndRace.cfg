SPECIFICATION Spec
CONSTANTS
  Guards = {g1}
  SessionIds = {1}
  CheckIds = {1,2,3}
  IncidentIds = {1,2,3,4}
  Requests = {r1}
  Sweepers = {w1}
  Rules <- BriskOnly
  DefaultRules <- Brisk
  Tops = {2}
  MaxTime = 3
  MaxAlarms = 1
  MaxLevel = 3
  MaxCrashes = 0
  NamedChecks = FALSE
  Serial = FALSE
PROPERTY NoWalkingAway
