SPECIFICATION Spec
CONSTANTS
  Guards = {g1}
  SessionIds = {1,2}
  CheckIds = {1,2}
  IncidentIds = {1,2,3}
  Requests = {r1}
  Sweepers = {w1}
  Rules <- BriskAndPatient
  DefaultRules <- Brisk
  Tops = {2}
  MaxTime = 2
  MaxAlarms = 1
  MaxLevel = 2
  MaxCrashes = 0
  NamedChecks = FALSE
  Serial = TRUE
INVARIANT TypeOK
INVARIANT OneActivePerGuard
INVARIANT OnePendingCheck
INVARIANT EndedHasNoPending
PROPERTY RecordedIsFinal
PROPERTY ResolvedIsFinal
PROPERTY MonitoringKept
PROPERTY NeverMissedEarly
PROPERTY LadderPaced
PROPERTY ImplementsMonitoring
