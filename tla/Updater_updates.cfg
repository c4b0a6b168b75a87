SPECIFICATION Spec
CONSTANTS
  v1 = v1
  v2 = v2
  os1 = os1
  os2 = os2
  Versions <- TwoVersions
  Systems <- TwoSystems
  Needs <- OwnSystem
  Metered <- Either
  Partial = Partial
  None = None
  MaxFaults = 2
  MaxEvents = 2
INVARIANTS InstalledIsComplete InstallationSurvives BuiltOnInstallation
  BackupNeverBlocks
PROPERTIES AgnosReady Converges
CHECK_DEADLOCK FALSE
