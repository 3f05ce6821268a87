\* The instance ends after MaxRelease releases.
CHECK_DEADLOCK FALSE
SPECIFICATION PackageSpec
CONSTANTS
  ArmingTime = 2
  DrogueBackup = 3
  MainBackup = 5
  Separation = 2
  EpochSpan = 5
  AidAge = 1
  MaxRelease = 6
INVARIANTS
  ActuationIsFresh
  DeploymentsInOrder
  BackupIsNotSilent
PROPERTIES
  SafeIsFinal
