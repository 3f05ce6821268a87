SPECIFICATION GMSpec
CONSTANTS
  ArmingTime = 2
  DrogueBackup = 7
  MainBackup = 9
  Separation = 2
  EpochSpan = 16
  AidAge = 1
  MaxRelease = 12
  Burnout = 2
  Cadence = 2
  MaxDropout = 3
CHECK_DEADLOCK FALSE
INVARIANTS
  FramesAgree
  DeploysAsCommanded
  CleanFlightRecovers
