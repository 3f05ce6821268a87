SPECIFICATION SSpec
CONSTANTS
  plan = plan
  enu = enu
  ecef = ecef
  Plan <- plan
  Plans <- MCPlans
  Frames <- MCFrames
  Events = {}
  LoadIds <- MCLoadIds
  Loads <- MCLoads
  Requests = {}
  Argument <- MCArgument
  MaxEpoch = 14
  Capacity = 1
  PredictionPeriod = 16
  WindowOpen = 0
  WindowClose = 7
  UpdateStage = 1
  UpdateEffective = 3
  BranchStage = 4
  BranchEffective = 6
  Lead = 3
  Margin = 0
  StepTimeout = 8
  MaxReleases = 11
  Estimates <- MCEstimates
CHECK_DEADLOCK FALSE
INVARIANTS
  MirrorAgrees
  ProcedureFollowsUplink
  WindowIsRespected
  DispositionIsEarned
PROPERTIES
  ReviewPrecedesCommit
  ProcedureResolves
