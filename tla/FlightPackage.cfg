SPECIFICATION PSpec
CONSTANTS
  plan = plan
  otherPlan = otherPlan
  enu = enu
  ecef = ecef
  Plan <- plan
  Plans <- MCPlans
  Frames <- MCFrames
  Events = {}
  LoadIds <- MCLoadIds
  Loads <- MCLoads
  Requests <- MCRequests
  Argument <- MCArgument
  MaxEpoch = 6
  Capacity = 3
  PredictionPeriod = 4
INVARIANTS
  PredictionIsCurrent
PROPERTIES
  OnlyCommitsChangeState
  ExecutionIsJournalled
