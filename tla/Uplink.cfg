SPECIFICATION FairSpec
CONSTANTS
  plan = plan
  otherPlan = otherPlan
  enu = enu
  ecef = ecef
  apogee = apogee
  Plan <- plan
  Plans <- MCPlans
  Frames <- MCFrames
  Events <- MCEvents
  LoadIds <- MCLoadIds
  Loads <- MCLoads
  Requests <- MCRequests
  MaxEpoch = 8
INVARIANTS
  TypeOK
  ExecutesAsCommitted
  CommittedNotOverdue
  NoRepeatInSuccession
  ReceiptsAreEarned
PROPERTIES
  CommittedSurvives
  CommittedGetsExecuted
  SlotIsFreed
