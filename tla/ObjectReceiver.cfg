SPECIFICATION Spec
CONSTANTS
  plan = plan
  procedure = procedure
  small = small
  huge = huge
  Garbage = Garbage
  Objects <- MCObjects
  Count <- MCCount
  Fits <- MCFits
  PlanFor <- MCPlanFor
INVARIANTS
  ActivatesWholeObject
