SPECIFICATION Spec
CONSTANTS
  Ids <- MCIds
  Drafts <- MCCleanDrafts
  Plans <- MCCleanPlans
  MaxParallel = 2
  MaxStalls = 3
  MaxSteps = 3
  MaxFixPasses = 2
INVARIANT
  TrippedTaskStops
CHECK_DEADLOCK FALSE
