SPECIFICATION FairDispatchSpec
CONSTANTS
  Ids <- MCIds
  Plans <- MCPlans
  MaxParallel = 2
  MaxStalls = 2
INVARIANTS
  PriorsStayTrue
  StuckMeansMalformed
  CompleteMeansAll
  StalledTaskStops
PROPERTIES
  ImplementsGraph
  DispatchReturns
CHECK_DEADLOCK FALSE
