SPECIFICATION Spec
CONSTANTS
  Ids <- MCIds
  Drafts <- MCDrafts
  Plans <- MCPlans
  MaxParallel = 2
  MaxStalls = 3
  MaxSteps = 2
  MaxFixPasses = 2
INVARIANTS
  InjectedStepsFrameThePlan
  FixClaimIsEarned
  AnswerHasEveryResult
PROPERTIES
  PipelineReturns
CHECK_DEADLOCK FALSE
