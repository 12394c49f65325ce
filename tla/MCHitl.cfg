SPECIFICATION Spec
CONSTANTS
  Tasks = {t1, t2}
  Sessions = {o1, o2}
  QueueCap = 1
  None = None
  MaxRetries = 1
INVARIANTS
  AcceptedHintsAccountedFor
  RejectedOnlyWithReason
  WaitersAreTheOpenCalls
  HelpOnlyWhenStuck
  LessonsAreEarned
  ResultMatchesHub
PROPERTIES
  EveryTaskReturns
  ImplementsExchange
CHECK_DEADLOCK FALSE
