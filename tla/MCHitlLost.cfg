SPECIFICATION Spec
CONSTANTS
  Tasks = {t1}
  Sessions = {o1}
  QueueCap = 1
  None = None
  MaxRetries = 1
INVARIANT
  AcceptedHintReachesAgent
CHECK_DEADLOCK FALSE
