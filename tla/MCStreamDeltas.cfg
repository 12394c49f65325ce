SPECIFICATION StreamSpec
CONSTANTS
  PipeCap = 1
  MaxPieces = 2
  MaxAsks = 2
INVARIANTS
  PartsMakeTheAnswer
CHECK_DEADLOCK FALSE
