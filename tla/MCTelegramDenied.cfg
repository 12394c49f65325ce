SPECIFICATION TelegramSpec
CONSTANTS
  Tasks = {t1, t2}
  Presses = {b1, b2}
INVARIANTS
  DeniedCallsAreSkipped
CHECK_DEADLOCK FALSE
