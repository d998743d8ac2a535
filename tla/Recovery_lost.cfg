CONSTANTS
  N = 2
  Rows = {a}
  None = None
  MAX_LOG_CMD_COUNT = 3
  MaxWrites = 2
  MaxInFlight = 1
  MaxFaults = 1
  MaxDown = 1
SPECIFICATION Spec
CHECK_DEADLOCK FALSE
INVARIANTS
  AnsweredHeldRecovered
