CONSTANTS
  N = 3
  Rows = {a, b}
  None = None
  MAX_LOG_CMD_COUNT = 2
  MaxWrites = 2
  MaxInFlight = 1
  MaxFaults = 2
  MaxDown = 2
CONSTRAINT Followed
SPECIFICATION FairSpec
CHECK_DEADLOCK FALSE
INVARIANTS
  TypeOK
  DiskHoldsMemory
  AnsweredHeldUndisturbed
  ReplicasAgree
  SourceHasCheckpoint
PROPERTIES
  CallsAnswered
