CONSTANTS
  Rows = {r1, r2}
  Values = {a, b}
  Absent = Absent
  Garbled = Garbled
  None = None
  Types = {"PUT", "DELETE"}
  MAX_LOG_CMD_COUNT = 3
  Together = 1
  MaxWrites = 5
  MaxRestarts = 2
SYMMETRY RowSymmetry
SPECIFICATION Spec
INVARIANTS
  TypeOK
  PersistsWhenIdle
  CrashSafe
  LogShort
