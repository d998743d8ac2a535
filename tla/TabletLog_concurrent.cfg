CONSTANTS
  Rows = {r1, r2}
  Values = {a}
  Absent = Absent
  Garbled = Garbled
  None = None
  Types = {"PUT"}
  MAX_LOG_CMD_COUNT = 3
  Together = 2
  MaxWrites = 4
  MaxRestarts = 1
SYMMETRY RowSymmetry
SPECIFICATION Spec
INVARIANTS
  PersistsWhenIdle
