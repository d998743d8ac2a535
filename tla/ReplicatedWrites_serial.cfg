CONSTANTS
  Requests = {r1, r2, r3}
  Rows = {a, b}
  v1 = v1
  v2 = v2
  Nil = Nil
  Values <- MCValues
  Commands <- AllCommands
  N = 3
  OneWriterPerRow = TRUE
SPECIFICATION Spec
INVARIANTS
  UniqueNumbers
  SameOrder
  SettledRowsAgree
PROPERTIES
  ImplementsRowLog
