CONSTANTS
  Requests = {r1, r2, r3, r4}
  Rows = {a}
  v1 = v1
  v2 = v2
  Nil = Nil
  Values <- MCValues
  Commands <- OneCommand
  N = 2
  OneWriterPerRow = FALSE
SYMMETRY RequestSymmetry
SPECIFICATION Spec
INVARIANTS
  SameOrder
