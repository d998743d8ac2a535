CONSTANTS
  Requests = {r1, r2, r3, r4}
  Rows = {a}
  v1 = v1
  v2 = v2
  Nil = Nil
  Values <- MCValues
  Commands <- OneCommand
  N = 3
  OneWriterPerRow = FALSE
SPECIFICATION FairSpec
INVARIANTS
  TypeOK
  NoGap
  PrimaryAhead
  AckedEverywhere
  AtMostOnce
  NoMissedWakeup
PROPERTIES
  EveryWriteAnswered
