CONSTANTS
  d = d
  NewIds = {i1, i2}
  FileNames = {f}
  FolderNames = {d}
  TrashNames = {}
  Paths <- MCPaths
  Movable = {"trash"}
  Threads = {h1, h2}
  None = None
  MaxRequests = 3
  MaxFaults = 1
SYMMETRY RequestSymmetry
SPECIFICATION Spec
INVARIANTS
  TypeOK
  PlacedOnce
  AnsweredPlaced
  RecentsComplete
  FoldersCanBeEntered
