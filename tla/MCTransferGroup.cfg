CONSTANTS
  r1 = r1
  r2 = r2
  g1 = g1
  s1 = s1
  c1 = c1
  Singles = {}
  Recipients = {r1, r2}
  Groups = {g1}
  Streams = {s1}
  Calls = {c1}
  TotalChunks = 1
  MaxIndex = 0
  Reports = {}
  None = None
SPECIFICATION Spec
INVARIANT ProgressIsBacked
PROPERTY GroupChunksKept
CHECK_DEADLOCK FALSE
SYMMETRY Symmetry
