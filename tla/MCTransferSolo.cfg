CONSTANTS
  r1 = r1
  s1 = s1
  s2 = s2
  c1 = c1

  Singles = {r1}
  Recipients = {}
  Groups = {}
  Streams = {s1, s2}
  Calls = {c1}
  TotalChunks = 2
  MaxIndex = 1
  Reports = {2}
  None = None
SPECIFICATION Spec
INVARIANTS TypeOK UnapprovedHoldsNothing ProgressIsBacked
CHECK_DEADLOCK FALSE
SYMMETRY Symmetry
