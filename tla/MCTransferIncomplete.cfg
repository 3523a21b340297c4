CONSTANTS
  r1 = r1
  s1 = s1
  Singles = {r1}
  Recipients = {}
  Groups = {}
  Streams = {s1}
  Calls = {}
  TotalChunks = 2
  MaxIndex = 1
  Reports = {0}
  None = None
SPECIFICATION Spec
INVARIANT CompletedHasAllChunks
CHECK_DEADLOCK FALSE
