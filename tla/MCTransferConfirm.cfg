CONSTANTS
  r1 = r1
  c1 = c1
  c2 = c2
  Singles = {r1}
  Recipients = {}
  Groups = {}
  Streams = {}
  Calls = {c1, c2}
  TotalChunks = 2
  MaxIndex = 1
  Reports = {0}
  None = None
SPECIFICATION Spec
PROPERTY FailedConfirmKeepsStatus
CHECK_DEADLOCK FALSE
