CONSTANTS
  r1 = r1
  g1 = g1
  s1 = s1
  c1 = c1
  Singles = {}
  Recipients = {r1}
  Groups = {g1}
  Streams = {s1}
  Calls = {c1}
  TotalChunks = 2
  MaxIndex = 1
  Reports = {0}
  None = None
SPECIFICATION Spec
PROPERTY TerminalStatusIsFinal
CHECK_DEADLOCK FALSE
