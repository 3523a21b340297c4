CONSTANTS
  r1 = r1
  s1 = s1
  c1 = c1
  d1 = d1
  Singles = {r1}
  Recipients = {}
  Groups = {}
  Streams = {s1}
  Calls = {c1}
  Downloads = {d1}
  TotalChunks = 2
  MaxIndex = 1
  Reports = {0}
  None = None
SPECIFICATION DeliverySpec
INVARIANTS DeliveryTypeOK SentMeansStored CompletedHasAllChunks TrustedDownloadsMissNothing
PROPERTY FilesAreDropped
CHECK_DEADLOCK FALSE
