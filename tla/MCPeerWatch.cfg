CONSTANTS
  p1 = p1
  p2 = p2
  PeerNodes = {p1, p2}
  Self = p2
  Infos = {i1, i2}
  Intercepted = TRUE
  MaxAnnouncements = 3
  MaxErrors = 0
  Unknown = Unknown
SPECIFICATION PeerWatchSpec
PROPERTIES PeersBecomeRoutes
CHECK_DEADLOCK FALSE
