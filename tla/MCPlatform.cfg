CONSTANTS
  g1 = g1
  g2 = g2
  g3 = g3
  Callers = {g1, g2, g3}
  MaxFailures = 3
  Cooldown = 2
  Parts = {"breaker", "limiter", "store", "pool", "migrator", "watch", "routing", "peers"}
  Clients = {a1, a2}
  Rate = 1
  Cost = 2
  Burst = 3
  IdleTicks = 2
  MaxTime = 5
  NoEntry = NoEntry
  NoRequest = NoRequest
  Dirs = {d1}
  Indices = {0, 1}
  Data = {v1, v2}
  Torn = Torn
  Absent = Absent
  Nothing = Nothing
  Idle = Idle
  Peers = {n1, n2}
  Dialers = {c1, c2}
  Conns = {k1, k2, k3}
  Breakers = {b1, b2, b3}
  None = None
  Services = {s1, s2}
  FileCount = 3
  Plain = {2}
  MaxFaults = 2
  t1 = t1
  t2 = t2
  Ids = {t1, t2}
  Incoming = {t1}
  ReceiverOnly = FALSE
  MaxDone = 1
  MaxWrites = 3
  MaxBreaks = 2
  NoRow = NoRow
  r1 = r1
  r2 = r2
  r3 = r3
  RouteNodes = {r1, r2, r3}
  Target = r3
  Neighbours = {r2}
  MaxHops = 3
  MaxUpdates = 1
  NoHop = NoHop
  p1 = p1
  p2 = p2
  PeerNodes = {p1, p2}
  Self = p2
  Infos = {i1, i2}
  Intercepted = FALSE
  MaxAnnouncements = 3
  MaxErrors = 2
  Unknown = Unknown
SPECIFICATION PlatformSpec
INVARIANTS BoundedBurst PlatformTypeOK FeedsMissNothing WindowBound ConnsAccounted OneBreakerPerNode SchemaInOrder AnswersAreRoutes
PROPERTIES FollowsPolicy Reopens LimiterIsTokenBucket FilesAreChunkMap ServicesComeUp WatchCatchesUp
CHECK_DEADLOCK FALSE
