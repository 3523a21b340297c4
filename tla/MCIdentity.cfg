CONSTANTS
  Subjects = {u1}
  TokenCalls = {c1, c2}
  AccessLife = 1
  RefreshLife = 2
  MaxNow = 3
  MaxCalls = 3
  MaxOutages = 1
  NoToken = NoToken
  Mailings = {q1, q2}
  Clicks = {v1}
  Links = {l1, l2, l3, l4}
  MaxImpatience = 1
  NoLink = NoLink
  Accts = {a1, a2}
  DeviceIds = {d1, d2, d3}
  Prints = {x1, x2}
  Codes = {k1}
  Handlers = {h1, h2}
  MaxBegun = 5
  Nil = Nil
  SessionIds = {s1}
  Machines = {m1, m2, m3}
  Owned = {m1, m2}
  Joiners = {j1, j2}
  NoMachine = NoMachine
  NoSession = NoSession
  People = {p1, p2}
  Senders = {r1, r2, r3}
  Nobody = Nobody
SPECIFICATION IdentitySpec
INVARIANTS IdentityTypeOK RevokedNeverValid RotatedOnce OneDevicePerFingerprint OneRowUnlessUnseen
PROPERTIES EventuallyVerified DevicesJoinByVouching ClosedSessionsShrink
CHECK_DEADLOCK FALSE
