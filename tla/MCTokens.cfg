CONSTANTS
  Subjects = {u1}
  TokenCalls = {c1, c2}
  AccessLife = 1
  RefreshLife = 2
  MaxNow = 3
  MaxCalls = 3
  MaxOutages = 1
  NoToken = NoToken
SPECIFICATION TokensSpec
PROPERTIES RotationGivesNewPair
CHECK_DEADLOCK FALSE
