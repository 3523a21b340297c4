CONSTANTS
  a = a
  b = b
  c = c
  u1 = u1
  Nodes = {a, b, c}
  MaxRoute = 2
  Replicas = 2
  Strays = {u1}
  Main = Main
  Failed = Failed
SPECIFICATION Spec
INVARIANTS RelayTypeOK AnswersHeld CopiesBounded DepthBounded
PROPERTY NoStepBack
CHECK_DEADLOCK FALSE
SYMMETRY Symmetry
