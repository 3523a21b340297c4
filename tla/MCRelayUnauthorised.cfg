CONSTANTS
  a = a
  b = b
  c = c
  Nodes = {a, b, c}
  MaxRoute = 2
  Replicas = 1
  Strays = {}
  Main = Main
  Failed = Failed
SPECIFICATION Spec
INVARIANT CleanRouteDelivers
CHECK_DEADLOCK FALSE
SYMMETRY Symmetry
