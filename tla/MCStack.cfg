SPECIFICATION Spec
CONSTANTS
  b1 = b1
  b2 = b2
  Backends = {b1, b2}
  Router = rt
  StartOrder <- MCStartOrder
  Pids = {p1, p2, p3}
  NoPid = nopid
  MaxOps = 3
  MaxFaults = 2
  MaxRequests = 1
SYMMETRY PidSymmetry
INVARIANTS Tracked StopClears BoundaryIsCold
CHECK_DEADLOCK FALSE
