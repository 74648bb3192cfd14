CONSTANTS
  Values <- MCValues
  Hashes = {0, 1, 2, 3, 4}
  None = None
  Node = {n1, n2, n3, n4, n5, n6, n7}
  Sentinel = nil
  Null = null
  Conn = {c1, c2, c3, c4}
SPECIFICATION MCSpec
SYMMETRY Symmetry
VIEW View
INVARIANT EjectedUntilRetry
CHECK_DEADLOCK FALSE
