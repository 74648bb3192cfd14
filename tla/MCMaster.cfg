CONSTANTS
  a = a
  b = b
  c = c
  d = d
SPECIFICATION Spec
INVARIANTS   VerdictRight
PROPERTY NoConnectionDropped
CHECK_DEADLOCK FALSE
