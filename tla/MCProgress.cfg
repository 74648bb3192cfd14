CONSTANTS
  a = a
  b = b
  Never = Never
SPECIFICATION Spec
PROPERTIES WorkersEnd   ComesBack WriteComes
CHECK_DEADLOCK FALSE
