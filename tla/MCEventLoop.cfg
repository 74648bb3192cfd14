CONSTANTS
  p1 = p1
  p2 = p2
  l1 = l1
  c1 = c1
  c2 = c2
SPECIFICATION Spec
INVARIANTS LimitsKept NoneStranded EpollSound KqueueSound
CONSTRAINT FewChanges
SYMMETRY Symmetry
CHECK_DEADLOCK FALSE
