SPECIFICATION Spec
CONSTANTS
  Pairs = {p1, p2, p3}
  Requests = {r1, r2, r3}
  Lives = {2}
  Parsable = {2}
  DefaultTtl = 1
  MaxTime = 4
  p1 = p1
  p2 = p2
  p3 = p3
  r1 = r1
  r2 = r2
  r3 = r3
SYMMETRY Symmetry
INVARIANTS RefreshOnce
CHECK_DEADLOCK FALSE
