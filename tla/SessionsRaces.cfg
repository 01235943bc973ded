SPECIFICATION Spec
CONSTANTS
  Pairs = {p1, p2}
  Requests = {r1, r2, r3, r4}
  Lives = {1, 3}
  Parsable = {1}
  DefaultTtl = 2
  MaxTime = 4
  p1 = p1
  p2 = p2
  r1 = r1
  r2 = r2
  r3 = r3
  r4 = r4
SYMMETRY Symmetry
INVARIANTS TypeOK SpentRefused
PROPERTIES SignedOutRefused RefusedForCause
CHECK_DEADLOCK FALSE
