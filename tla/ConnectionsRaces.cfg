SPECIFICATION Spec
CONSTANTS
  Conns = {k1}
  Requests = {r1, r2, r3}
  Servers = {s1, s2}
  k1 = k1
  r1 = r1
  r2 = r2
  r3 = r3
  s1 = s1
  s2 = s2
SYMMETRY Symmetry
INVARIANTS TypeOK StatusOfLogin
PROPERTIES DeletedStays
CHECK_DEADLOCK FALSE
