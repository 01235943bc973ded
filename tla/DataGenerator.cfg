SPECIFICATION GenSpec
CONSTANTS
  Tables = {t1, t2, t3}
  Strangers = {x}
  Rels = {e1, e2, e3}
  Draws <- MCDraws
  Values <- MCValues
  suffixed <- MCSuffixed
  MaxRows = 3
  d = d
  e = e
  f = f
  t1 = t1
  t2 = t2
  t3 = t3
  x = x
  e1 = e1
  e2 = e2
  e3 = e3
SYMMETRY Symmetry
INVARIANTS TypeOK ParentsFirst LeftoversBlocked EachOnce ScriptInserts MissHasCause UniqueUnlessForced
