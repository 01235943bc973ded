SPECIFICATION Spec
CONSTANTS
  Schemas = {s1, s2}
  Tables = {t1, t2}
  Columns = {c1, c2}
  Rels = {q1}
  Requests = {r1, r2}
  None = None
  s1 = s1
  s2 = s2
  t1 = t1
  t2 = t2
  c1 = c1
  c2 = c2
  q1 = q1
  r1 = r1
  r2 = r2
  Ends <- MCEnds
SYMMETRY Symmetry
INVARIANTS TypeOK NoDangling AnsweredIsCounted RelationsValid
PROPERTIES ValidStandsAlone ReplaceReadsBack
CHECK_DEADLOCK FALSE
