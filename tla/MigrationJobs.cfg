SPECIFICATION Spec
CONSTANTS
  a = a
  b = b
  x = x
  j1 = j1
  j2 = j2
  Tables = {a, b}
  Columns = {x}
  Jobs = {j1, j2}
  MaxRels = 1
  Found <- FewDbs
SYMMETRY Symmetry
CHECK_DEADLOCK FALSE
INVARIANTS RunningIsServed CompletedSent PostgresIsClean
