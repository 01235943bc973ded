SPECIFICATION Spec
CONSTANTS
  a = a
  b = b
  x = x
  j1 = j1
  Tables = {a, b}
  Columns = {x}
  Jobs = {j1}
  MaxRels = 1
  Found <- NoDb
SYMMETRY Symmetry
CHECK_DEADLOCK FALSE
INVARIANTS CompletedExecuted
