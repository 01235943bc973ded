SPECIFICATION Spec
CONSTANTS
  a = a
  b = b
  x = x
  j1 = j1
  Tables = {a, b}
  Columns = {x}
  Jobs = {j1}
  MaxRels = 2
  Found <- AnyDb
SYMMETRY Symmetry
CHECK_DEADLOCK FALSE
INVARIANTS ReplaceRebuilds
PROPERTIES SafeOnlyAdds
