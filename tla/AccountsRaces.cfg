SPECIFICATION Spec
CONSTANTS
  Users = {u1, u2}
  Tokens = {t1, t2}
  Emails <- MCEmails
  Requests = {r1, r2, r3}
  None = None
  lower <- MCLower
  A = A
  a = a
  b = b
  u1 = u1
  u2 = u2
  t1 = t1
  t2 = t2
  r1 = r1
  r2 = r2
  r3 = r3
SYMMETRY Symmetry
INVARIANTS TypeOK EmailsUnique ResetSpendsToken SupersededRefused ReplacedStaysOut
CHECK_DEADLOCK FALSE
