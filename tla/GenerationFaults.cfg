SPECIFICATION Spec
CONSTANTS
  Jobs = {j1}
  Procs = {p1, p2}
  Cancels = {c1}
  j1 = j1
  p1 = p1
  p2 = p2
  c1 = c1
  Dialect = "postgresql"
  MaxTables = 1
  MaxStalledCount = 1
  MaxCrashes = 1
  MaxFaults = 1
SYMMETRY Symmetry
INVARIANTS TypeOK SomeoneResponsible SeededOncePerAttempt CompletedIsSeeded AnnouncedIsDownloadable VerdictStands
CHECK_DEADLOCK FALSE
PROPERTIES SettledIsFinal
