SPECIFICATION FeedFairSpec
CONSTANTS
  Jobs = {j1}
  Procs = {p1, p2}
  Cancels = {}
  j1 = j1
  p1 = p1
  p2 = p2
  Dialect = "postgresql"
  MaxTables = 0
  MaxStalledCount = 1
  MaxCrashes = 1
  MaxFaults = 1
INVARIANTS SubscriberLearns
PROPERTIES SubscriberHears
CHECK_DEADLOCK FALSE
