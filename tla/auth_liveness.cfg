SPECIFICATION FairSpec
CONSTANTS
  t1 = t1
  t2 = t2
  Tabs <- MCTabs
  MaxSids = 1
  HasLocks = TRUE
  MaxRuns = 3
  MaxOps = 1
  MaxFaults = 1
PROPERTIES RefreshEnds
CHECK_DEADLOCK FALSE
