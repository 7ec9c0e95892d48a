SPECIFICATION Spec
CONSTANTS
  t1 = t1
  t2 = t2
  Tabs <- MCTabs
  MaxSids = 2
  HasLocks = TRUE
  MaxRuns = 2
  MaxOps = 2
  MaxFaults = 1
SYMMETRY TabSymmetry
INVARIANTS TypeOK CookieNearHead OnlyLossRevokes
PROPERTIES ImplementsBrowserSession NotForcedOut
CHECK_DEADLOCK FALSE
