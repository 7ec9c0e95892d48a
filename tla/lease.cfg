SPECIFICATION LFairSpec
CONSTANTS
  None = None
  r1 = r1
  r2 = r2
  Runners = {r1, r2}
  MaxTasks = 2
  Legacy = {1}
  MaxFaults = 2
INVARIANTS LTypeOK ExecutedOnce
PROPERTIES EndedIsFinal TasksEndWhenCalm
CHECK_DEADLOCK FALSE
