CONSTANTS
  f1 = f1
  f2 = f2
  f3 = f3
  d1 = d1
  Files = {f1}
  Giant = {f1}
  Days = {d1}
  DayOf <- MCDayOf
  Batch = 2
  Cap = 1
  SkipBudget = 1
  ListCap = 1
  MaxAttempts = 2
  DeadMax = 1
  MaxFaults = 2
  MaxRestarts = 1
SPECIFICATION FairSpec
CHECK_DEADLOCK FALSE
INVARIANTS TypeOK
PROPERTIES ReachesArchive
