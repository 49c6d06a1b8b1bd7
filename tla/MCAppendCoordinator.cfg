CONSTANTS
  f1 = f1
  f2 = f2
  f3 = f3
  d1 = d1
  Files = {f1, f2, f3}
  Giant = {f1, f2, f3}
  Days = {d1}
  DayOf <- MCDayOf
  Batch = 1
  Cap = 2
  SkipBudget = 1
  ListCap = 1
  MaxAttempts = 2
  DeadMax = 1
  MaxFaults = 0
  MaxRestarts = 0
SYMMETRY MCSymmetry
SPECIFICATION Spec
CHECK_DEADLOCK FALSE
INVARIANTS HeldIsLeased OneHandPerFile NoOrphanLease BatchesGivenBack
