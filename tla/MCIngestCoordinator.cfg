CONSTANTS
  j1 = j1
  j2 = j2
  Jobs = {j1, j2}
  MaxToken = 2
  Cap = 2
  SkipBudget = 2
  MaxAttempts = 2
  MaxPool = 2
SYMMETRY MCSymmetry
SPECIFICATION Spec
CHECK_DEADLOCK FALSE
INVARIANTS TypeOK LocalHoldsLease NoOrphanLease OneTaskPerPool WaitsOnLivePool
