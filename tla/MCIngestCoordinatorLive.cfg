CONSTANTS
  j1 = j1
  j2 = j2
  Jobs = {j1}
  MaxToken = 3
  Cap = 1
  SkipBudget = 2
  MaxAttempts = 2
  MaxPool = 3
SPECIFICATION FairSpec
CHECK_DEADLOCK FALSE
PROPERTIES RecycleCompletes SlotFreed DrainCompletes
