CONSTANTS
  f1 = f1
  f2 = f2
  Files = {f1, f2}
  Giant = {f2}
  MaxFaults = 1
  MaxCuts = 0
  MaxCrashes = 1
SPECIFICATION FairSpec
CHECK_DEADLOCK FALSE
PROPERTIES ReachesSealed
