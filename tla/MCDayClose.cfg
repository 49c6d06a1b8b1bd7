CONSTANTS
  f1 = f1
  f2 = f2
  Files = {f1, f2}
  Giant = {f1, f2}
  MaxFaults = 1
  MaxCuts = 1
  MaxCrashes = 1
SYMMETRY MCSymmetry
SPECIFICATION Spec
CHECK_DEADLOCK FALSE
INVARIANTS TypeOK NothingLost TarCoversSealed
PROPERTIES CompleteIsSealed
