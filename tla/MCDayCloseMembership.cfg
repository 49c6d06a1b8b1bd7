CONSTANTS
  f1 = f1
  f2 = f2
  Files = {f1, f2}
  Giant = {}
  MaxFaults = 0
  MaxCuts = 0
  MaxCrashes = 0
SYMMETRY MCSymmetry
SPECIFICATION Spec
CHECK_DEADLOCK FALSE
PROPERTIES DeletedIsSealed
