CONSTANTS
  t1 = t1
  t2 = t2
  o1 = o1
  Threads = {t1, t2}
  Others = {o1}
  NoThread = NoThread
SYMMETRY MCSymmetry
SPECIFICATION Spec
CHECK_DEADLOCK FALSE
INVARIANTS TypeOK NoLiveBackend
