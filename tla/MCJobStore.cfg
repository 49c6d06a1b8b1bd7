CONSTANTS
  i1 = i1
  i2 = i2
  l1 = l1
  l2 = l2
  IngestIds = {i1, i2}
  ListKinds = {"append"}
  ListIds = {l1, l2}
  ListKind <- MCListKind
  None = None
  Scores = {0, 2}
  CatchupBase = 2
  Penalty = 1
  MaxScore = 3
  IngestCap = 1
  ListCap = 1
  MaxBatch = 2
  ReapLimit = 1
  MaxToken = 2
  MaxAttempt = 1
  Durable = FALSE
SYMMETRY MCSymmetry
SPECIFICATION Spec
CHECK_DEADLOCK FALSE
INVARIANTS TypeOK QueuedIsClaimable BandCountsExact
PROPERTIES LeavesOnlyByNewestAck
