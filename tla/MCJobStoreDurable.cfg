CONSTANTS
  i1 = i1
  i2 = i2
  l1 = l1
  l2 = l2
  IngestIds = {i1}
  ListKinds = {"append"}
  ListIds = {l1}
  ListKind <- MCListKind
  None = None
  Scores = {0}
  CatchupBase = 1
  Penalty = 0
  MaxScore = 1
  IngestCap = 1
  ListCap = 1
  MaxBatch = 1
  ReapLimit = 2
  MaxToken = 2
  MaxAttempt = 1
  Durable = TRUE
SPECIFICATION FairSpec
CHECK_DEADLOCK FALSE
PROPERTIES ImplementsDurableQueue ForceAnswered
INVARIANTS QueuedXorInflight PendingExact LeaseMatchesInflight ShadowExact CleanIsDurable
