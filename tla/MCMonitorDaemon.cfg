SPECIFICATION FairSpec
CONSTANTS
  a = a
  d1 = d1
  d2 = d2
  JobIds <- OneJob
  NoJob = NoJob
  Days <- TwoDays
  NumIds = 3
  MaxBuffer = 2
  MaxBatch = 2
  SuccMax = 1
  Brokers = {"down", "slow"}
  MaxFiles = 1
INVARIANTS TypeOK HeldOnce
PROPERTIES LossAccounted DumpsReplayed
