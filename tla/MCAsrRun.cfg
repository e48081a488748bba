SPECIFICATION FairSpec
CONSTANTS
  N = 2
  Workers <- TwoWorkers
  QueueMax = 1
  MaxAttempts = 2
  Options <- Starts
  MaxRuns = 3
  MaxFaults = 2
  MaxCrashes = 1
INVARIANTS
  TypeOK
  RunAccounts
  SuccessMeansCovered
  PoolGoesOn
PROPERTIES
  TranscriptsKept
  AsrRunEnds
  PoolImplemented
CHECK_DEADLOCK FALSE
