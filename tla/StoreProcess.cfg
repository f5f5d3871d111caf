SPECIFICATION FairSpec
CONSTANTS
  Batches = {a}
  NoopBatches = {}
  Policies = {"EveryBatch", "OnFlush"}
  EveryN = 2
  AutoThreshold = 9
  CrashKinds = {"process"}
  MaxSeq = 2
  MaxEpoch = 4
  MaxFaults = 2
INVARIANT ProcessDeathNeverBricks
PROPERTY Reopens
