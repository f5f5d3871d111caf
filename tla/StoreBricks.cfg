SPECIFICATION Spec
CONSTANTS
  Batches = {a, b}
  NoopBatches = {}
  Policies = {"EveryBatch", "OnFlush"}
  EveryN = 2
  AutoThreshold = 9
  CrashKinds = {"process", "power"}
  MaxSeq = 2
  MaxEpoch = 3
  MaxFaults = 1
INVARIANTS NeverBricks
