SPECIFICATION Spec
CONSTANTS
  Batches = {a, b}
  NoopBatches = {}
  Policies = {"OnFlush"}
  EveryN = 1
  AutoThreshold = 9
  CrashKinds = {"process", "power"}
  MaxSeq = 1
  MaxEpoch = 4
  MaxFaults = 2
INVARIANT NoResurrection
