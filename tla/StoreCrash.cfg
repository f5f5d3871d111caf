SPECIFICATION Spec
CONSTANTS
  Batches = {a, z}
  NoopBatches = {z}
  Policies = {"EveryBatch", "EveryN", "OnFlush"}
  EveryN = 2
  AutoThreshold = 1
  CrashKinds = {"process", "power"}
  MaxSeq = 2
  MaxEpoch = 3
  MaxFaults = 1
INVARIANTS TypeOK SurvivesPowerLoss NoSilentLoss NoResurrection EpochSeqNamesOneState LiveStateIsOnDisk
PROPERTIES KeepsItsPromise UsesMarkerAsRegister
