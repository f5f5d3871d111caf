SPECIFICATION RecoverySpec
CONSTANTS
  n1 = n1
  n2 = n2
  k1 = k1
  d1 = d1
  Names = {n1, n2}
  Kinds = {k1}
  Data = {d1}
  Bases <- MCBases
  BatchBound <- MCBatchBound
INVARIANT RecoversEdges
CHECK_DEADLOCK FALSE
