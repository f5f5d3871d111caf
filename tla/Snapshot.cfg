SPECIFICATION Spec
CONSTANTS
  Names = {1, 2, 3}
  Kinds = {1, 2}
  Data = {1, 2}
  Hashes = {0, 6, 7}
  Inputs <- MCInputs
  MaxChanges = 2
INVARIANTS SelfWrittenValidates LookupExact DirectionsAgree HeldIsWritten Deterministic
CHECK_DEADLOCK FALSE
