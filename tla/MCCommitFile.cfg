SPECIFICATION Spec
CONSTANTS
  Marks = {m0, m1, m2}
  FirstMark = m0
  MaxGen = 5
INVARIANTS TypeOK AlwaysASlot NeverOverwritesTheMarker
PROPERTY IsARegister
CHECK_DEADLOCK TRUE
