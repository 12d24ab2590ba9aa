SPECIFICATION SeederSpec
CONSTANTS
  Batches = {r1, r2, r3}
  Size <- MCSize
INVARIANTS
  SeededOnce
CHECK_DEADLOCK FALSE
