SPECIFICATION TimeSpec
CONSTANTS
  Base = 2
  YearWidth = 2
  FracWidth = 2
  Locals <- MCInnerYears
  Offsets <- MCOffsets
  NoBound = NoBound
  Unreadable = Unreadable
  MaxStored = 2
INVARIANTS
  QueriesGoByTime
CHECK_DEADLOCK FALSE
