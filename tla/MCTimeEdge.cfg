SPECIFICATION TimeSpec
CONSTANTS
  Base = 2
  YearWidth = 2
  FracWidth = 2
  Locals <- MCEdges
  Offsets <- MCOffsets
  NoBound = NoBound
  Unreadable = Unreadable
  MaxStored = 2
INVARIANTS
  TextSortsLikeTime
CHECK_DEADLOCK FALSE
