SPECIFICATION PagingSpec
CONSTANTS
  NoBound = NoBound
  Absent = Absent
  PixThreshold = 1
  BoletoThreshold = 2
  TextRank <- MCRank
  Rows <- MCEvents
  Times <- MCInstants
  MaxRows = 4
  MaxNow = 3
  PageWindows <- MCPageWindows
  LimitArgs = {0, 1, Absent}
  DefaultLimit = 2
INVARIANTS
  SkipsAreExplained
  RepeatsAreExplained
CHECK_DEADLOCK FALSE
