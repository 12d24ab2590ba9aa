SPECIFICATION DatasetSpec
CONSTANTS
  NoBound = NoBound
  Unset = Unset
  Garbage = Garbage
  NaN = NaN
  PixThreshold = 1
  BoletoThreshold = 2
  Default <- MCDefault
  Environments <- MCEnvironments
  TextRank <- MCRank
  Rows <- MCAllRows
  Times <- MCTimes
  MaxRows = 3
  MaxNow = 4
  Fields = {"processor", "method"}
  Limits = {0, 1, 2}
INVARIANTS
  DatasetTypeOK
  OrphanGhostDisjoint
  WindowsSplit
  OrderIndependent
  ExtraRowsAreRedundant
  PerfectIffClean
  AlertsFollowAnomalies
  FakeCountsTheSame
  FakePagesTheSame
  FakeDetailsTheSame
  BreakdownsAddUp
PROPERTIES
  OrphanClearedByMerchant
  GhostClearedByNewest
  LimboNeverClears
  AlertsNeedAnAnswer
CHECK_DEADLOCK FALSE
