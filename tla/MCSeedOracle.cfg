SPECIFICATION SeedSpec
CONSTANTS
  NoBound = NoBound
  PixThreshold = 1
  BoletoThreshold = 2
  Plans <- MCPlans
  MinTotal = 3
  WindowStart = 1
  WindowEnd = 3
  BaseNow = 6
  MaxLag = 2
  GhostLead = 1
  DupLag = 3
  MaxSwaps = 1
INVARIANTS
  OracleCounts
  OracleIDs
CHECK_DEADLOCK FALSE
