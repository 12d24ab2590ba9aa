SPECIFICATION AcceptanceSpec
CONSTANTS
  Batches = {r1, r2, r3}
  Size <- MCSize
  Timeout = 2
INVARIANTS
  AcceptanceInv
  SentinelMeansSeeded
  ExitZeroMeansSeeded
  ExtraCopiesAreFailures
  VerifySeesOneSeed
PROPERTIES
  AcceptanceEnds
CHECK_DEADLOCK FALSE
