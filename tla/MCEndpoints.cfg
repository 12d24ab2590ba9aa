SPECIFICATION ServiceSpec
CONSTANTS
  Free = Free
  NoBound = NoBound
  PixThreshold = 1
  BoletoThreshold = 2
  Now = 5
  SampleLimit = 1
  Batches <- MCOneBatch
  Payload <- MCOnePayload
  Requests <- MCOneRequests
  Queries = {"q1"}
  Asks <- MCAsks
INVARIANTS
  QuietReportIsExact
PROPERTIES
  EveryRequestEnds
  ShutdownEnds
CHECK_DEADLOCK FALSE
