SPECIFICATION ServiceSafety
CONSTANTS
  Free = Free
  NoBound = NoBound
  PixThreshold = 1
  BoletoThreshold = 2
  Now = 5
  SampleLimit = 1
  Batches <- MCReportBatches
  Payload <- MCReportPayload
  Requests <- MCReportRequests
  Queries = {"q1"}
  Asks <- MCDuplicateAsks
INVARIANTS
  GroupsCarryAllRows
CHECK_DEADLOCK FALSE
