SPECIFICATION ServiceSafety
CONSTANTS
  Free = Free
  NoBound = NoBound
  PixThreshold = 1
  BoletoThreshold = 2
  Now = 5
  SampleLimit = 1
  Batches <- MCIngestBatches
  Payload <- MCIngestPayload
  Requests <- MCIngestBatches
  Queries = {}
  Asks = {}
INVARIANTS
  ServiceInv
  UncommittedIsPrivate
  BatchesWhole
  AcknowledgedIsStored
  RefusedIsNotStored
  InvalidNeverStored
  ValidRowsFitSchema
PROPERTIES
  AtomicSpec
CHECK_DEADLOCK FALSE
