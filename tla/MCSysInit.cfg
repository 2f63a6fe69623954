SPECIFICATION Spec
CONSTANTS
  Adapters <- MCAdapters
  Requests <- MCRequests
  Word <- Scale
  FstlogPoll = 10
  SpdlogQueue = 8192
  QuillSleep = 0
INVARIANTS
  TypeOK
  ReportComplete
  InForce
  MemoryAsReported
  SinkIsLive
PROPERTIES
  ImplementsContract
CHECK_DEADLOCK FALSE
