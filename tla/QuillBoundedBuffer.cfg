SPECIFICATION Spec
CONSTANTS
  Adapters = {"quill-bounded"}
  Requests <- MCRequests
  Word <- Scale
  FstlogPoll = 10
  SpdlogQueue = 8192
  QuillSleep = 0
INVARIANTS
  BlockingQueueSizeIsEffective
CHECK_DEADLOCK FALSE
