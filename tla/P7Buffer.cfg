SPECIFICATION Spec
CONSTANTS
  Adapters = {"p7"}
  Requests <- MCRequests
  Word <- Scale
  FstlogPoll = 10
  SpdlogQueue = 8192
  QuillSleep = 0
INVARIANTS
  P7SizeIsPerThread
CHECK_DEADLOCK FALSE
