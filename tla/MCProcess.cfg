SPECIFICATION Spec
CONSTANTS
  Adapters <- MCAdapters
  Requests <- MCRequests
  Word = 1048576
  FstlogPoll = 10
  SpdlogQueue = 8192
  QuillSleep = 0
INVARIANTS
  PointersSafe
  ExitTellsOutcome
  TemplateInForce
  HangsOnlyAtZero
CHECK_DEADLOCK FALSE
