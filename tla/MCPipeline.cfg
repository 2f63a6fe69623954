SPECIFICATION FairSpec
CONSTANTS
  Adapters <- MCAdapters
  Threads = {t1, t2}
  MaxLines = 3
  Capacities = {1, 2}
INVARIANTS
  TypeOK
  FileInOrder
  NothingLost
PROPERTIES
  EveryCallReturns
  ProgramEnds
  ImplementsAsyncLog
CHECK_DEADLOCK FALSE
