SPECIFICATION FairSpec
CONSTANTS
  Threads = {t1, t2}
  MaxLines = 2
  NoThread = NoThread
INVARIANTS
  TypeOK
  MutualExclusion
  WholeLines
  NothingMissing
  FatalIsDurable
PROPERTIES
  EveryCallReturns
  ImplementsLineLog
CHECK_DEADLOCK FALSE
