SPECIFICATION FairSpec
CONSTANTS
  Threads = {t1, t2}
  Ids = {i1, i2}
  NoId = NoId
  MaxLines = 2
  Capacities = {0, 1, 2}
INVARIANTS
  TypeOK
  SinkUnshared
  OneObjectPerId
  StopDrains
PROPERTIES
  EveryCallReturns
  PoolEnds
  ImplementsAsyncLog
CHECK_DEADLOCK FALSE
