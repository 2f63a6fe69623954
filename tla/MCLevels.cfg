SPECIFICATION Spec
CONSTANTS
  Adapters <- MCAdapters
  MaxLines = 3
INVARIANTS
  NothingFromInfoLost
  SeverityOrderKept
  FilesApart
CHECK_DEADLOCK FALSE
