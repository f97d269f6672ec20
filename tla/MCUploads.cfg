CONSTANTS
  None = None
  Sessions = {s1, s2}
  Contents = {h}
  Calls = {c1, c2}
  RetryOverlap = FALSE
  MaxWrites = 2
SPECIFICATION FairSpec
CHECK_DEADLOCK FALSE
INVARIANTS
  TypeOK
  RowsReadable
  LivePipelineKept
  RefsCountUploads
PROPERTIES
  TerminalStays
  ScanningReleased
