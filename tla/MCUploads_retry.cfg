CONSTANTS
  None = None
  Sessions = {s1}
  Contents = {h}
  Calls = {c1, c2}
  RetryOverlap = TRUE
  MaxWrites = 2
SPECIFICATION Spec
CHECK_DEADLOCK FALSE
INVARIANT
  RowsReadable
