CONSTANTS
  Docs = {d1, d2}
  Blobs = {1, 2}
  Batch = 1
  MaxRefs = 2
  Reupload = TRUE
SPECIFICATION FairSpec
INVARIANT TypeOK
PROPERTY BareByRollback
PROPERTY WormRowsKept
PROPERTY QueueDrained
PROPERTY ImplementsBlobStore
CHECK_DEADLOCK FALSE
