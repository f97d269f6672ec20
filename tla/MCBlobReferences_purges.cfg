CONSTANTS
  Docs = {d1, d2}
  Blobs = {1}
  Batch = 1
  MaxRefs = 2
  Reupload = FALSE
SPECIFICATION Spec
SYMMETRY Symmetry
INVARIANT UnreferencedQueued
CHECK_DEADLOCK FALSE
