CONSTANTS
  Calls = {c1, c2}
  Regions = {r1, r2}
  Home = r1
  MaxGeneration = 2
  MaxVersion = 3
  AmbiguousCommit = TRUE
SPECIFICATION Spec
SYMMETRY Symmetry
INVARIANT RowReadable
CHECK_DEADLOCK FALSE
