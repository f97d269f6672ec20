CONSTANTS
  Calls = {c1, c2}
  Regions = {r1, r2}
  Home = r1
  MaxGeneration = 2
  MaxVersion = 3
  AmbiguousCommit = FALSE
SPECIFICATION Spec
SYMMETRY Symmetry
INVARIANT TypeOK
INVARIANT RowReadable
PROPERTY ImplementsPointer
CHECK_DEADLOCK FALSE
