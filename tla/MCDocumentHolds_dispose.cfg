CONSTANTS
  Docs = {d}
  InFolder = {d}
  Holds = {h1, h2}
  Txs = {t1, t2}
  NoHold = NoHold
  MaxVersions = 1
SPECIFICATION Spec
SYMMETRY Symmetry
CHECK_DEADLOCK FALSE
INVARIANT
  HeldNotDisposed
