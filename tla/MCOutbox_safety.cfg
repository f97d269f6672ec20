SPECIFICATION Spec
CONSTANTS
  Events = {1, 2}
  Publishers = {p1, p2}
  p1 = p1
  p2 = p2
  Poison = {}
  BatchSize = 2
  MaxAttempts = 2
  BaseBackoff = 1
  MaxBackoff = 2
  DupWindow = 1
  RetainPublished = 0
  LongFlight = TRUE
  TxTicks = 1
  FailureCap = 2
  MaxCrashes = 1
  MaxLostAcks = 1
  MaxReplays = 1
SYMMETRY Replicas
INVARIANTS
  TypeOK
  NoEventLost
  ClaimedRowsExclusive
  DeadOnlyByRefusal
  CopiesExplained
