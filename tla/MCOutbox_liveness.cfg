SPECIFICATION FairSpec
CONSTANTS
  Events = {1, 2}
  Publishers = {p1, p2}
  p1 = p1
  p2 = p2
  Poison = {1}
  BatchSize = 2
  MaxAttempts = 2
  BaseBackoff = 1
  MaxBackoff = 4
  DupWindow = 2
  RetainPublished = 0
  LongFlight = TRUE
  TxTicks = 1
  FailureCap = 2
  MaxCrashes = 1
  MaxLostAcks = 0
  MaxReplays = 0
PROPERTIES
  OutboxDrains
  ImplementsDelivery
