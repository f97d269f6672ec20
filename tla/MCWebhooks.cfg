SPECIFICATION FairSpec
CONSTANTS
  None = None
  Events = {e1}
  Subs = {s1, s2}
  Legacy = {s1}
  Workers = {w1, w2}
  ClaimBatch = 2
  MaxAttempts = 2
  MaxDeliver = 2
  MaxRows = 4
  WorkRows = 2
  MaxFaults = 1
CHECK_DEADLOCK FALSE
INVARIANTS
  TypeOK
  AckedFannedOut
  OnceUnlessFault
  OutcomeTrue
PROPERTIES
  OutcomesStand
  DeliveriesSettle
