CONSTANTS
  Procs = {p1, p2}
  Messages = {m1}
  By <- MCBy
  Denied = {"subject"}
  MaxDeliver = 2
  Clock = {1}
  Cutover = 1
  MaxRequests = 2
  MaxFaults = 1
SPECIFICATION FairSpec
CHECK_DEADLOCK FALSE
INVARIANTS
  TypeOK
  ChainHolds
  AlteredShows
  CheckpointStands
  EventsKept
PROPERTY
  ImplementsAuditLog
  EventsSettle
