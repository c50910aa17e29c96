SPECIFICATION Spec
CONSTANTS
  Events = {e1, e2}
  Malformed = {}
  Poison = {}
  Deliveries = {d1, d2}
  Replicas = {p1, p2}
  MaxAttempts = 2
  BackoffInitial = 1
  BackoffMax = 2
  NoEntry = NoEntry
  MaxResends = 1
  Faults = {"pg", "pgReply", "redis", "redisReply", "addResend", "disconnect", "sigterm", "crash"}
SYMMETRY Interchangeable
INVARIANTS
  TypeOK
  SoleBroadcaster
  AcknowledgedIsStored
  CopiesAreResends
PROPERTIES
  OneLossPerFailure
  ImplementsLedger
CHECK_DEADLOCK FALSE
