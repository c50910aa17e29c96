SPECIFICATION Spec
CONSTANTS
  Deliveries = {d1, d2, d3}
  Poison = {d1}
  Worker = w
  PoolSize = 4
  MaxRequests = 2
  TripAfter = 3
  Troubles = {"down", "cancelled", "refused"}
  Interval = 5
  Timeout = 15
  MaxAttempts = 5
  BackoffInitial = 1
  BackoffMax = 15
  NoEntry = NoEntry
SYMMETRY Interchangeable
INVARIANTS
  OutageTypeOK
  RecoveredSurvives
PROPERTY
  ImplementsBreaker
CHECK_DEADLOCK FALSE
