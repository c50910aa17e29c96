SPECIFICATION Spec
CONSTANTS
  Deliveries = {d1, d2, d3, d4}
  Poison = {d1, d2}
  Worker = w
  PoolSize = 4
  MaxRequests = 3
  TripAfter = 5
  Troubles = {"refused", "cancelled"}
  Interval = 5
  Timeout = 15
  MaxAttempts = 5
  BackoffInitial = 1
  BackoffMax = 15
  NoEntry = NoEntry
SYMMETRY Interchangeable
INVARIANT
  BadEventsIsolated
CHECK_DEADLOCK FALSE
