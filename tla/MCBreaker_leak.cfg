SPECIFICATION Spec
CONSTANTS
  Callers = {c1, c2}
  Rows = TRUE
  PoolSize = 2
  MaxRequests = 3
  TripAfter = 5
  Troubles = {"down"}
INVARIANT
  ConnectionsReturned
