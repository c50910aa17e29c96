SPECIFICATION FairSpec
CONSTANTS
  Callers = {c1, c2, c3, c4}
  Rows = TRUE
  PoolSize = 2
  MaxRequests = 2
  TripAfter = 2
  Troubles = {"down"}
INVARIANTS
  BreakerTypeOK
  ProbesAccounted
  OpensOnlyOnFailures
PROPERTY
  ClosesAgain
