SPECIFICATION FairSpec
CONSTANTS
  Events = {e1, e2, e3}
  Malformed = {e3}
  Poison = {e2}
  Deliveries = {d1, d2}
  Replicas = {p1, p2}
  MaxAttempts = 4
  BackoffInitial = 1
  BackoffMax = 3
  NoEntry = NoEntry
  MaxResends = 0
  Faults = {"pg", "publishResend"}
INVARIANTS
  NoEntryLost
  StoredIsBroadcast
  DeadOutlivedBackoff
PROPERTY
  QueuedSettles
CHECK_DEADLOCK FALSE
