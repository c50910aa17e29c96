SPECIFICATION Spec
CONSTANTS
  Events = {e1}
  Malformed = {}
  Poison = {}
  Deliveries = {d1}
  Replicas = {p1}
  MaxAttempts = 2
  BackoffInitial = 1
  BackoffMax = 1
  NoEntry = NoEntry
  MaxResends = 0
  Faults = {"pg", "sigterm"}
INVARIANT
  NoEntryLost
CHECK_DEADLOCK FALSE
