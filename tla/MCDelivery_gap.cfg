SPECIFICATION Spec
CONSTANTS
  Citizens = {a}
  Conns = {c1, c2}
  Capacity = 1
  RedisBuffer = 1
  MaxPublished = 1
  Troubles = {}
INVARIANT
  ConnectedMissesNothing
CHECK_DEADLOCK FALSE
