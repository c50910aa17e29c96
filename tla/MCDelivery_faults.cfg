SPECIFICATION FairSpec
CONSTANTS
  Citizens = {a, b}
  Conns = {c1}
  Capacity = 1
  RedisBuffer = 1
  MaxPublished = 3
  Troubles = {"slow", "reconnect", "closed", "garbled"}
INVARIANTS
  DeliveryTypeOK
  DeliveredInOrder
  NothingSkipped
PROPERTIES
  ConnectionReleased
  MessageArrives
CHECK_DEADLOCK FALSE
