SPECIFICATION FairSpec
CONSTANTS
  Requests = {r1, r2, r3}
  Worker = w
  Environments <- AllOrOneMissing
INVARIANTS
  LifecycleTypeOK
  ReadyBeforeServing
  AcceptedAreServed
  TeardownInOrder
PROPERTY
  StopsOnSignal
CHECK_DEADLOCK FALSE
