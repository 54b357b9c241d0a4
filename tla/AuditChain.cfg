SPECIFICATION Spec
CONSTANTS
  Engines = {e1, e2}
  Calls = {c1, c2, c3, c4}
  OneAtATime = TRUE
  FreshStores = TRUE
INVARIANTS
  TypeOK
  ChainVerifies
  AcknowledgedStand
  TamperingIsDetected
CHECK_DEADLOCK FALSE
