SPECIFICATION Spec
CONSTANTS
  Engines = {e1}
  Calls = {c1, c2, c3, c4}
  OneAtATime = FALSE
  FreshStores = TRUE
INVARIANT ConcurrentAppendsVerify
CHECK_DEADLOCK FALSE
