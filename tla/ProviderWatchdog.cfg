\* A generous retry budget; the stream may be idle from the start.
SPECIFICATION Spec
CONSTANTS
    Indices = {0}
    MaxRetries = 1
    MaxRaw = 2
    TightBudget = FALSE
INVARIANT IdleIsRetried
CHECK_DEADLOCK FALSE
