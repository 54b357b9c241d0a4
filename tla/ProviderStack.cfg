\* One answer: two raw block indices, one retry per model, fallback, abort.
SPECIFICATION FairSpec
CONSTANTS
    Indices = {0, 1}
    MaxRetries = 1
    MaxRaw = 6
    TightBudget = TRUE
INVARIANTS
    TypeOK
    AnswerIsTheStream
    RequestsBounded
    RequestsDoNotOverlap
    AbortStopsRetries
PROPERTIES
    ImplementsContract
    Terminates
CHECK_DEADLOCK FALSE
