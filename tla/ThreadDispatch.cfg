SPECIFICATION FairSpec
CONSTANTS
    c1 = c1
    c2 = c2
    canceller = canceller
    Runs <- TwoCalls
    Calls <- TwoCalls
    Writers <- TheirWriters
    Canceller = canceller
    Subjects <- FirstOnly
    MaxEvents <- EventsOfFirst
    Bystanders <- SecondOnly
    Reporting <- FirstOnly
    MaxResume = 2
    MaxTrouble = 1
CHECK_DEADLOCK FALSE
INVARIANTS
    TypeOK
    OneQueryPerThread
    RunningThreadIsAttended
    EndedRunIsSettled
    UsageIsItsOwn
    StreamIsComplete
PROPERTIES
    OutcomeIsFinal
    StreamMovesForward
    StreamEnds
