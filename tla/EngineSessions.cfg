SPECIFICATION Spec
CONSTANTS
    s1 = s1
    s2 = s2
    id1 = id1
    id2 = id2
    ws1 = ws1
    ws2 = ws2
    k1 = k1
    k2 = k2
    q1 = q1
    q2 = q2
    Sessions <- TwoSessions
    Ids <- TwoIds
    Workspaces <- TwoWorkspaces
    Callers <- TwoCallers
    Queriers <- TwoQueriers
    NoSession = NoSession
    Limits <- OneOrTwo
    MaxUpdates = 1
    MaxFailures = 1
    MaxRestarts = 2
CHECK_DEADLOCK FALSE
SYMMETRY Interchangeable
INVARIANTS
    TypeOK
    SessionsKeepApart
    DestroyedStaysDestroyed
    QueryIsAlone
    DestroyReachesQueries
