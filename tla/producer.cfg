CONSTANTS
    d1 = d1
    d2 = d2
    Domains = {d1, d2}
    RecentSize = 2
    MaxAttempts = 2
    QueueSize = 2
    MaxCalls = 3
    NoEvent = NoEvent
SPECIFICATION FairSpec
INVARIANT TypeOK
INVARIANT RepeatsAreVerbatim
INVARIANT NothingLeftBehind
PROPERTY SendReturns
CHECK_DEADLOCK FALSE
