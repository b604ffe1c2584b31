CONSTANTS
    e1 = e1
    e2 = e2
    e3 = e3
    e4 = e4
    Events = {e1, e2, e3, e4}
    Malformed = {e2}
    Untimed = {e3}
    Unwritable = {e4}
    Window = 1
    Lateness = 0
    Lookback = 2
    MergeEvery = 1
    MaxLate = 1
    MaxLag = 0
    MaxTime = 2
    MaxCopies = 1
    MaxRetries = 0
    MaxStops = 1
SPECIFICATION FairSpec
 
INVARIANT TypeOK
