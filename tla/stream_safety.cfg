CONSTANTS
    e1 = e1
    e2 = e2
    e3 = e3
    e4 = e4
    Events = {e1}
    Malformed = {}
    Untimed = {}
    Unwritable = {}
    Window = 2
    Lateness = 1
    Lookback = 5
    MergeEvery = 1
    MaxLate = 2
    MaxLag = 2
    MaxTime = 8
    MaxCopies = 3
    MaxRetries = 1
    MaxStops = 2
SPECIFICATION Spec
INVARIANT BronzeCopiesHaveCause
INVARIANT DroppedWasLate
PROPERTY EveryMergeCatchesUp
