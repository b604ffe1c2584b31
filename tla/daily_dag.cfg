CONSTANTS
    files = files
    x = x
    y = y
    g = g
    Sources = {files}
    FileBased = {files}
    Silver = {x}
    SourceOf <- XFromFiles
    Gold = {g}
    DepsOf <- NeedsXAndY
    Tries = 2
    MaxDays = 2
    MaxClears = 1
SPECIFICATION FairSpec
INVARIANT TypeOK
INVARIANT GreenGoldHasTheDay
INVARIANT OneBatchAtATime
PROPERTY RunEnds
CHECK_DEADLOCK FALSE
