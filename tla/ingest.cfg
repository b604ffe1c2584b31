CONSTANTS
    e1 = e1
    e2 = e2
    d1 = d1
    d2 = d2
    f1 = f1
    f2 = f2
    c1 = c1
    c2 = c2
    bad = bad
    nil = nil
    b1 = b1
    b2 = b2
    b3 = b3
    b4 = b4
    b5 = b5
    b6 = b6
    b7 = b7
    b8 = b8
    Format = "xlsx"
    EntityNames <- TwoEntities
    Incremental = {e1}
    Dates = {d1, d2}
    Paths = {f1, f2}
    PathsOf <- FilePerDate
    Contents = {c1, c2, bad, nil}
    Quality <- ContentQuality
    High <- ContentHigh
    Drops <- NewOrRedelivered
    BatchIds = {b1, b2, b3, b4, b5, b6, b7, b8}
    NoContent = NoContent
    NoDate = NoDate
    NoBatch = NoBatch
    AnyEntity = AnyEntity
    MaxDrops = 1
    MaxErrors = 1
SPECIFICATION FairSpec
INVARIANT TypeOK
INVARIANT ProcessedIsInBronze
INVARIANT WatermarkIsLanded
INVARIANT ReloadedOnlyAfterInterruption
INVARIANT RerunLandsAllButFailed
PROPERTY EveryFileDecided
