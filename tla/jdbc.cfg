CONSTANTS
    t1 = t1
    t2 = t2
    r1 = r1
    r2 = r2
    i1 = i1
    i2 = i2
    Tables = {t1, t2}
    Runs = {r1, r2}
    Ids = {i1, i2}
    MaxTime = 2
    InOrder = TRUE
    MaxKills = 1
    Torn = Torn
SPECIFICATION JdbcFairSpec
INVARIANT JdbcTypeOK
INVARIANT NothingBehindWatermark
PROPERTY EveryRowLanded
CHECK_DEADLOCK FALSE
