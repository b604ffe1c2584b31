CONSTANTS
    k1 = k1
    k2 = k2
    h1 = h1
    h2 = h2
    h3 = h3
    Keys = {k1, k2}
    Hashes = {h1, h2, h3}
    TiesOccur = FALSE
    MaxTime = 5
SPECIFICATION Spec
SYMMETRY Alike
INVARIANT TypeOK
INVARIANT OneCurrentVersion
INVARIANT NoFanOut
PROPERTY HistoryKept
PROPERTY JobConverges
