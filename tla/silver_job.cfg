CONSTANTS
    k1 = k1
    k2 = k2
    Keys = {k1, k2}
    Configs <- SomeConfigs
    Cap = 1
    MaxRows = 3
    MaxBatches = 2
    MaxActive = 2
SPECIFICATION Spec
SYMMETRY KeysAlike
INVARIANT TypeOK
INVARIANT EnginesAgree
INVARIANT NothingDropped
INVARIANT LoneMergeIsCurrent
CHECK_DEADLOCK FALSE
