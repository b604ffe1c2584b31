CONSTANTS
    p1 = p1
    k1 = k1
    k2 = k2
    Partitions = {p1}
    Keys = {k1, k2}
    PartitionOf <- SharedPartition
    Kinds <- ValidOnly
    MaxAttempts = 2
    DlqCapacity = 1
    MaxRecords = 2
    MaxRuns = 1
    MaxLostAcks = 0
    NoMessage = NoMessage
SPECIFICATION Spec
INVARIANT GivenUpStaysUncommitted
CHECK_DEADLOCK FALSE
