CONSTANTS
    p1 = p1
    k1 = k1
    k2 = k2
    Partitions = {p1}
    Keys = {k1, k2}
    PartitionOf <- SharedPartition
    Kinds <- OneOfEach
    MaxAttempts = 2
    DlqCapacity = 1
    MaxRecords = 2
    MaxRuns = 3
    MaxLostAcks = 1
    NoMessage = NoMessage
SPECIFICATION FairSpec
INVARIANT TypeOK
INVARIANT InOrderUnlessGivenUp
INVARIANT UncommittedIsGivenUp
PROPERTY ContractSpec
PROPERTY EverythingSettled
CHECK_DEADLOCK FALSE
