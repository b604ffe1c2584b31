CONSTANTS
    p1 = p1
    c1 = c1
    c2 = c2
    Partitions = {p1}
    Members = {c1, c2}
    Kinds <- OneOfEach
    DlqCapacity = 1
    MaxRecords = 2
    MaxFaults = 2
    MaxMoves = 2
    Nobody = Nobody
    NoMessage = NoMessage
SPECIFICATION FairSpec
INVARIANT TypeOK
INVARIANT RedeliveryHasCause
PROPERTY ContractSpec
PROPERTY NoWedge
CHECK_DEADLOCK FALSE
