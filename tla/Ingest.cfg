SPECIFICATION FairSpec
CONSTANTS
    Source = {s1, s2}
    QueueCap = 1
    MaxBatch = 2
    MaxSent = 2
    MaxConn = 2
INVARIANTS
    TypeOK
    NothingLostOrReordered
    AckedAreHandled
    PostedAsItself
PROPERTIES
    BatchesHandled
