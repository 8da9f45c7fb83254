SPECIFICATION FairSpec
CONSTANTS
    Conn <- TwoConnections
    NoConn = none
    ErrCap = 2
    DetachCap = 1
    MaxReady = 1
    n1 = n1
    n2 = n2
    n3 = n3
    none = none
INVARIANTS
    TypeOK
    AttachedIsServed
    OneLiveConnection
    SendersNeverBlock
PROPERTIES
    CancelledGoroutinesEnd
    LostConnectionRedialled
