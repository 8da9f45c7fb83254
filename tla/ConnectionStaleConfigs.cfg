SPECIFICATION Spec
CONSTANTS
    Conn <- TwoConnections
    NoConn = none
    ErrCap = 10
    DetachCap = 1
    MaxReady = 1
    n1 = n1
    n2 = n2
    n3 = n3
    none = none
SYMMETRY Symmetry
INVARIANTS
    NoStaleConfigs
