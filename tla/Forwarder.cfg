SPECIFICATION FairSpec
CONSTANTS
    PipeCap = 1
INVARIANTS
    TypeOK
    StartedAsExpected
    ForwardersNotBlocked
PROPERTIES
    OutputFlows
