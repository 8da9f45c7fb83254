SPECIFICATION FairSpec
CONSTANTS
    Retries = 3
    ErrCap = 2
INVARIANTS
    TypeOK
    AnswerExplained
    ServerErrorsCaptured
PROPERTIES
    InstructionAnswered
    ServerGoroutinesEnd
