SPECIFICATION Spec
CONSTANTS
    Kinds = {"telegraf", "filebeat", "packages", "oracle"}
    Id <- TwoIds
    Sent = {"short", "null"}
    Proc <- TwoProcesses
    NoProc = none
    Timers <- OneTimer
    Instr = instr
    Router = router
    i1 = i1
    i2 = i2
    p1 = p1
    p2 = p2
    t1 = t1
    instr = instr
    router = router
    none = none
SYMMETRY Symmetry
INVARIANTS
    AgentUpToDate
    EarlierConfigsGone
    AgentDialsThisEnvoy
