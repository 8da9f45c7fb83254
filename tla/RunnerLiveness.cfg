SPECIFICATION StartedSpec
CONSTANTS
    Kind = "filebeat"
    Ctx <- TwoContexts
    Instr <- NoWatchers
    Timers <- TwoTimers
    Router = router
    NoCtx = nil
    Events = {"crash", "detach", "shutdown"}
    c1 = c1
    c2 = c2
    c3 = c3
    i1 = i1
    i2 = i2
    t1 = t1
    t2 = t2
    router = router
    nil = nil
PROPERTIES
    TerminatedAgentEnds
    FailedAgentRestarted
