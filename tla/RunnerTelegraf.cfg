SPECIFICATION Spec
CONSTANTS
    Kind = "telegraf"
    Ctx <- TwoContexts
    Instr <- OneWatcher
    Timers <- OneTimer
    Router = router
    NoCtx = nil
    Events = {"crash", "await", "exec", "badop", "install", "detach"}
    c1 = c1
    c2 = c2
    c3 = c3
    i1 = i1
    i2 = i2
    t1 = t1
    t2 = t2
    router = router
    nil = nil
SYMMETRY Symmetry
VIEW TelegrafView
INVARIANTS
    OneStopper
    SignalledAgentNotRestarted
    StopCompletes
    RunningIsWatched
