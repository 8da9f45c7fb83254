SPECIFICATION Spec
CONSTANTS
    Kind = "packages"
    Ctx <- TwoContexts
    Instr <- TwoWatchers
    Timers <- OneTimer
    Router = router
    NoCtx = nil
    Events = {"install"}
    c1 = c1
    c2 = c2
    c3 = c3
    i1 = i1
    i2 = i2
    t1 = t1
    t2 = t2
    router = router
    nil = nil
SYMMETRY Symmetry
INVARIANTS
    NoNilDereference
