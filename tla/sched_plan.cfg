SPECIFICATION Spec
CONSTANTS
    a = a
    b = b
    c = c
    d = d
    e = e
    NoNode = NoNode
    Node = {a, b, c, d, e}
    Order <- OrderFork
    Deps <- DepsFork
    Conditions = {c}
    Gates = {}
    GateAction <- NoGateAction
    Budgeted = {}
    MediaNodes = {}
    Timed = {b}
    RetryMax <- RetryBE
    MaxParallel = 2
    Ceiling = 5
    RunTimed = TRUE
    Cancels = TRUE
    Unresolved = FALSE
    MaxPauses = 0
    MaxFaults = 1
INVARIANTS WithinCeilings NothingOverlooked
PROPERTY EndsAreFinal ImplementsGraph
CHECK_DEADLOCK FALSE
