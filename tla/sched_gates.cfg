SPECIFICATION StopSpec
CONSTANTS
    a = a
    b = b
    c = c
    d = d
    e = e
    NoNode = NoNode
    Node = {a, b}
    Order <- OrderTwo
    Deps <- DepsTwo
    Conditions = {}
    Gates = {a}
    GateAction <- RejectA
    Budgeted = {b}
    MediaNodes = {b}
    Timed = {}
    RetryMax <- NoRetry
    MaxParallel = 2
    Ceiling = 9
    RunTimed = FALSE
    Cancels = TRUE
    Unresolved = TRUE
    MaxPauses = 2
    MaxFaults = 1
INVARIANTS CompletionIsClean NeverWedged
PROPERTY RunEnds
CHECK_DEADLOCK FALSE
