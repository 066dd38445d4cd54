SPECIFICATION Spec
CONSTANTS
    t1 = t1
    t2 = t2
    p1 = p1
    p2 = p2
    Turns = {t1, t2}
    MaxCalls <- CallsTwoOne
    Cap = 2
    Approved <- NoneApproved
    Policies = {"warn", "pause"}
    LegacyJobs = FALSE
    MaxFaults = 1
    Plan <- PlanOne
    MaxAttempts <- AttemptsOne
    Unable = {}
    Quote <- QuoteTwo
    Bills = {1}
    Official = {p1}
    Errors = {"other"}
    ToolRounds <- RoundFirst
    Cancels = FALSE
    Timed = {}
    MaxNative <- NoRound
INVARIANTS ChargesAreCounted CapRespected
PROPERTY NothingNewAfterLoss
CHECK_DEADLOCK FALSE
