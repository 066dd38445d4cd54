SPECIFICATION FairSpec
CONSTANTS
    t1 = t1
    t2 = t2
    p1 = p1
    p2 = p2
    Turns = {t1}
    MaxCalls <- CallsThree
    Cap = 3
    Approved <- ApprovedFirst
    Policies = {"pause"}
    LegacyJobs = TRUE
    MaxFaults = 1
    Plan <- PlanTwo
    MaxAttempts <- AttemptsTwoOne
    Unable = {}
    Quote <- QuoteMixed
    Bills = {3}
    Official = {p1}
    Errors = {"auth", "rate_limit", "protocol", "retryable", "other"}
    ToolRounds <- OneRound
    Cancels = TRUE
    Timed = {t1}
    MaxNative <- OneRound
INVARIANTS ReservationsReturned RecordedBeforeActing OneOutcomeEach ChainKeepsItsWord
PROPERTY TurnsEnd
CHECK_DEADLOCK FALSE
