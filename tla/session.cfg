SPECIFICATION Spec
CONSTANTS
    p1 = p1
    p2 = p2
    Procs = {p1, p2}
    OldRows <- Opening
    Faulty = {p1}
    MaxTurns = 3
    TrimTo <- FirstTrims
    MaxAsked = 4
    MaxTools = 1
    MaxCommands <- OneSecond
    MaxFolds <- OneFirst
    Stoppable = {p1}
INVARIANTS ResumeAgrees EffectsDistinct
PROPERTY WritesWhatItRead
CHECK_DEADLOCK FALSE
