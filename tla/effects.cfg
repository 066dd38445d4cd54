SPECIFICATION Spec
CONSTANTS
    Proc = {p1, p2}
    NoProc = NoProc
    Effect = {e1, e2}
    Args = {x, y}
    MaxAttempts = 2
    MaxFaults = 1
    MaxStalls = 1
    MaxCrashes = 1
SYMMETRY Symmetry
INVARIANTS SentOnceWhileRecorded HonestReport CleanMeansResolved
PROPERTIES NothingLeavesAfterTheEnd
CHECK_DEADLOCK FALSE
