SPECIFICATION Spec
CONSTANTS
    Proc = {p1, p2}
    NoProc = NoProc
    TTL = 2
    BEAT = 1
    Gates = TRUE
    Fast = {p2}
    Ahead <- AheadALittle
    MaxSeq = 4
    MaxTransients = 1
    MaxFaults = 1
    MaxStalls = 0
    MaxCrashes = 1
INVARIANTS LogInOrder
PROPERTIES RepairsOnlyTheAbandoned ImplementsRecord
CHECK_DEADLOCK FALSE
