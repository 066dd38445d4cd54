SPECIFICATION FairSpec
CONSTANTS
    Proc = {p1, p2}
    NoProc = NoProc
    TTL = 1
    BEAT = 1
    Gates = TRUE
    Fast = {p2}
    Ahead <- AheadByTTL
    MaxSeq = 3
    MaxTransients = 0
    MaxFaults = 1
    MaxStalls = 0
    MaxCrashes = 1
PROPERTIES EventuallySettledOrParked OwnershipRespected
CHECK_DEADLOCK FALSE
