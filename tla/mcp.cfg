SPECIFICATION FairSpec
CONSTANTS
    Server = {s1, s2, s3}
    Caller = {c1, c2}
    Reporters = {c1, c2}
    Host = Host
INVARIANT CloseKeepsItsWord
PROPERTY EveryoneIsAnswered
CHECK_DEADLOCK FALSE
