SPECIFICATION FairSpec
CONSTANTS
    Producer = {p1, p2, p3}
    Capacity = 2
    MaxEvents = 4
INVARIANTS Lossless CountersCertify ReadInOrder NoStrandedProducer
PROPERTY NobodyWaitsForEver
CHECK_DEADLOCK FALSE
