SPECIFICATION FairSpec
CONSTANTS
    a = a
    b = b
    t1 = t1
    t2 = t2
    t3 = t3
    s1 = s1
    s2 = s2
    Events = {1, 2, 3, 4}
    Keys <- MCKeys
    KeyOf <- MCKeyOf
    Ticks <- MCTicks
    Signals <- MCSignals
    PoolSize = 2
    MaxFailures = 1
INVARIANTS
    CountedOnce
    NoneMissing
CHECK_DEADLOCK FALSE
PROPERTIES
    EventuallyWritten
