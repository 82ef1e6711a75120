SPECIFICATION FairSpec
CONSTANTS
    w1 = w1
    w2 = w2
    t1 = t1
    k1 = k1
    Workers <- MCWorkers
    Tasks <- MCTasks
    Keys <- MCKeys
    Slots <- MCSlots
    TTL = 1
    SWR = 1
    Uncacheable = {}
    L2Enabled = TRUE
    RedisMayHang = TRUE
    PromptThreads = TRUE
    MaxTime = 1
    MaxVersion = 0
    FailureThreshold = 1
    OpenMs = 1
    HalfOpenMaxProbes = 1
    CountCap = 1
    NoKey = NoKey
    NoSlot = NoSlot
    NoResponse = NoResponse
    NoEntry = NoEntry
PROPERTIES
    RequestsEnd
CHECK_DEADLOCK FALSE
