SPECIFICATION Spec
CONSTANTS
    w1 = w1
    w2 = w2
    t1 = t1
    k1 = k1
    Workers <- MCWorkers
    Tasks <- MCTasks
    Keys <- MCKeys
    Slots <- MCSlots
    TTL = 1
    SWR = 1
    Uncacheable = {}
    L2Enabled = FALSE
    RedisMayHang = FALSE
    PromptThreads = TRUE
    MaxTime = 2
    MaxVersion = 0
    FailureThreshold = 1
    OpenMs = 1
    HalfOpenMaxProbes = 1
    CountCap = 1
    NoKey = NoKey
    NoSlot = NoSlot
    NoResponse = NoResponse
    NoEntry = NoEntry
SYMMETRY WorkerSymmetry
INVARIANTS
    NoBlankAnswer
