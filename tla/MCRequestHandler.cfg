SPECIFICATION Spec
CONSTANTS
    w1 = w1
    w2 = w2
    t1 = t1
    k1 = k1
    Workers <- MCWorkers
    Tasks <- MCTasks
    Keys <- MCKeys
    Slots <- MCSlots
    TTL = 2
    SWR = 1
    Uncacheable = {1}
    L2Enabled = TRUE
    RedisMayHang = FALSE
    PromptThreads = TRUE
    MaxTime = 4
    MaxVersion = 1
    FailureThreshold = 1
    OpenMs = 1
    HalfOpenMaxProbes = 1
    CountCap = 1
    NoKey = NoKey
    NoSlot = NoSlot
    NoResponse = NoResponse
    NoEntry = NoEntry
SYMMETRY WorkerSymmetry
INVARIANTS
    OneFetchPerKey
    OnlyCacheableStored
    BreakerSeesEveryFetch
    FreshContentAge
PROPERTIES
    UsesRegistry
