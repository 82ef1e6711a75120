SPECIFICATION FairSpec
CONSTANTS
    w1 = w1
    w2 = w2
    k1 = k1
    k2 = k2
    Workers = {w1, w2}
    Keys = {k1, k2}
    Foreign = {k1}
    Lines <- MCLines
    Payloads <- MCPayloads
    MaxPuts = 2
    MaxMessages = 2
    MaxConnects = 2
    None = None
INVARIANTS
    GetIsCurrent
    HandledExactly
PROPERTIES
    SubscriberKeepsUp
    L2CallReturns
