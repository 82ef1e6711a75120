SPECIFICATION FairSpec
CONSTANTS
    a1 = a1
    a2 = a2
    a3 = a3
    k1 = k1
    k2 = k2
    s1 = s1
    s2 = s2
    s3 = s3
    r1 = r1
    r2 = r2
    Actors <- MCActors
    Keys <- MCKeys
    Slots <- MCSlots
    Responses <- MCResponses
    NoKey = NoKey
    NoSlot = NoSlot
    NoResponse = NoResponse
INVARIANTS
    LeadersMatchMap
    NoOrphanWaiter
    SlotServesOneKey
PROPERTIES
    ReadySlotIsFrozen
    WaitersReturn
