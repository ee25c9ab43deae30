CONSTANTS
    Consumers = {c1, c2}
    e1 = e1
    e2 = e2
    w1 = w1
    w2 = w2
    None = None
    Events = {e1, e2}
    Workflows = {w1, w2}
    Type <- MCType
    Tags <- MCTags
    Explicit <- MCExplicit
    Subscriptions <- MCSubscriptions
    Filters <- MCFilters
    Batch = 2
    MaxFaults = 1
    Worlds <- MCWorlds
SPECIFICATION FairSpec
INVARIANTS
    AckedIsSettled
    DuplicatesNeedFaults
PROPERTIES
    ImplementsDelivery
    EveryMessageAcked
