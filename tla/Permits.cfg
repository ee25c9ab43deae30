CONSTANTS
    WorkflowIds = {w1, w2}
    ActionIds = {a1}
    TTL = 2
    Limits = {1}
    MaxLimit = 1
    HeartbeatsArrive = TRUE
SPECIFICATION FairSpec
INVARIANTS
    CountBounded
    WorkflowsWithinLimit
    ReleasedStaysReleased
PROPERTIES
    WaitersAreServed
