CONSTANTS
    Schedules = {s1, s2}
    Statuses = {"online", "offline"}
    Updates <- MCUpdates
    Remote <- MCRemote
    None = None
    MaxRequests = 4
    MaxFaults = 1
SPECIFICATION Spec
SYMMETRY Symmetry
INVARIANTS
    Mirrored
    NoOrphans
