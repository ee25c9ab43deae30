CONSTANTS
    Processes = {p1, p2}
    Versions = {1, 2, 3}
    Old = {1}
    Releases = {2, 3}
    None = None
    MaxStarts = 3
    MaxFaults = 3
    MaxChoices = 1
SPECIFICATION FairSpec
INVARIANTS
    CurrentHasArtifact
    NoDowngrade
PROPERTIES
    RollbackKept
    TargetPromoted
