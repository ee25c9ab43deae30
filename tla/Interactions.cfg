CONSTANTS
    i1 = i1
    i2 = i2
    a = a
    b = b
    c = c
    Interactions = {i1, i2}
    Answers = {a, b, c}
    Target <- MCTarget
    None = None
    MaxFaults = 4
SPECIFICATION FairInteractionSpec
INVARIANTS
    ReturnedIsRecorded
PROPERTIES
    AcceptedIsReturned
