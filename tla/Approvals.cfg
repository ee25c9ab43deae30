CONSTANTS
    r1 = r1
    r2 = r2
    a = a
    b = b
    Runs = {r1, r2}
    Submissions = {s1, s2}
    Dismissals = {s2}
    None = None
    MaxTurns = 2
    Tools = {a, b}
    Asks <- MCAsks
    MaxFaults = 1
SPECIFICATION FairSpec
INVARIANTS
    DecidedBySighted
    FirstWins
    WaitingIsVisible
PROPERTIES
    AcceptedIsExecuted
