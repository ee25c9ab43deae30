CONSTANTS
    t1 = t1
    t2 = t2
    t3 = t3
    p1 = p1
    p2 = p2
    Tasks = {t1, t2, t3}
    Processes = {p1, p2}
    ProcessOf <- MCProcessOf
    None = None
    MaxFaults = 3
SPECIFICATION FairSpec
INVARIANTS
    ReturnedUsable
    DownloadedOnce
PROPERTIES
    Served
