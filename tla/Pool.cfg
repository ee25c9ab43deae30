CONSTANTS
    Tasks = {t1, t2, t3, t4}
    WorkerIds = {0, 1}
    MaxPids = 5
    MaxConcurrent = 2
    MaxTasks = 2
    MaxCrashes = 1
    MaxCancels = 1
SPECIFICATION FairSpec
INVARIANTS
    SlotsExact
    OneProcessPerWorker
    UndisturbedRecycle
PROPERTIES
    EveryTaskEnds
