CONSTANTS
    Model <- FailuresModel
    Refs <- MCRefs
    Workflows <- MCWorkflows
    Action <- MCAction
    DependsOn <- MCDependsOn
    JoinStrategy <- MCJoinStrategy
    Rank <- MCRank
    Sizes <- MCSizes
    MaxIterations <- MCMaxIterations
    ErrorStrategy <- MCErrorStrategy
    HasRunIf = {"d2", "d6"}
    Fallible = {"d1", "d2", "d3", "d4", "d6", "s1", "s2", "s4", "r1", "r2", "r3"}
    Subflows = {"d6", "s5"}
    MaxPending = 2
    SpawnYieldEvery = 2
    Externalize = TRUE
    ActionLimit = 4
SPECIFICATION FairSpec
INVARIANTS
    PendingBounded
    ScheduledOnce
    ExclusivePaths
PROPERTIES
    FailureIsReported
