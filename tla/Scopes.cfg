CONSTANTS
    Model <- ScopesModel
    Refs <- MCRefs
    Workflows <- MCWorkflows
    Action <- MCAction
    DependsOn <- MCDependsOn
    JoinStrategy <- MCJoinStrategy
    Rank <- MCRank
    Sizes <- MCSizes
    MaxIterations <- MCMaxIterations
    ErrorStrategy <- MCErrorStrategy
    HasRunIf = {"s2", "r2", "l1", "l2", "l4", "i2", "i3"}
    Fallible = {"s2", "s3", "s5", "r2", "n3", "l2", "l3", "l5"}
    Subflows = {}
    MaxPending = 2
    SpawnYieldEvery = 2
    Externalize = FALSE
    ActionLimit <- Unlimited
SPECIFICATION FairSpec
INVARIANTS
    IndegreesMatchEdges
    LoopBarrier
    GatherBarrier
    ErrorsGathered
    IterationsBounded
    OpenStreamsExact
    ExecutesInScope
    SuccessIsComplete
PROPERTIES
    Terminates
