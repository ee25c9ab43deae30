CONSTANTS
    Model <- NestedSkipModel
    Refs <- MCRefs
    Workflows <- MCWorkflows
    Action <- MCAction
    DependsOn <- MCDependsOn
    JoinStrategy <- MCJoinStrategy
    Rank <- MCRank
    Sizes <- MCSizes
    MaxIterations <- MCMaxIterations
    ErrorStrategy <- MCErrorStrategy
    HasRunIf = {"n2"}
    Fallible = {}
    Subflows = {}
    MaxPending = 3
    SpawnYieldEvery = 2
    Externalize = FALSE
    ActionLimit <- Unlimited
SPECIFICATION Spec
INVARIANTS
    StreamsClosedOnSuccess
