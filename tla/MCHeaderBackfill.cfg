SPECIFICATION HFairSpec
CONSTANTS
    Main = main
    Chains = {main, fork}
    ForkAt <- DeepFork
    NoHash = NoHash
    MaxHeight = 6
    StartTip = 3
    ServingWindow = 1
    MaxReorgDepth = 2
    MaxReorgs = 1
    NodeMayShrink = FALSE
    BodiesMayBeMissing = FALSE
    RecheckDepth = 2
    GetblockFallback = FALSE
    PruneDepth = 0
    PeersOn = FALSE
    InterruptAt <- AnyPlace
    MaxInterrupts = 1
    NodeStaysInReach = FALSE
    FinalDepth = 3
    HeaderBatch = 2
    GenesisMayBeMissing = TRUE
    MaxFailures = 1
INVARIANTS
    HTypeOK
    HeadersFormChain
    HeadersAreFinal
    ProgressTellsTruth
PROPERTIES
    BackfillCompletes
