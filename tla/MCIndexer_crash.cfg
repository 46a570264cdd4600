SPECIFICATION Spec
CONSTANTS
    Main = main
    Chains = {main, fork}
    ForkAt <- OneFork
    NoHash = NoHash
    MaxHeight = 4
    StartTip = 3
    ServingWindow = 2
    MaxReorgDepth = 2
    MaxReorgs = 1
    NodeMayShrink = FALSE
    BodiesMayBeMissing = FALSE
    RecheckDepth = 2
    GetblockFallback = TRUE
    PruneDepth = 0
    PeersOn = FALSE
    InterruptAt <- OnlyAdvance
    MaxInterrupts = 1
    NodeStaysInReach = TRUE
INVARIANTS
    OneCanonicalBlock
