SPECIFICATION FairSpec
CONSTANTS
    Main = main
    Chains = {main, fork}
    ForkAt <- OneFork
    NoHash = NoHash
    MaxHeight = 4
    StartTip = 3
    ServingWindow = 2
    MaxReorgDepth = 2
    MaxReorgs = 1
    NodeMayShrink = FALSE
    BodiesMayBeMissing = TRUE
    RecheckDepth = 2
    GetblockFallback = TRUE
    PruneDepth = 2
    PeersOn = TRUE
    InterruptAt <- BeforeAdvance
    MaxInterrupts = 1
    NodeStaysInReach = TRUE
INVARIANTS
    NoHeightSkipped
PROPERTIES
    NothingLost
    ImplementsArchive
    ArchiveCatchesUp
