SPECIFICATION Spec
CONSTANTS
    Main = main
    Chains = {main, fork}
    ForkAt <- OneFork
    NoHash = NoHash
    MaxHeight = 5
    StartTip = 3
    ServingWindow = 4
    MaxReorgDepth = 1
    MaxReorgs = 1
    NodeMayShrink = FALSE
    BodiesMayBeMissing = FALSE
    RecheckDepth = 1
    GetblockFallback = TRUE
    PruneDepth = 0
    PeersOn = FALSE
    InterruptAt <- NoPlaces
    MaxInterrupts = 1
    NodeStaysInReach = FALSE
INVARIANTS
    QuietArchiveIsLinked
