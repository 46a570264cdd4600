SPECIFICATION Spec
CONSTANTS
    Main = main
    Chains = {main, fork}
    ForkAt <- OneFork
    NoHash = NoHash
    MaxHeight = 4
    StartTip = 3
    ServingWindow = 2
    MaxReorgDepth = 2
    MaxReorgs = 2
    NodeMayShrink = TRUE
    BodiesMayBeMissing = TRUE
    RecheckDepth = 2
    GetblockFallback = TRUE
    PruneDepth = 0
    PeersOn = TRUE
    InterruptAt <- BeforeAdvance
    MaxInterrupts = 1
    NodeStaysInReach = TRUE
INVARIANTS
    OneCanonicalBlock
    MissingBodyHasGapEntry
    EmptiedHeightHasGapEntry
    QuietPollAgrees
    QuietArchiveIsLinked
