SPECIFICATION FairSpec
CONSTANTS
    Main = main
    Chains = {main, fork}
    ForkAt <- OneFork
    NoHash = NoHash
    MaxHeight = 4
    StartTip = 3
    ServingWindow = 2
    MaxReorgDepth = 2
    MaxReorgs = 1
    NodeMayShrink = FALSE
    BodiesMayBeMissing = TRUE
    StartLast = 1
    RecheckDepth = 2
    PruneDepth = 3
    Batch = 4
    PeerHolds = {2}
    MaxFails = 1
INVARIANTS
    RawIsTheBlock
    BytesNeedABody
PROPERTIES
    ServedBytesAreKept
    PeersFillGaps
