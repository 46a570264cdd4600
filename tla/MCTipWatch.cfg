SPECIFICATION FairSpec
CONSTANTS
    Main = main
    Chains = {main, fork}
    ForkAt <- ForkAtTwo
    MaxHeight = 3
    StartTip = 2
    ServingWindow = 3
    MaxReorgDepth = 2
    MaxReorgs = 3
    NodeMayShrink = FALSE
    BodiesMayBeMissing = FALSE
    NoTime = NoTime
    PeerTime = PeerTime
    NoTip = NoTip
    TipWalk = 2
    KnownMax = 5
    MaxTroubles = 1
    MaxAsks = 1
INVARIANTS
    TimeIsAnArrival
PROPERTIES
    TimeIsKept
    TipGetsTime
