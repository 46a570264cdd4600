SPECIFICATION FairSpec
CONSTANTS
    Main = main
    Chains = {main, fork}
    ForkAt <- ForkAtTwo
    NoHash = NoHash
    MaxHeight = 3
    StartTip = 2
    ServingWindow = 3
    MaxReorgDepth = 2
    MaxReorgs = 1
    NodeMayShrink = FALSE
    BodiesMayBeMissing = TRUE
    Coins = {1, 2, 3, 4}
    Segments = {1, 2}
    SegmentOf <- TwoSegments
    Creates <- MixedCreates
    Spends <- MixedSpends
    Owned = {4}
    Amount <- Powers
    MaxEvents = 1
INVARIANTS
    ReadSegmentIsExact
    FlaggedIsSpent
PROPERTIES
    CountsSettle
    BalanceSettles
