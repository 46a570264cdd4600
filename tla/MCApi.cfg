SPECIFICATION Spec
CONSTANTS
    Main = main
    Chains = {main, fork}
    ForkAt <- ForkAtFour
    NoHash = NoHash
    Never = Never
    MaxHeight = 7
    StartTip = 4
    ServingWindow = 3
    MaxReorgDepth = 2
    MaxReorgs = 2
    NodeMayShrink = FALSE
    BodiesMayBeMissing = FALSE
    RecheckDepth = 2
    FinalConfirmations = 3
    WindowSize = 2
    PageSize = 2
    MaxAge <- Ages
    FirstBlock = 2
    MaxFills = 1
    MaxClock = 2
INVARIANTS
    FinalAnswersStand
    WindowIsPermanent
    FiguresAreRecent
    FiguresReachTheTip
