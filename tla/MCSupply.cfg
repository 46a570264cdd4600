SPECIFICATION Spec
CONSTANTS
    BaseReward = 80
    FloorReward = 40
    LogSlotsGenesis = 2
    Activation = 8
    LegacyDay = 3
    V2Day = 2
    LegacyTime = 2
    V2Time = 3
    Rewards <- ThreeTiers
    Interval = 4
    Duration = 36
    LegacyDevEnd = 20
    ShareDenominator = 20
    MinFeeBase = 5
    FeePerInput = 1
    FeePerOutput = 2
    StateGrowthFeeBase = 3
    MaxHeight = 18
    MaxExpansions = 2
    MaxCreated = 4
    Transactions <- GrowAndShrink
    ActiveCounts = {3, 7}
    FirstRecorded = 16
    HistoryStep = 2
    NoAnswer = NoAnswer
INVARIANTS
    ClosedFormIsTheSum
    UserMintsAreTheUsers
    WithheldIsPaid
    BurnShownIsBurned
    HistoryMissesOnlyTheUnread
    PressureIsExact
PROPERTIES
    NextPayoutIsNext
