SPECIFICATION Spec
CHECK_DEADLOCK FALSE
CONSTANTS
    Main = main
    Chains = {main, fork}
    ForkAt <- ForkAtOne
    MaxHeight = 4
    StartTip = 2
    ServingWindow = 3
    MaxReorgDepth = 2
    MaxReorgs = 1
    NodeMayShrink = FALSE
    BodiesMayBeMissing = FALSE
    FinalDepth = 2
    Importers = {a, b}
    MaxRuns = 1
    MaxFailures = 1
    MaxFrames = 3
    MaxGaps = 1
    Txids = {1, 2}
    Receipts <- SomeReceipts
    Payments <- FirstPayment
    TextFiles <- SomeFiles
    OtherJournals <- ForeignJournals
    NoKey = NoKey
    NoReceipt = NoReceipt
    Corrupt = Corrupt
    NoRow = NoRow
SYMMETRY AnyImporter
INVARIANTS
    ImportedIsTrue
    ImportedOnce
    ReportIsRight
    JournalIsTheWallet
