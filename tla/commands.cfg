SPECIFICATION CommandsFairSpec
CONSTANTS
    r1 = r1
    r2 = r2
    Requests <- TwoRequests
    MaxEdits = 1
    Files <- AllFiles
    MaxDuration = 255
    Second = 3
    Parts = 4
    Floats <- FourDigits
    Overflows <- OnEveryProcessor
INVARIANTS
    CommandsTypeOK
    OnlyBuiltSetsAreUsed
    LoneReloadIsInUse
    ResultsAreTheOutcomes
    TestFollowsReload
    CommandsForetell
    IntervalsAreSafe
PROPERTIES
    EveryReloadIsAnswered
