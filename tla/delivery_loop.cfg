SPECIFICATION FairSpec
CONSTANTS
    n1 = n1
    n2 = n2
    Startup = Startup
    Test = Test
    Notifiers <- TwoNotifiers
    Healthy <- Second
    Name <- DifferentTypes
    Extras <- LoopOnly
    MaxRetries = 2
    MaxEvents = 2
    MaxSwaps = 1
INVARIANTS
    ChangesArriveInOrder
    StatusTellsTheOutcome
PROPERTIES
    AllDispatchesEnd
    HealthyAreTold
\* Every caller returns in the end, and then nothing is left to do.
CHECK_DEADLOCK FALSE
