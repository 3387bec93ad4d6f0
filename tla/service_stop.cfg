SPECIFICATION Spec
CONSTANTS
    StopBound = 10
    ShutdownBound = 5
    LookupBound = 12
    NotifyBound = 15
INVARIANTS
    TypeOK
    OnlyTheLookupOutlastsStop
    EarlyExitIsClean
    WatchesUntilStopped
\* The process exits.
CHECK_DEADLOCK FALSE
