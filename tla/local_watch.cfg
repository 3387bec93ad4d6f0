SPECIFICATION FairSpec
CONSTANTS
    Names <- TheNames
    Index <- TheIndexes
    Kind <- TheKinds
    Entries <- TheEntries
    IP <- TheIPs
    Class <- TheClasses
    Possible <- TheMachines
    Settings <- TheSettings
    Public = Public
    MaxMoves = 2
    MaxFaults = 1
INVARIANTS
    TypeOK
    SnapshotIsWhatIsThere
PROPERTIES
    EventuallyRight
    WatcherImplementsPipeline
\* The watcher ends when the context is cancelled.
CHECK_DEADLOCK FALSE
