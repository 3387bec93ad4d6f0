SPECIFICATION Spec
CONSTANTS
    n1 = n1
    n2 = n2
    Startup = Startup
    Test = Test
    Notifiers <- OneNotifier
    Healthy <- Nobody
    Name <- DifferentTypes
    Extras <- WithBoth
    MaxRetries = 2
    MaxEvents = 1
    MaxSwaps = 0
INVARIANTS
    TypeOK
    BoundedCopies
PROPERTIES
    OneLateCall
\* Every caller returns in the end, and then nothing is left to do.
CHECK_DEADLOCK FALSE
