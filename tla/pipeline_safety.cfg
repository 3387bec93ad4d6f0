SPECIFICATION Spec
CONSTANTS
    eth0 = eth0
    wlan0 = wlan0
    a = a
    b = b
    Interfaces <- TwoInterfaces
    Public = Public
    Addrs <- TwoAddrs
    NoAddrs = NoAddrs
    Enabled <- AllWatchers
    ChanCap = 2
    MaxChanges = 3
    MaxFaults = 1
    MaxAnswers = 1
SYMMETRY Symmetry
INVARIANTS
    TypeOK
    Chain
    OrderlyShutdown
    StatusAgreesWhenDrained
PROPERTIES
    OnlyFirstLossDropped
    ToldInOrder
\* The service really stops once the context is cancelled.
CHECK_DEADLOCK FALSE
