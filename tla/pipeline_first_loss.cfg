SPECIFICATION Spec
CONSTANTS
    eth0 = eth0
    wlan0 = wlan0
    a = a
    b = b
    Interfaces <- OneInterface
    Public = Public
    Addrs <- TwoAddrs
    NoAddrs = NoAddrs
    Enabled <- LocalOnly
    ChanCap = 2
    MaxChanges = 1
    MaxFaults = 0
    MaxAnswers = 0
PROPERTIES
    EveryDropWasSeen
\* The service really stops once the context is cancelled.
CHECK_DEADLOCK FALSE
