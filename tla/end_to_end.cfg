SPECIFICATION FairSpec
CONSTANTS
    eth0 = eth0
    a = a
    n1 = n1
    n2 = n2
    Interfaces <- OneInterface
    Public = Public
    Addrs <- OneAddr
    NoAddrs = NoAddrs
    Enabled <- LocalOnly
    ChanCap = 1
    MaxChanges = 1
    MaxFaults = 1
    MaxAnswers = 0
    Notifiers <- TwoNotifiers
    Healthy <- Second
    Name <- DifferentTypes
    Startup = Startup
    Test = Test
    MaxRetries = 1
    MaxEvents = 3
PROPERTIES
    HealthyReadALedger
    NothingSentAfterReturn
    PipelineImplemented
    DeliveryImplemented
    SubscribersCatchUp
    ShutdownCompletes
\* The service really stops once the context is cancelled.
CHECK_DEADLOCK FALSE
