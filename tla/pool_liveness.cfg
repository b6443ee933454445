SPECIFICATION FairMetricsSpec
CONSTANTS
    p1 = p1
    w1 = w1
    w2 = w2
    NoEvent = NoEvent
    Event = {e1}
    Proc = {p1}
    Worker = {w1}
    Host <- HostShared
    MaxDeliveries = 2
    MaxAttempts = 2
    QueueSize = 1
    MaxMishaps = 2
INVARIANTS
    QueueDepthCounts
    InFlightCounts
    FinalsAreRows
PROPERTIES
    EventuallySettled
    ShutdownCompletes
