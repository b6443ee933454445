SPECIFICATION Spec
CONSTANTS
    p1 = p1
    p2 = p2
    w1 = w1
    w2 = w2
    NoEvent = NoEvent
    Event = {e1}
    Proc = {p1}
    Worker = {w1, w2}
    Host <- HostShared
    MaxDeliveries = 2
    MaxAttempts = 2
    QueueSize = 1
    MaxMishaps = 1
PROPERTY TerminalIsFinal
