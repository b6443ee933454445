SPECIFICATION ServerSpec
CONSTANTS
    w1 = w1
    w2 = w2
    r1 = r1
    Worker = {w1, w2}
    Request = {r1}
    QueueSize = 2
    PollInterval = 3
    DeliveryTimeout = 5
    ClaimTime = 0
    UpdateTime = 0
    HandlerTime = 6
    ShutdownTimeouts = {7}
INVARIANT SendsFinish
