SPECIFICATION Spec
CONSTANTS
    w1 = w1
    w2 = w2
    Worker = {w1, w2}
    QueueSize = 2
    PollInterval = 1
    DeliveryTimeout = 5
    ClaimTime = 0
    UpdateTime = 0
INVARIANT LeaseCoversDelivery
