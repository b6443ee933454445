SPECIFICATION ServerSpec
CONSTANTS
    w1 = w1
    w2 = w2
    r1 = r1
    Worker = {w1, w2}
    Request = {r1}
    QueueSize = 2
    PollInterval = 1
    DeliveryTimeout = 8
    ClaimTime = 4
    UpdateTime = 1
    HandlerTime = 1
    ShutdownTimeouts = {4, 5}
SYMMETRY WorkerSymmetry
INVARIANT TypeOK
INVARIANT LeaseCoversPromptJob
INVARIANT AgeBounded
INVARIANT StopsWithin
INVARIANT ServerTypeOK
INVARIANT RequestsFinish
INVARIANT VerdictsFinish
