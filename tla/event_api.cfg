SPECIFICATION FairSpec
CONSTANTS
    r1 = r1
    r2 = r2
    r3 = r3
    r4 = r4
    k1 = k1
    k2 = k2
    NoRequest = NoRequest
    NoKey = NoKey
    Request = {r1, r2, r3, r4}
    Key = {k1, k2}
    MaxMishaps = 1
INVARIANT TypeOK
INVARIANT EventHasDelivery
INVARIANT AnswersAgree
INVARIANT ReplayChain
INVARIANT DeadlocksAreOfTwo
PROPERTY ImplementsLog
PROPERTY EventuallyAnswered
