SPECIFICATION Spec
CONSTANTS
    slow = slow
    right = right
    fast = fast
    NoAnswer = NoAnswer
    NoRequest = NoRequest
    Holder <- MCHolder
    Offset <- MCOffset
    LeastOffset <- MCLeastOffset
    Code <- MCCode
    ClaimLease = 10
    ClaimTime = 2
    JobTime = 7
    MaxAttempts = 3
    MaxLosses = 2
INVARIANT TypeOK
INVARIANT OneHolder
INVARIANT AttemptsAccounted
INVARIANT OutageSurvived
PROPERTY FinalStays
