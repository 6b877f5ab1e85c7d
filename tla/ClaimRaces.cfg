SPECIFICATION Spec
CONSTANTS
    Requests = {r1}
    Calls = {k1, k2, k3, k4}
    Sweepers = {s1}
    Durations = {3}
    PinLifetime = 2
    MaxTime = 5
    None = none
SYMMETRY Interchangeable
CHECK_DEADLOCK FALSE
INVARIANT TypeOK
INVARIANT ReleaseMatchesDecision
INVARIANT OutboxMatchesStatus
INVARIANT OutboxChronological
INVARIANT ExchangePinWithinClaim
INVARIANT NoDetailsAfterEnd
INVARIANT VerificationAudited
PROPERTY ImplementsContract
