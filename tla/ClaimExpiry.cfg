SPECIFICATION FairSpec
CONSTANTS
    Requests = {r1, r2}
    Calls = {k1, k2}
    Sweepers = {s1, s2}
    Durations = {1, 2}
    PinLifetime = 1
    MaxTime = 3
    None = none
CHECK_DEADLOCK FALSE
INVARIANT OutboxMatchesStatus
PROPERTY DueClaimsEnd
