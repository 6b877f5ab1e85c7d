SPECIFICATION Spec
CONSTANTS
    Calls = {c1, c2, c3, c4}
    PINs = {p1, p2}
    Malformed = malformed
    NoPIN = nopin
    MaxFailedAttempts = 1
    LockoutDuration = 1
    Requests = {r1}
    Sweepers = {s1}
    Durations = {1, 2}
    PinLifetime = 1
    MaxTime = 2
    None = none
SYMMETRY Interchangeable
CHECK_DEADLOCK FALSE
INVARIANT ReleasedByOwnPIN
INVARIANT DisclosedByConsent
