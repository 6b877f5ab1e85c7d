SPECIFICATION Spec
CONSTANTS
    Calls = {c1, c2, c3, c4}
    PINs = {p1, p2}
    Malformed = malformed
    NoPIN = nopin
    MaxFailedAttempts = 2
    LockoutDuration = 2
    MaxTime = 4
    Concurrent = TRUE
SYMMETRY Interchangeable
CHECK_DEADLOCK FALSE
INVARIANT TypeOK
INVARIANT LockIsEarned
INVARIANT LockEndsInTime
PROPERTY LockLiftedOnlyByStaleOrNewPIN
