SPECIFICATION Spec
CONSTANTS
    Calls = {k1, k2, k3, k4, k5}
    Names = {n1, n2}
    Emails = {e1, e2}
    Types = {bank, other}
    DefaultType = other
    None = none
SYMMETRY Interchangeable
CHECK_DEADLOCK FALSE
INVARIANT TypeOK
INVARIANT AccountsAsRegistered
INVARIANT AttributedToCaller
INVARIANT SessionsAudited
INVARIANT TypeWasGiven
PROPERTY OwnershipSettled
PROPERTY ActsWhenAdmitted
