SPECIFICATION Spec
CONSTANTS
    Deliveries = {1}
    Orgs = {healthy, dead}
    NoOrg = none
    Healthy = {healthy}
    Workers = {w1, w2}
    Limit = 1
    FirstRetry = 1
    SecondRetry = 2
    LaterRetry = 3
    RunTimeout = 1
CHECK_DEADLOCK FALSE
SYMMETRY Interchangeable
INVARIANT SuccessesStayMarked
