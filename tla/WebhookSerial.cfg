SPECIFICATION FairSpec
CONSTANTS
    Deliveries = {1, 2}
    Orgs = {healthy, dead}
    NoOrg = none
    Healthy = {healthy}
    Workers = {w1}
    Limit = 2
    FirstRetry = 1
    SecondRetry = 2
    LaterRetry = 3
    RunTimeout = 1
CHECK_DEADLOCK FALSE
INVARIANT TypeOK
INVARIANT SuccessesStayMarked
PROPERTY SendsOnlyDue
PROPERTY HealthyOrgHears
PROPERTY KeepsContract
