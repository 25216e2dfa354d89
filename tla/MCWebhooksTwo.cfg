SPECIFICATION FairSpec
CONSTANTS
    p1 = p1
    p2 = p2
    Nobody = Nobody
    Processes = {p1, p2}
    Deliveries = {1}
    MaxRetry = 3
    Interval = 1
    BatchSize = 1
    MaxCrashes = 1
INVARIANTS
    RetryBudget
    SuccessWasAccepted
PROPERTIES
    OverwritesBounded
    EventuallySettled
