SPECIFICATION FairSpec
CONSTANTS
    p1 = p1
    p2 = p2
    Nobody = Nobody
    Processes = {p1}
    Deliveries = {1, 2, 3}
    MaxRetry = 2
    Interval = 1
    BatchSize = 1
    MaxCrashes = 1
INVARIANTS
    TypeOK
PROPERTIES
    SettledIsFinal
    EventuallySettled
