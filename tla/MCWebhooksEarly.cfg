SPECIFICATION Spec
CONSTANTS
    p1 = p1
    p2 = p2
    Nobody = Nobody
    Processes = {p1}
    Deliveries = {1}
    MaxRetry = 3
    Interval = 2
    BatchSize = 1
    MaxCrashes = 0
INVARIANTS
    RetryWaits
