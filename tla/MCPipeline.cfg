SPECIFICATION FairSpec
CONSTANTS
    Unset = Unset
    Garbage = Garbage
    None = None
    r1 = r1
    r2 = r2
    ann = ann
    bob = bob
    Requests = {r1, r2}
    Users = {ann, bob}
    Admins = {ann}
    Addresses = {"here", "there"}
    IssuedAt <- PastLogins
    Environments <- SomeEnvironments
    Second = 2
    MaxTime = 2
CHECK_DEADLOCK FALSE
INVARIANTS
    CountedAsAnswered
    ServedToEntitled
    RefusedOnlyWhenExpired
    DeniedForOwnTraffic
PROPERTIES
    EveryRequestAnswered
