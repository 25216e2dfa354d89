SPECIFICATION FairSpec
CONSTANTS
    r1 = r1
    r2 = r2
    r3 = r3
    Requests = {r1, r2, r3}
    Backends = {"redis", "memory"}
    Limit = 2
    Window = 2
    MaxCount = 3
INVARIANTS
    WithinLimit
    AtMostTwiceTheLimit
PROPERTIES
    DenialEnds
