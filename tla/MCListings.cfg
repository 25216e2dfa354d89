SPECIFICATION Spec
CONSTANTS
    Ids = {1, 2, 3, 4}
    Pages = {0, 1}
    Limits = {0, 1, 3}
    DefaultLimit = 1
    MaxLimit = 2
INVARIANTS
    NothingMissed
    CountIsFloor
    QuietSweepExact
    SweepAdvances
