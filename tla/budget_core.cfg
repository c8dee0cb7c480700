SPECIFICATION Spec
CONSTANTS
    Threads = {t1, t2, t3}
    Handles = {h1, h2, h3}
    Budget <- TwoGb
    Requests <- MixedRequests
    Batches = {}
    Epsilon = 0
    MaxAttempts = 2
    Teardown = FALSE
    None = None
SYMMETRY Symmetry
INVARIANTS
    TypeOK
    WithinBudget
    NoSleepingWhileFits
    ReleasedIsReturned
PROPERTY PoolSpec
CHECK_DEADLOCK FALSE
