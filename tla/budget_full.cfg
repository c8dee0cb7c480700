SPECIFICATION Spec
CONSTANTS
    Threads = {t1, t2}
    Handles = {h1, h2, h3, h4}
    Budget <- TwoGb
    Requests <- MixedRequests
    Batches <- Pairs
    Epsilon = 0
    MaxAttempts = 3
    Teardown = TRUE
    None = None
SYMMETRY Symmetry
INVARIANTS
    Accounting
CHECK_DEADLOCK FALSE
