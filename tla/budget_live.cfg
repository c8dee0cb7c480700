SPECIFICATION Spec
CONSTANTS
    Threads = {t1, t2, t3}
    Handles = {h1, h2, h3}
    Budget <- OneGb
    Requests <- OneGbOnly
    Batches = {}
    Epsilon = 0
    MaxAttempts = 2
    Teardown = FALSE
    None = None
PROPERTIES
    TimedWaitEnds
    DrainedLeavesNobodyBlocked
CHECK_DEADLOCK FALSE
