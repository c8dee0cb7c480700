SPECIFICATION Spec
CONSTANTS
    a = a
    b = b
    c = c
    d = d
    Runs = {r1, r2}
    Nodes <- ForkNodes
    Deps <- ForkDeps
    Groups <- ForkGroups
    EarlyCancel = TRUE
    CloseDuringRun = TRUE
    CallbackRaises = TRUE
INVARIANTS
    InputsReady
PROPERTIES
    RunEnds
    CancelEndsRun
CHECK_DEADLOCK FALSE
