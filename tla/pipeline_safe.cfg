SPECIFICATION Spec
CONSTANTS
    a = a
    b = b
    c = c
    d = d
    Runs = {r1, r2}
    Nodes <- DiamondNodes
    Deps <- DiamondDeps
    Groups <- DiamondGroups
    EarlyCancel = FALSE
    CloseDuringRun = FALSE
    CallbackRaises = FALSE
SYMMETRY Symmetry
INVARIANTS
    TypeOK
    OneRun
    QuietAfterReturn
    CancelStopsNextLayer
CHECK_DEADLOCK FALSE
