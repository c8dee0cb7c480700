SPECIFICATION GraphSpec
CONSTANTS
    Node = {a, b, c}
    Orders <- AnyOrder
    Declarable <- NothingDeclared
    MayAdd = TRUE
SYMMETRY Symmetry
INVARIANTS
    GraphTypeOK
    OrderRespectsDependencies
    CycleIsReal
    GroupsAreLayers
CHECK_DEADLOCK FALSE
