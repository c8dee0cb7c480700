SPECIFICATION Spec
CONSTANTS
    Names = {a, b}
    Ports = {p}
    MaxMerges = 1
    MaxVersions = 1
    MaxEdits = 6
    None = None
SYMMETRY Symmetry
INVARIANTS
    WellWired
PROPERTIES
    MergeKeepsBoth
CHECK_DEADLOCK FALSE
