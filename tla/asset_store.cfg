SPECIFICATION Spec
CONSTANTS
    x = x
    y = y
    Threads = {t1, t2}
    Assets = {a1, a2}
    Contents = {x, y}
    SizeOf <- SameSizes
    HotSize = 1
    HasCold = TRUE
    MaxPuts = 3
    None = None
SYMMETRY Symmetry
INVARIANTS
    TypeOK
    OneRevisionPerContent
    HotIsFresh
PROPERTIES
    LedgerSpec
CHECK_DEADLOCK FALSE
