SPECIFICATION Spec
CONSTANTS
    Threads = {t1, t2}
    Keys = {k1}
    Versions = {v1, v2}
    Factories = {f1, f2}
    LockIds = {1, 2}
    None = None
INVARIANTS
    TypeOK
    AtMostOnce
    CacheIsCurrent
PROPERTIES
    NeverReplaced
    ResolveEnds
