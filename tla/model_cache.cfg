SPECIFICATION Spec
CONSTANTS
    latest = latest
    tagged = tagged
    Threads = {t1, t2}
    Entries = {latest, tagged}
    Below <- Nested
    Versions = {v1, v2}
    Files = {f1, f2}
    Rotten = Rotten
    MaxFetches = 3
    None = None
SYMMETRY Symmetry
INVARIANTS
    TypeOK
    ManifestIsTruthful
    ServedIsWhole
CHECK_DEADLOCK FALSE
