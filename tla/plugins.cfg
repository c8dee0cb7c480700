SPECIFICATION Spec
CONSTANTS
    one = one
    two = two
    x = x
    y = y
    z = z
    m1 = m1
    m2 = m2
    m3 = m3
    m4 = m4
    Threads = {t1, t2}
    PluginNames = {one, two}
    Types = {x, y, z}
    Provides <- TwoModules
    Names = {m1, m2, m3, m4}
    ModName <- FourKeys
    None = None
SYMMETRY Symmetry
INVARIANTS
    TypeOK
    NothingLeftBehind
    LoadedHasItsNodes
    DisabledStaysOut
