SPECIFICATION Spec
CONSTANTS
    Ops = {o1, o2, o3}
    Keys = {k1}
    Prints = {p1}
    NoKey = NoKey
    NoPrint = NoPrint
    None = None
    Services <- AllServices
    CallerBases = FALSE
    Crashes = TRUE
    StoreFaults = FALSE
    TornWrites = FALSE
SYMMETRY Interchangeable
INVARIANTS
    StopsOncePerKey
CHECK_DEADLOCK FALSE
