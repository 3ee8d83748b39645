SPECIFICATION Spec
CONSTANTS
    Ops = {o1, o2}
    Keys = {k1, k2}
    Prints = {p1}
    NoKey = NoKey
    NoPrint = NoPrint
    None = None
    Services <- AllServices
    CallerBases = TRUE
    Crashes = TRUE
    StoreFaults = TRUE
    TornWrites = TRUE
SYMMETRY Interchangeable
INVARIANTS
    WriteAhead
    ReceiptsAreDurable
    SucceededIsDurable
CHECK_DEADLOCK FALSE
