SPECIFICATION FairSpec
CONSTANTS
    Ops = {o1, o2}
    Keys = {k1, k2}
    Prints = {p1, p2}
    NoKey = NoKey
    NoPrint = NoPrint
    None = None
    Services <- NoEvaluator
    CallerBases = FALSE
    Crashes = TRUE
    StoreFaults = FALSE
    TornWrites = FALSE
INVARIANTS
    TypeOK
    ExecutedOncePerKey
    ReceiptsAgree
    MemoryMirrorsDisk
PROPERTIES
    RecordsOnlySettle
    ImplementsLedger
    OperationsSettle
