SPECIFICATION Spec
CONSTANTS
    p = p
    q = q
    Procs = {p, q}
    Jobs <- WorkerAndLoader
    Scenarios <- Mixed
    Roots <- TwoRoots
    Parts = {"x"}
    First <- FirstTree
    Versions <- TwoVersions
    Signers = {"s"}
    Policy <- Trusting
    Order <- RootFirst
    MaxEdits = 1
    MaxPushes = 2
    MaxCrashes = 1
    None = None
    Torn = Torn
INVARIANTS
    TypeOK
    LockedLoads
    VerifiedLoads
    CacheSettles
