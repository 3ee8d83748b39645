SPECIFICATION Spec
CONSTANTS
    Addresses <- FourAddresses
    Domain <- FourDomains
    Payloads = {"old"}
    Scenarios <- FourScenarios
    Services <- BothServices
    Faults = {"reports", "raises", "complains"}
    None = None
INVARIANTS
    TypeOK
    DependenciesFirst
    SnapshotIsReality
    SuccessReachesScenario
