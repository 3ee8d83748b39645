SPECIFICATION Spec
CONSTANTS
    Addresses <- TwoAddresses
    Domain <- TwoDomains
    Payloads = {"old", "new"}
    Scenarios <- TwoScenarios
    Services <- BothServices
    Faults = {"reports"}
    None = None
INVARIANTS
    RefreshNotLost
