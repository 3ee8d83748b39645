SPECIFICATION Spec
CONSTANTS
    Participants = {alice, bob}
    Reasons <- TwoReasons
    Hints = {2}
    None = None
    MaxId = 3
    MaxNumber = 2
    Restarts = TRUE
INVARIANTS
    TypeOK
    ContractNeverRefuses
    HistoryTellsState
PROPERTIES
    ImplementsChain
