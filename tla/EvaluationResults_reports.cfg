SPECIFICATION Spec
CONSTANTS
    Resources <- OneOfEach
    Kind <- BothKinds
    MaxScores <- TwoMaxima
    None = None
    MaxHistory = 3
    MaxClock = 1
INVARIANTS
    PublishedAsPromised
    HonestNeverRefused
