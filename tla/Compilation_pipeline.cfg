CONSTANTS
    Image = Image
    Size = Size
    Host = Host
    Linux = Linux
    Windows = Windows
    NoValue = NoValue
    Variables = {Image, Size, Host}
    Labels <- MCLabels
    Position <- MCPosition
    FirstDrafts <- MCFirstDrafts
    Drafts <- MCDrafts
    Parameters <- MCParameters
    Manifests <- MCManifests
    MaxEdits = 2
SPECIFICATION PipelineSpec
INVARIANTS
    AcceptedCompiles
    OnlyDeploymentsCycle
    DependenciesPlanned
    EditsReachBackend
    PlanFits
CHECK_DEADLOCK FALSE
