SPECIFICATION Spec
CONSTANTS
    Workflows <- TwoWorkflows
    Steps <- ThreeSteps
    None = None
    Observable <- MCObservable
    Targets <- MCTargets
    Triggers <- MCTriggers
    Timeout <- MCTimeout
    TicksPerSecond = 1
    MaxClock = 2
    Reports <- MCReports
INVARIANTS
    TypeOK
PROPERTIES
    OnlyIncoherentBreak
    ImplementsLifecycle
