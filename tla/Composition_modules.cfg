SPECIFICATION Spec
CONSTANTS
    FileSystems <- AllFiles
    Main = "main"
    Parts <- Strings
INVARIANTS
    ReferencesSurvive
    ProvenanceSurvives
    NothingShadowed
PROPERTY
    ExpansionEnds
CHECK_DEADLOCK FALSE
