SPECIFICATION GraphSpec
CONSTANTS
    Candidates <- Written
    Main = "main"
INVARIANTS
    StatesKnownIfDisciplined
    StepsReachedOnce
    NoRecursion
PROPERTY
    RunsEnd
CHECK_DEADLOCK FALSE
