SPECIFICATION Spec
CONSTANTS
    MaxRuns = 3
    MaxUserActs = 2
CHECK_DEADLOCK FALSE
INVARIANTS
    TypeOK
PROPERTIES
    PreexistingSurvives
    NothingLeft
    NotResurrected
