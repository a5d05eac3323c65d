SPECIFICATION Spec
CONSTANTS
    Tasks = {t1, t2}
    MaxPlans = 2
    MaxRuns = 2
    MaxAttempts = 2
    Actors = {agent}
    NULL = NULL
SYMMETRY Symmetry
VIEW View
INVARIANTS
    TypeOK
    OnePlanActive
    OwnerRuns
PROPERTIES
    RevisionTellsChange
CHECK_DEADLOCK FALSE
