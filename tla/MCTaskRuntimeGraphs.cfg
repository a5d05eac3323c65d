SPECIFICATION Spec
CONSTANTS
    Tasks = {t1, t2, t3}
    MaxPlans = 2
    MaxRuns = 1
    MaxAttempts = 1
    Actors = {agent}
    NULL = NULL
SYMMETRY Symmetry
VIEW View
INVARIANTS
    DepsComplete
    OpenGoalHasOpenTask
    CompletedPlanIsDone
PROPERTIES
    TaskAuditIsExact
CHECK_DEADLOCK FALSE
