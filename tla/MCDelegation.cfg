SPECIFICATION Spec
CONSTANTS
    Delegations = {d1, d2}
    PlanTask = t1
    Tasks <- MCTasks
    MaxPlans = 1
    MaxAttempts = 1
    MaxRuns = 2
    Actors = {"agent", "user"}
    NULL = NULL
    MaxEvents = 2
INVARIANTS
    AttemptIsFollowed
    OneRunPerChild
    ReleaseTakesNothing
    RetainedIsThere
CHECK_DEADLOCK FALSE
