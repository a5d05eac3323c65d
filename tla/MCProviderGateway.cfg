SPECIFICATION Spec
CONSTANTS
    Runs = {r1, r2}
    NTargets = 2
    MaxAttempts = 2
    RouteAttempts = 2
    RunAttempts = 2
    RunCalls = 2
    Threshold = 2
    FallbackOn = {"transient", "circuit_open", "missing"}
    MaxStreams = 2
    NULL = NULL
SYMMETRY Symmetry
VIEW View
INVARIANTS
    OneSpeaker
    LedgerTellsCauses
    RunningIsReal
    WithinBudgets
    SingleProbe
CHECK_DEADLOCK FALSE
