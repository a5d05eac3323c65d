SPECIFICATION Spec
CONSTANTS
    Procs = {p1}
    MaxRuns = 2
    MaxTurns = 1
    Unlimited = {2}
    MaxCalls = 2
    MaxCancels = 0
    MaxInterrupts = 1
    MaxCrashes = 1
    MaxStalls = 1
    MaxFaults = 1
    NULL = NULL
PROPERTIES
    EveryRunEnds
CHECK_DEADLOCK FALSE
