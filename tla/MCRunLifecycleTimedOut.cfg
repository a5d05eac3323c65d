SPECIFICATION Spec
CONSTANTS
    Procs = {p1}
    MaxRuns = 1
    MaxTurns = 1
    Unlimited = {}
    MaxCalls = 1
    MaxCancels = 0
    MaxInterrupts = 0
    MaxCrashes = 0
    MaxStalls = 0
    MaxFaults = 0
    NULL = NULL
PROPERTIES
    StoppedIsNotCompleted
CHECK_DEADLOCK FALSE
