SPECIFICATION Spec
CONSTANTS
    Procs = {p1, p2}
    MaxRuns = 2
    MaxTurns = 1
    Unlimited = {2}
    MaxCalls = 1
    MaxCancels = 1
    MaxInterrupts = 0
    MaxCrashes = 1
    MaxStalls = 1
    MaxFaults = 0
    NULL = NULL
SYMMETRY Symmetry
VIEW View
INVARIANTS
    EndedRunIsPublished
    LeaseNamesOwnedRun
    ExclusiveUntilStall
PROPERTIES
    EndedIsFinal
CHECK_DEADLOCK FALSE
