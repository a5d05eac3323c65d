SPECIFICATION LoopsSpec
CONSTANTS
    Keys = {a, b, c}
INVARIANTS
    AcceptsExactlyAcyclic
    CascadeReachesAllBelow
CHECK_DEADLOCK FALSE
