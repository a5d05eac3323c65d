SPECIFICATION Spec
CONSTANTS
    N = 2
    Publishers = {p1}
    BatchSize = 2
    MaxAttempts = 2
    MaxLapses = 1
    MaxDrops = 1
    NULL = NULL
INVARIANTS
    ExclusiveUntilLapse
PROPERTIES
    ImplementsDelivery
    HandledKindsSettle
CHECK_DEADLOCK FALSE
