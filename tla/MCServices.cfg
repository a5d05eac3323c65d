SPECIFICATION MCSpec
CONSTANTS
    Jobs = {job1, job2}
    MaxTime = 1
    MaxRestarts = 1
    MaxChanges = 3
    Chat = {m1}
    CacheSize = 1
    Reloaders = {r1}
    MaxManagers = 2
    MaxDeliveries = 2
    MaxConnects = 2
    MaxRequests = 1
    MaxEvents = 3
    NULL = NULL
    None = None
    Clients = {c1, c2}
    MaxOps = 3
INVARIANTS
    ReplySawItsMessage
    SwitchesAreObeyed
    ConnectionsAreKept
PROPERTIES
    DueJobsRun
CHECK_DEADLOCK FALSE
