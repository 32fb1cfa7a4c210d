SPECIFICATION FairSpec
CONSTANTS
    Jobs = {j1, j2}
    Clients = {c1}
    None = None
    MaxQueueSize = 1
    MinPriority <- MCMinPriority
    MaxClears = 1
PROPERTIES
    LockEventuallyReleased
    EveryJobLeavesQueue
CHECK_DEADLOCK FALSE
