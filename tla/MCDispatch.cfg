SPECIFICATION DispatchSpec
CONSTANTS
    Jobs = {j1, j2, j3}
    Clients = {c1, c2}
    None = None
    MaxQueueSize = 1
    MinPriority <- MCMinPriority
    MaxClears = 1
    DcNodes = {n1, n2}
    DcFirst = n1
    DcSecond = n2
    DcJobs = {d1}
    DcNoJob = DcNoJob
    DcCalls = {c1, c2}
    DcMaxRequests = 4
    CsClients = {1, 2}
    CsCalls = {c1, c2}
    CsReturned = 2
    CsMaxKeys = 3
    CsRestarts = 1
SYMMETRY Symmetry
INVARIANTS
    LoopsAreTracked
    JobInOnePlace
    CountMatchesWaiting
    DuplicatesOnlyFromTimeouts
    QueueBounded
    PaidPerAssignment
    NumbersFollowKeys
    ListedIsCertified
    PolledOnce
PROPERTIES
    ImplementsJobDelivery
CHECK_DEADLOCK FALSE
