SPECIFICATION RecordsSpec
CONSTANTS
    Callers = {a, b, c}
    Connections = {a, b, c}
    Conn <- OwnConnection
    Active = Active
    Statuses = {Active, Inactive}
    None = None
    MaxRetries = 2
    RefUsers = {u1, u2, u3}
    RefCalls = {c1, c2, c3}
    RefNone = RefNone
    RefTaskShare <- TaskShare
    RefWeekShare <- WeekShare
    RefBonus = 1
    RefCap = 3
    RefMonths = 2
    RefCrashes = 1
    MkUsers = {u1, u2, u3}
    MkCalls = {c1, c2, c3}
    UsageLimit = 1
    MkCrashes = 1
    Nobody = Nobody
    ScUsers = {u1, u2, u3}
    ScJobs = {j1, j2}
    ScCodes = {c1, c2, c3}
    ScNone = ScNone
    ScPast = 1
    ScRuns = 3
SYMMETRY Symmetry
INVARIANTS
    StatusIndexExact
    ReferralListed
    BonusPaidOnce
    PointsAreRecorded
    CapRespected
    LimitRespected
    PurchaseIsListed
    SeenOnlyCompleted
    JobsSurvive
    CompensatedExactly
    CodesLead
PROPERTIES
    ImplementsAtomicUpdate
CHECK_DEADLOCK FALSE
