SPECIFICATION BothSpec
CONSTANTS
    Calls = {c1, c2, c3}
    Workers = {w1, w2}
    Creator = user
    None = None
    Create = create
    FileIds = {f1, f2}
    FileNames = {n1, n2}
    FileCalls = {d1, d2}
    FileSweeps = {s1, s2}
    FileRetries = 1
    DualStorage = TRUE
    NoFile = NoFile
    NoName = NoName
    FileUses = 2
    FileCrashes = 1
    d2 = d2
    f2 = f2
    n2 = n2
    s2 = s2
SYMMETRY Symmetry
INVARIANTS
    ListedSomewhere
    ExactWhenSequential
    StoredIsReadable
    DeletedStaysDeleted
CHECK_DEADLOCK FALSE
