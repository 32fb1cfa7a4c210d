SPECIFICATION FairSpec
CONSTANTS
    Sockets = {s1, s2}
    Runs = {r1, r2}
    None = None
    MaxMessages = 1
    MaxErrors = 0
    MaxLostReplies = 0
    MaxRestarts = 1
INVARIANTS
    RecordConsistent
    BackedByLedger
    ExactWhenSerial

    
CHECK_DEADLOCK FALSE
