SPECIFICATION Spec
CONSTANTS
    Sockets = {s1}
    Runs = {r1, r2}
    None = None
    MaxMessages = 0
    MaxErrors = 0
    MaxLostReplies = 0
    MaxRestarts = 0
INVARIANTS
    NoDoubleReward
CHECK_DEADLOCK FALSE
