SPECIFICATION FairSpec
CONSTANTS
    p1 = p1
    p2 = p2
    Sockets = {1, 2}
    Principals = {p1, p2}
    Slots = {1, 2}
    None = None
    Owners <- OneOrTwoPrincipals
    MaxFrames = 2
    MaxFaults = 1
    MaxRestarts = 1
INVARIANTS
    
    NothingLeftBehind
    
PROPERTIES
    ClosedSocketLeaves
CHECK_DEADLOCK FALSE
