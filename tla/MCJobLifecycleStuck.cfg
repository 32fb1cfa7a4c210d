SPECIFICATION FairSpec
CONSTANTS
    Jobs = {j1, j2}
    Nodes = {n1}
    Monitors = {m1}
    None = None
    MaxConcurrent = 1
    MaxAnswers = 0
    MaxDeletions = 0
    MaxReconnects = 1
    MaxPings = 0
    MaxRestarts = 0
PROPERTIES
    OngoingJobEnds
CHECK_DEADLOCK FALSE
