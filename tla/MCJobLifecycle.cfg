SPECIFICATION ScenarioSpec
CONSTANTS
    Jobs = {j1, j2}
    Nodes = {n1}
    Monitors = {m1}
    None = None
    MaxConcurrent = 1
    MaxAnswers = 2
    MaxDeletions = 1
    MaxReconnects = 1
    MaxPings = 1
    MaxRestarts = 1
SYMMETRY Symmetry
INVARIANTS
    ActiveWithinCapacity
    NeverOverpaid

    
CHECK_DEADLOCK FALSE
