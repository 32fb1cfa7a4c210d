SPECIFICATION ScenarioSpec
CONSTANTS
    j1 = j1
    j2 = j2
    n1 = n1
    n2 = n2
    Jobs = {j1, j2}
    Nodes = {n1, n2}
    Monitors = {m1}
    None = None
    MaxConcurrent = 2
    MaxAnswers = 1
    MaxDeletions = 1
    MaxReconnects = 1
    MaxPings = 1
    MaxRestarts = 1
PROPERTIES
    SlotEventuallyFreed
CHECK_DEADLOCK FALSE
