SPECIFICATION Spec
CONSTANTS
    Callers = {a, b}
    Connections = {a, b}
    Conn <- SharedConnection
    Statuses = {Active, Inactive}
    None = None
    MaxRetries = 2
INVARIANTS
    NoLostUpdate
CHECK_DEADLOCK FALSE
