SPECIFICATION Spec
CONSTANTS
    Client = {c1, c2}
    NoClient = NoClient
    MaxReports = 3
    MaxDrops = 3
    MaxEarly = 1
    MaxFaults = 1
INVARIANTS
    ConnectedIsCurrent
CHECK_DEADLOCK FALSE
