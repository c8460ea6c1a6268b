SPECIFICATION Spec
CONSTANTS
    Process = {p1}
    Client = {c1}
    NoClient = NoClient
    MaxRequests = 1
    Window = 2
    MaxDelay = 1
    MaxCount = 2
    MaxTime = 4
    MaxLosses = 0
INVARIANT PerMinute
CHECK_DEADLOCK FALSE
