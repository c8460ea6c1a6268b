SPECIFICATION Spec
CONSTANTS
    Process = {p1, p2}
    Client = {c1}
    NoClient = NoClient
    MaxRequests = 2
    Window = 2
    MaxDelay = 1
    MaxCount = 3
    MaxTime = 3
    MaxLosses = 1
SYMMETRY Symmetry
INVARIANTS WindowBound SlidingBound
CHECK_DEADLOCK FALSE
