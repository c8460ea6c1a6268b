SPECIFICATION Spec
CONSTANTS
    Device = {d1}
    Seller = {s1}
    Item = {i1}
    Worker = {w1}
    NoSeller = NoSeller
    Deleted = Deleted
    NoDevice = NoDevice
    NoItem = NoItem
    MaxFailures = 5
    MaxAttempts = 2
    MaxFaults = 0
INVARIANT RemovalHolds
CHECK_DEADLOCK FALSE
