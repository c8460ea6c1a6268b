SPECIFICATION Spec
CONSTANTS
    Device = {d1}
    Seller = {s1}
    Item = {i1}
    Worker = {w1}
    NoSeller = NoSeller
    Deleted = Deleted
    NoDevice = NoDevice
    NoItem = NoItem
    MaxFailures = 5
    MaxAttempts = 2
    MaxFaults = 1
INVARIANT AtMostOnce
CHECK_DEADLOCK FALSE
