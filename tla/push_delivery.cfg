SPECIFICATION FairSpec
CONSTANTS
    Device = {d1, d2}
    Seller = {s1}
    Item = {i1}
    Worker = {w1}
    NoSeller = NoSeller
    Deleted = Deleted
    NoDevice = NoDevice
    NoItem = NoItem
    MaxFailures = 2
    MaxAttempts = 2
    MaxFaults = 1
INVARIANTS RetiredInTime AtMostOncePerFault DoneReachedEveryone QuietRemovalHolds
PROPERTIES EveryPushSettles
CHECK_DEADLOCK FALSE
