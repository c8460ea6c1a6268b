SPECIFICATION FairSpec
CONSTANTS
    Item = {i1, i2}
    Worker = {w1, w2}
    Callback = {c1, c2}
    NoItem = NoItem
    BatchSize = 2
    MaxAttempts = 2
    MaxCrashes = 1
    MaxDeletions = 1
    Timely = TRUE
INVARIANTS NothingIsStranded ClaimExclusive DoneWasSent DeadWasTried
PROPERTIES EveryNoticeSettles ImplementsDelivery
CHECK_DEADLOCK FALSE
