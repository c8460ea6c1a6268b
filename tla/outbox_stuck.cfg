SPECIFICATION FairSpec
CONSTANTS
    Item = {i1, i2}
    Worker = {w1}
    Callback = {c1, c2}
    NoItem = NoItem
    BatchSize = 1
    MaxAttempts = 2
    MaxCrashes = 1
    MaxDeletions = 1
    Timely = TRUE
PROPERTIES NoNoticeIsLost
CHECK_DEADLOCK FALSE
