SPECIFICATION FairSpec
CONSTANTS
    Notices <- MCNotices
    QueueDepthLimit = 2
    DedupWindow = 2
    UnhealthyLimit = 2
    StartTimes = {1, 2}
    MaxNow = 4
    MaxLog = 2
    MaxFaults = 2
CHECK_DEADLOCK FALSE
INVARIANTS
    DepthBounded
    RowsApart
    Accounted
    UnhealthyNotMerged
PROPERTIES
    EventuallyCaughtUp
