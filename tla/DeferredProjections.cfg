SPECIFICATION FairSpec
CONSTANTS
    s1 = s1
    l1 = l1
    NoItem = NoItem
    NoRecord = NoRecord
    Items = {s1, l1}
    Steps = {s1}
    BatchLimit = 1
    MaxAttempts = 2
    MaxFaults = 1
INVARIANTS
    ProjectionTypeOK
    OrderlyEndLosesAtMostOne
PROPERTIES
    RecordsLeaveDelivered
    SpooledSettles
CHECK_DEADLOCK FALSE
