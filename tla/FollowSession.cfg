SPECIFICATION Spec
CONSTANTS
    g1 = g1
    g2 = g2
    u1 = u1
    u2 = u2
    NoRun = NoRun
    NoAction = NoAction
    Runs = {g1, g2}
    Users = {u1, u2}
    LineageOf <- MCLineageOf
    AllowExistingQueue = TRUE
    StartupLimit = 2
    DrainLimit = 1
    MaxTries <- MCMaxTries
SYMMETRY UserSymmetry
INVARIANTS
    FollowTypeOK
    CountedOnce
    PersistedIsCounted
    NextCandidateBlocked
PROPERTIES
    TallyPromise
    RowsLeaveDelivered
    TapOutcomeKept
    RecoveryCountsOwn
    StartupCountsAll
CHECK_DEADLOCK FALSE
