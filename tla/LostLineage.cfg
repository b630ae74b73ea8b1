SPECIFICATION Spec
CONSTANTS
    g1 = g1
    g2 = g2
    u1 = u1
    u2 = u2
    NoRun = NoRun
    NoAction = NoAction
    Runs = {g1, g2}
    Users = {u1, u2}
    LineageOf <- MCLineageOf
    AllowExistingQueue = FALSE
    StartupLimit = 2
    DrainLimit = 1
    MaxTries <- MCMaxTries
SYMMETRY UserSymmetry
PROPERTIES
    RecoveryCoversLineage
CHECK_DEADLOCK FALSE
