SPECIFICATION Spec
CONSTANTS
    g1 = g1
    g2 = g2
    g3 = g3
    u1 = u1
    u2 = u2
    u3 = u3
    u4 = u4
    NoRun = NoRun
    NoAction = NoAction
    Runs = {g1, g2, g3}
    Users = {u1, u2, u3, u4}
    Followed = {u1, u2, u3}
    SessionOf <- OwnSessions
    DayLimit = 2
    SessionCap = 2
    MaxDoubts = 1
SYMMETRY UserSymmetry
PROPERTIES
    NoBlindReplay
CHECK_DEADLOCK FALSE
