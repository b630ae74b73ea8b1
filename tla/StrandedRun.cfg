SPECIFICATION Spec
CONSTANTS
    a1 = a1
    a2 = a2
    r1 = r1
    r2 = r2
    r3 = r3
    g1 = g1
    g2 = g2
    g3 = g3
    g4 = g4
    s1 = s1
    s2 = s2
    w = w
    p = p
    NoWorker = NoWorker
    NoRun = NoRun
    NoAccount = NoAccount
    Accounts = {a1, a2}
    Requests = {r1, r2}
    Runs = {g1, g2}
    Workers = {w}
    Me = w
    Phones = {p}
    Slots = {s1, s2}
    AccountOf <- MCAccountOf
    Priority <- MCPriority
    AllowedFor <- MCAllowedFor
    PhoneOf <- MCPhoneOf
    LoginRequests = {}
    Outcomes = {}
    RunOutcomes = {"completed", "failed"}
    BindingAccounts = {}
    AutoRequests = {}
    BoundRequests = {}
    AllowExistingQueue = FALSE
    ChildrenSurvive = TRUE
    LaunchMayFail = FALSE
    TaskCallsMayFail = FALSE
    SlowBoot = FALSE
    MaxFaults = 0
    MaxRestarts = 0
INVARIANTS
    ActiveRunHasCloser
CHECK_DEADLOCK FALSE
