SPECIFICATION LedgerSpec
CONSTANTS
    a1 = a1
    a2 = a2
    r1 = r1
    r2 = r2
    r3 = r3
    w1 = w1
    w2 = w2
    g1 = g1
    g2 = g2
    NoWorker = NoWorker
    NoRun = NoRun
    NoAccount = NoAccount
    Accounts = {a1, a2}
    Requests = {r1, r2, r3}
    Runs = {g1}
    Workers = {w1, w2}
    LoginRequests = {r2}
    Outcomes = {"completed", "failed"}
    RunOutcomes = {"completed"}
    AccountOf <- MCAccountOf
    Priority <- MCPriority
    AllowedFor <- MCAllowedFor
INVARIANTS
    LedgerTypeOK
    ColumnsAgree
    OneActivePerAccount
    CancelDecides
PROPERTIES
    FinalOutcome
    SlotPromise
CHECK_DEADLOCK FALSE
