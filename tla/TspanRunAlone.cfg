SPECIFICATION RunFairSpec
CONSTANTS
    NULL = NULL
    Admin = Admin
    t1 = t1
    w2 = w2
    Clients <- MCClients
    DefaultClient <- def
    Tokens = {t1, t2}
    Conns <- MCConns
    Requests = {}
    TokenOf <- MCTokenOf
    MaxEvents = 0
    ClockSteps = FALSE
    ImportSpans = {}
    ClientOf <- NoClient
    Wrappers = {w1}
    Pids = {w1}
    MaxId = 1
    MaxTime = 1
    MaxFaults = 3
    Kills = TRUE
    Revokes = TRUE
    Tidies = TRUE
INVARIANT RecordCoversRun
INVARIANT OrphansNeedFaults
PROPERTY WrapperEnds
CHECK_DEADLOCK FALSE
