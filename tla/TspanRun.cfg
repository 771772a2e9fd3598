SPECIFICATION RunSpec
CONSTANTS
    NULL = NULL
    Admin = Admin
    t1 = t1
    w2 = w2
    Clients <- MCClients
    DefaultClient <- def
    Tokens = {t1}
    Conns <- MCConns
    Requests = {}
    TokenOf <- MCTokenOf
    MaxEvents = 0
    ClockSteps = FALSE
    ImportSpans = {}
    ClientOf <- OneNamesAlice
    Wrappers = {w1, w2}
    Pids = {w1, w2}
    MaxId = 2
    MaxTime = 0
    MaxFaults = 2
    Kills = TRUE
    Revokes = FALSE
    Tidies = TRUE
INVARIANT RunInv
INVARIANT OneRowEach
CHECK_DEADLOCK FALSE
