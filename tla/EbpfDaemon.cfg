SPECIFICATION EbpfFairSpec
CONSTANTS
    NULL = NULL
    NoExec = NoExec
    Host = host
    a1 = a1
    a2 = a2
    d1 = d1
    b1 = b1
    pa = pa
    pb = pb
    Clients = {host}
    Tokens = {}
    ImportSpans = {}
    MaxTime = 0
    ClockSteps = FALSE
    Execs = {a1, a2, d1, b1}
    Pids = {a1, a2, d1, b1}
    OsPids = {pa, pb}
    PidOf <- MCPidOf
    Denied = {d1}
    Threaded = {a2}
    QueueCap = 2
    MaxId = 6
    MaxEvents = 6
    MaxFaults = 1
    MaxRestarts = 1
    Crashes = {"replay", "loop"}
    Evicts = TRUE
INVARIANT DaemonInv
INVARIANT EndedAfterExit
 
 
PROPERTY ReplayEnds
CHECK_DEADLOCK FALSE
