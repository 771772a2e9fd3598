SPECIFICATION EbpfSpec
CONSTANTS
    NULL = NULL
    NoExec = NoExec
    Host = host
    a1 = a1
    a2 = a2
    d1 = d1
    b1 = b1
    pa = pa
    pb = pb
    Clients = {host}
    Tokens = {}
    ImportSpans = {}
    MaxTime = 0
    ClockSteps = FALSE
    Execs = {a1, a2}
    Pids = {a1, a2}
    OsPids = {pa}
    PidOf <- MCPidOfChain
    Denied = {}
    Threaded = {}
    QueueCap = 4
    MaxId = 4
    MaxEvents = 4
    MaxFaults = 0
    MaxRestarts = 0
    Crashes = {}
    Evicts = FALSE
INVARIANT EveryExitEndsSession
CHECK_DEADLOCK FALSE
