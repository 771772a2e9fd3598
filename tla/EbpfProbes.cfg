SPECIFICATION ProbesSpec
CONSTANTS
    NoExec = NoExec
    a1 = a1
    a2 = a2
    b1 = b1
    t1 = t1
    pa = pa
    pb = pb
    tb = tb
    s0 = s0
    s1 = s1
    Execs = {a1, a2, b1, t1}
    OsPids = {pa, pb}
    PidOf <- MCPidOf
    Threaded = {t1}
    QueueCap = 2
    TidOf <- MCTidOf
    Cpus = {1, 2}
    Slots = {s0, s1}
    Slot <- MCSlot
    MaxLoads = 2
INVARIANT ProbesInv
PROPERTY ImplementsKernel
CHECK_DEADLOCK FALSE
