SPECIFICATION ApiSpec
CONSTANTS
    NULL = NULL
    Admin = Admin
    Clients <- MCClients
    DefaultClient <- def
    Tokens = {t1, t2}
    Pids = {}
    Conns = {k1, k2}
    Requests <- MCRequests
    MaxId = 2
    MaxTime = 0
    MaxEvents = 1
    ClockSteps = FALSE
    ImportSpans <- MCImportSpans
SYMMETRY MCSymmetry
INVARIANT ApiTypeOK
 
INVARIANT RepliesDistinct
INVARIANT RepliesTruthful
PROPERTY WritesInScope
 
CHECK_DEADLOCK FALSE
