SPECIFICATION StoreSpec
CONSTANTS
    NULL = NULL
    Clients = {alice, bob}
    Tokens = {t1}
    Pids = {}
    MaxId = 3
    MaxTime = 2
    MaxEvents = 1
    ClockSteps = FALSE
    ImportSpans <- MCImportSpans
INVARIANT StoreTypeOK
 
PROPERTY ClosedIsFinal
PROPERTY ImplementsLifecycle
CHECK_DEADLOCK FALSE
