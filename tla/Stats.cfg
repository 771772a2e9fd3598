SPECIFICATION StoreSpec
CONSTANTS
    NULL = NULL
    Clients = {alice, bob}
    Tokens = {}
    Pids = {}
    MaxId = 3
    MaxTime = 1
    MaxEvents = 0
    ClockSteps = TRUE
    ImportSpans <- MCImportSpans
    Zones <- MCZones
    Inputs <- MCInputs
SYMMETRY MCSymmetry
INVARIANT PeriodsRight
INVARIANT BreakdownsRight
INVARIANT DistributionComplete
INVARIANT StreaksAreRuns
INVARIANT CalendarsRight
CHECK_DEADLOCK FALSE
