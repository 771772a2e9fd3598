SPECIFICATION AppSpec
CONSTANTS
    Clients = {1, 2}
    Aliases = {1, 2}
    Substring <- MCSubstring
    InitialTables <- MCTables
    MaxId = 3
    MaxToken = 2
    MaxChanges = 1
    Pins <- MCPins
    PageSize = 1
    MaxFaults = 1
INVARIANT TuiInv
PROPERTY FiltersKept
PROPERTY OffersHaveRecords
PROPERTY ShowsServer
CHECK_DEADLOCK FALSE
