\* Three listed records and an active one on pages of one or two; a bookmark
\* may hold an alias that no record has.
CONSTANTS
    None = None
    one = one
    test = test
    tests = tests
    Recs <- MCRecs
    Boxes <- MCBoxes
    Fields <- MCFields
    Part <- MCPart
    Initially <- MCInitially
    MaxEvents = 3
    MaxFaults = 1
    Charts = {"commands"}
    DepthChart = "commands"
    Values <- MCValues
    DefaultPer = 1
    AdminPer = 1
    Bookmarks <- MCBookmarks
SPECIFICATION Spec
INVARIANT PanelsExplained
INVARIANT PagesOK
INVARIANT DoneNotOffered
 
PROPERTY Settles
CHECK_DEADLOCK FALSE
