SPECIFICATION FixtureSpec
CONSTANTS
    N = 192
    Absent = "Absent"
    RootShape <- MCRoot
    Shapes = {}
    Filters <- FixtureFilters
INVARIANTS
    TypeOK
    ReplyFollowsRequest
