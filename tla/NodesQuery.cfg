SPECIFICATION Spec
CONSTANTS
    N = 4
    Absent = "Absent"
    RootShape <- MCRoot
    Shapes <- MCShapes
    Filters <- MCFilters
INVARIANTS
    TypeOK
    ValidUpwards
    ReplyIsFiltered
    SeverityIsHighest
    SuppressedIffAny
    NoLevelFromBelow
