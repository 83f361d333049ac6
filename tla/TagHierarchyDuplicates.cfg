SPECIFICATION Spec
CONSTANTS
    ClientIds = {a, b}
    RootId = RootId
    Data = {d}
    NoParent = NoParent
    Absent = Absent
    MaxVertex = 3
    UniqueIds = FALSE
INVARIANT
    IdFindable
