SPECIFICATION Spec
CONSTANTS
    ClientIds = {a, b}
    RootId = RootId
    Data = {d, e}
    NoParent = NoParent
    Absent = Absent
    MaxVertex = 3
    UniqueIds = TRUE
SYMMETRY Symmetry
CONSTRAINT Bounded
INVARIANTS
    TypeOK
    RootLive
    IndexComplete
    RestoreFaithful
    DeletedIsGone
    MemorySafe
PROPERTY
    ImplementsById
