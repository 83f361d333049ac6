SPECIFICATION Spec
CONSTANTS
    ClientIds = {a, RootId}
    RootId = RootId
    Data = {d}
    NoParent = NoParent
    Absent = Absent
    MaxVertex = 3
    UniqueIds = FALSE
CONSTRAINT SmallArchive
INVARIANTS
    IndexSound
    EdgesLive
    Forest
    ParentLinkAgrees
PROPERTY
    DeleteTakesSubtree
