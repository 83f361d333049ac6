SPECIFICATION Spec
CONSTANTS
    ClientIds = {a, RootId}
    RootId = RootId
    Data = {d}
    NoParent = NoParent
    Absent = Absent
    MaxVertex = 2
    UniqueIds = FALSE
INVARIANT
    HealthyMeansRooted
