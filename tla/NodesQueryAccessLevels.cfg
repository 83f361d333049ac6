SPECIFICATION Spec
CONSTANTS
    N = 3
    Absent = "Absent"
    RootShape <- MCRoot
    Shapes <- AccessShapes
    Filters <- Unfiltered
INVARIANT
    AccessLevelInherited
