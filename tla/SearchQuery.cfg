SPECIFICATION Spec
CONSTANTS
    N = 4
    NoText = NoText
    RootShape <- MCRoot
    Shapes <- MCShapes
    Searches <- MCSearches
    Types = {"name", "tag"}
INVARIANTS
    TypeOK
    HitsAreFirst
    OptionsAreComplete
