CONSTANTS
    Writers = {w1}
    MaxCommits = 4
    InitCommits = 1
    Parents <- MCParents
    SizeMult = 2
    MaxNewCommits = 0
    SplitFlags = {"unspecified", "replace"}
    MaxLayers = 4
    MaxTime = 1
    Grace = 0
    WriteCanFail = FALSE
    NONE = NONE
SPECIFICATION Spec
INVARIANTS
    TypeOK
    ChainLayersExist
PROPERTIES
    IndexedRefinement
