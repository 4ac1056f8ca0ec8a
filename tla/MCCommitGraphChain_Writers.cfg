CONSTANTS
    Writers = {w1, w2}
    MaxCommits = 4
    InitCommits = 2
    Parents <- MCParents
    SizeMult = 2
    MaxNewCommits = 0
    SplitFlags = {"unspecified", "replace"}
    MaxLayers = 3
    MaxTime = 0
    Grace = 0
    WriteCanFail = TRUE
    NONE = NONE
SPECIFICATION Spec
INVARIANTS
    ChainWellFormed
    GeometricChain
SYMMETRY WriterSymmetry
