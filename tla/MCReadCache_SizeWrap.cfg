\* Racy-git with a content whose size is a multiple of 2^32: sd_size keeps
\* 0 for it, the same as for the empty blob.
CONSTANTS
    Procs = {g1, g2}
    Paths = {p1, p2}
    Contents = {"empty", "A", "C"}
    Size <- MCSize
    SizeMod = 2
    EmptyBlob = "empty"
    MaxTime = 3
    EditsDuringCommand = FALSE
    NONE = NONE
SPECIFICATION Spec
INVARIANT
    NoFalselyClean
SYMMETRY ProcSymmetry
