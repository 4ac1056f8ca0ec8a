\* Racy-git with two git processes sharing the index: edits between
\* commands, within a clock of three seconds.
CONSTANTS
    Procs = {g1, g2}
    Paths = {p1, p2}
    Contents = {"empty", "A", "B"}
    Size <- MCSize
    SizeMod = 2
    EmptyBlob = "empty"
    MaxTime = 3
    EditsDuringCommand = FALSE
    NONE = NONE
SPECIFICATION Spec
INVARIANTS
    TypeOK
    NoFalselyClean
    UptodateIsClean
SYMMETRY ProcSymmetry
PROPERTIES
    StagedOnlyByLockedWrites
\* Once the clock has reached MaxTime a state can still edit, read and
\* write, so deadlock is checked.
