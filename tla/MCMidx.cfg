\* Three objects, at most three packs on disk, three clock values, full and
\* batched (--batch-size=2) repacks.
CONSTANTS
    Objects = {1, 2, 3}
    Incoming = {{1}, {2}, {2, 3}}
    KeptPacks = {{2, 3}}
    NameKey <- MCNameKey
    PackOffset <- MCPackOffset
    OffsetBits = 4
    MaxPacks = 4
    MaxTime = 2
    BatchSizes = {0, 2}
    PackKeptObjects = FALSE
    NONE = NONE
SPECIFICATION Spec
INVARIANTS
    TypeOK
    MidxMatchesPacks
    NoObjectLost
    NoWriteBug
PROPERTIES
    ExistingEntriesStable
