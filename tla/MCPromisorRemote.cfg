CONSTANTS
    Names = {"a", "b", "/s"}
    SlashNames = {"/s"}
    Nodes = {n1, n2, n3}
    Configs <- MCConfigs
    PartialClones = {NONE, "a", "b", "/s"}
    Objects = {"o1", "o2"}
    Has <- MCHas
    FetchCanFail = TRUE
    NULL = NULL
    HEADPTR = HEADPTR
    NONE = NONE
SPECIFICATION Spec
INVARIANTS
    TypeOK
    ListWellFormed
    ListMatchesConfig
    GetDirectSound
