CONSTANTS
    Names <- MCNames
    Stages = {0}
    Options <- MCOptions
    MaxEntries = 3
INIT Init
NEXT Next
INVARIANT NoDFConflict
