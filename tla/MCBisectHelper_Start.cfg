CONSTANTS
    c1 = c1
    c2 = c2
    Commits <- MCCommits
    Terms <- MCTerms
    InvalidRefTerms = {}
    MaxRevs = 2
    WriteCanFail = FALSE
    NoCommit = NoCommit
    NoTerms = NoTerms
    Default = Default
SPECIFICATION Spec
INVARIANT RefsNamedByTerms
