\* Up to two commits, one extra edge, Bloom chunks, two layers; one
\* damage of any offset, id or size after the write.
CONSTANTS
    HeaderSize = 2
    LookupWidth = 3
    FanoutSize = 2
    HashLen = 1
    DataWidth = 3
    WordSize = 1
    MaxCommits = 2
    MaxExtraEdges = 1
    MaxLayers = 2
    BloomDataSizes = {0, 1}
    BloomVersions = {1}
    MaxTocChunks = 8
    Mod64 = 1024
    Mod32 = 64
    NULL = NULL
SPECIFICATION Spec
INVARIANTS
    TypeOK
    RoundTrip
\* A load ends once parse_commit_graph has returned.
CHECK_DEADLOCK FALSE
