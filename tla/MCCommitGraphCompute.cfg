\* Four commits with up to two ordered parents; a 4-bit packed word, so
\* GENERATION_NUMBER_MAX = 3 and a chain of four commits saturates.  Two
\* writes of the same list, each with no cap, a cap of 0 or a cap of 1,
\* so a second write finds some filters loaded and some missing.
CONSTANTS
    N = 4
    MaxParents = 2
    WordBits = 4
    FilterLen <- MCFilterLen
    MaxNewFilters <- MCMaxNewFilters
    OrderByPack = FALSE
    MaxWrites = 2
SPECIFICATION CGSpec
INVARIANTS
    CGTypeOK
    GenerationCorrect
    StackIsParentChain
    WrittenGenerationsVerify
    FiltersAreOwn
    NewFiltersCapped
PROPERTIES
    EventuallyTerminates
    FiltersKept
\* The loop returns when the list is exhausted, and writes stop at MaxWrites.
CHECK_DEADLOCK FALSE
