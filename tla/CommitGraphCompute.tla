------------------------- MODULE CommitGraphCompute -------------------------
(***************************************************************************)
(* The two compute phases of write_commit_graph (commit-graph.c 2230-2233) *)
(* composed: compute_generation_numbers (module GenerationNumbers) and    *)
(* then, with --changed-paths, compute_bloom_filters, followed by the     *)
(* Bloom-index and Bloom-data chunks of the written file and the loading   *)
(* of those filters by the next process that writes the same commits.     *)
(*                                                                         *)
(* A filter is abstracted to its bytes, each byte tagged with the commit   *)
(* whose changed paths it encodes; FilterLen(c) >= 1 is the length of a   *)
(* filter computed for c (a truncated empty or large filter is one byte). *)
(* The three header words of the Bloom-data chunk are left out: both the  *)
(* writer and the reader skip them.                                        *)
(*                                                                         *)
(* get_or_compute_bloom_filter and load_bloom_filter_from_graph live in    *)
(* bloom.c, outside the sources; they are modelled from the description of *)
(* the Bloom-filter builder.                                               *)
(***************************************************************************)
EXTENDS GenerationNumbers

LOCAL INSTANCE TLC

CONSTANTS
    FilterLen(_),    \* bytes of a filter computed for a commit
    MaxNewFilters,   \* --max-new-filters values of a write (-1: not given)
    OrderByPack,     \* ctx->order_by_pack: commits came from --stdin-packs
    MaxWrites        \* bound on the writes of one commit list

ASSUME MaxNewFilters \subseteq Int /\ OrderByPack \in BOOLEAN /\ MaxWrites \in Nat

VARIABLES
    bloom,       \* commit -> bytes of its filter in the slab (<<>>: none)
    inGraph,     \* commits with a graph position (graph_pos != COMMIT_NOT_FROM_GRAPH)
    writes,      \* writes done so far
    lastWrite    \* history: cap, missing filters and count of the last write

bloomVars == <<bloom, inGraph, writes, lastWrite>>
allVars == <<vars, bloomVars>>

\* The bytes of the filter computed for c.
OwnFilter(c) == [k \in 1..FilterLen(c) |-> c]

NoWrite == [max |-> 0, missing |-> 0, computed |-> 0]

\* No filter is in the slab before compute_bloom_filters asks for one.
CGInit ==
    /\ Init
    /\ inGraph = {c \in Commits : ~Unknown(c)}
    /\ bloom = [c \in Commits |-> << >>]
    /\ writes = 0
    /\ lastWrite = NoWrite

-----------------------------------------------------------------------------
(* compute_bloom_filters()                                                 *)

\* commit_graph_generation: GENERATION_NUMBER_INFINITY for a commit not
\* from the graph, whatever the slab's generation says.
INFINITY == GENERATION_NUMBER_MAX + 1
GraphGeneration(c) == IF c \in inGraph THEN generation[c] ELSE INFINITY

\* The orders QSORT may leave sorted_commits in: commit_pos_cmp orders by
\* position in the packs, which may be any; commit_gen_cmp orders by
\* commit_graph_generation and breaks ties by date, which may be any.
SortedCommits(L) ==
    LET perms == { [a \in DOMAIN L |-> L[pi[a]]] : pi \in Permutations(DOMAIN L) }
        n == Len(L)
    IN IF OrderByPack THEN perms
       ELSE { s \in perms :
                \A a \in 1..(n - 1) : GraphGeneration(s[a]) <= GraphGeneration(s[a + 1]) }

\* Faulty variant: "<=" in the cap test.
MayComputeInclusive(count, max) == count <= max

\* ctx->count_bloom_filter_computed < max_new_filters.
MayCompute(count, max) == count < max

\* Faulty variant: the compute_if_not_present test comes before the reuse
\* of a loaded filter.
GetOrComputeCapFirst(loaded, c, compute) ==
    IF ~compute THEN [filter |-> << >>, computed |-> FALSE]
    ELSE IF loaded # << >> THEN [filter |-> loaded, computed |-> FALSE]
    ELSE [filter |-> OwnFilter(c), computed |-> TRUE]

\* get_or_compute_bloom_filter: a filter loaded with len > 0 is returned
\* (BLOOM_NOT_COMPUTED); else one is computed if allowed (BLOOM_COMPUTED);
\* else NULL.
GetOrComputeBloomFilter(loaded, c, compute) ==
    IF loaded # << >> THEN [filter |-> loaded, computed |-> FALSE]
    ELSE IF compute THEN [filter |-> OwnFilter(c), computed |-> TRUE]
    ELSE [filter |-> << >>, computed |-> FALSE]

\* The for loop over sorted_commits: the slab's filters and
\* count_bloom_filter_computed after it.
RECURSIVE BloomLoop(_, _, _, _)
BloomLoop(sorted, max, filters, count) ==
    IF sorted = << >> THEN [filters |-> filters, count |-> count]
    ELSE LET c == Head(sorted)
             r == GetOrComputeBloomFilter(filters[c], c, MayCompute(count, max))
         IN BloomLoop(Tail(sorted), max, [filters EXCEPT ![c] = r.filter],
                      IF r.computed THEN count + 1 ELSE count)

-----------------------------------------------------------------------------
(* The Bloom chunks and their loading                                      *)

\* Faulty variant: cur_pos is written before the filter's len is added.
WriteBloomIndexesEarly(L, filters) ==
    LET cur[p \in 0..Len(L)] == IF p = 0 THEN 0 ELSE cur[p - 1] + Len(filters[L[p]])
    IN [p \in 1..Len(L) |-> cur[p - 1]]

\* write_graph_chunk_bloom_indexes: after each commit of ctx->commits.list,
\* the running end offset of the filters written so far.
WriteBloomIndexes(L, filters) ==
    LET cur[p \in 0..Len(L)] == IF p = 0 THEN 0 ELSE cur[p - 1] + Len(filters[L[p]])
    IN [p \in 1..Len(L) |-> cur[p]]

\* write_graph_chunk_bloom_data: the filters' bytes in list order.
WriteBloomData(L, filters) ==
    LET d[p \in 0..Len(L)] == IF p = 0 THEN << >> ELSE d[p - 1] \o filters[L[p]]
    IN d[Len(L)]

\* The filters the first write finds in the graph it loaded, which
\* get_or_compute_bloom_filter reads on first access: a filter, or an empty
\* Bloom-index span, for each of its commits that is written again.  A
\* later write finds the filters the previous one wrote.
GraphFilters ==
    IF writes = 0
    THEN { [c \in Commits |-> IF c \in withFilter THEN OwnFilter(c) ELSE << >>] :
             withFilter \in SUBSET (inGraph \cap listed) }
    ELSE {bloom}

\* load_bloom_filter_from_graph: the filter at position p spans the bytes
\* from the previous index entry (0 for the first) to its own.
LoadBloomFilter(bidx, bdat, p) ==
    LET start == IF p = 1 THEN 0 ELSE bidx[p - 1]
    IN SubSeq(bdat, start + 1, bidx[p])

\* One write of the listed commits once the generations are known:
\* compute_bloom_filters, the two Bloom chunks, and the next process's load
\* of the written graph, in which every listed commit has a position.
ComputeBloomFilters ==
    /\ Terminated
    /\ writes < MaxWrites
    /\ LET L == CommitsList IN
       \E k \in MaxNewFilters, sorted \in SortedCommits(L), loaded \in GraphFilters :
         LET max == IF k >= 0 THEN k ELSE Len(L)
             r == BloomLoop(sorted, max, loaded, 0)
             bidx == WriteBloomIndexes(L, r.filters)
             bdat == WriteBloomData(L, r.filters)
             read == [p \in DOMAIN L |-> LoadBloomFilter(bidx, bdat, p)]
         IN /\ bloom' = [c \in Commits |->
                           IF c \in listed THEN read[CHOOSE p \in DOMAIN L : L[p] = c]
                           ELSE loaded[c]]
            /\ lastWrite' = [max |-> max,
                             missing |-> Cardinality({c \in listed : loaded[c] = << >>}),
                             computed |-> r.count]
    /\ inGraph' = inGraph \cup listed
    /\ writes' = writes + 1
    /\ UNCHANGED vars

GenerationStep == Next /\ UNCHANGED bloomVars

CGNext == GenerationStep \/ ComputeBloomFilters

\* Only the generation loop is a loop of the program; a further write is a
\* new command that nobody is obliged to run.
CGSpec == CGInit /\ [][CGNext]_allVars /\ WF_allVars(GenerationStep)

-----------------------------------------------------------------------------
(* Properties                                                              *)

CGTypeOK ==
    /\ TypeOK
    /\ bloom \in [Commits -> Seq(Commits)]
    /\ inGraph \subseteq Commits
    /\ writes \in 0..MaxWrites

\* Every filter a later write loads through the Bloom-index chunk is the
\* filter that was computed for that commit, or none: the cumulative
\* offsets of write_graph_chunk_bloom_indexes and the spans read back by
\* load_bloom_filter_from_graph agree, write after write, whatever order
\* the filters were computed in and however many were skipped.
FiltersAreOwn ==
    \A c \in Commits : bloom[c] \in {<< >>, OwnFilter(c)}

\* Each write computes exactly min(max_new_filters, missing) new filters:
\* the filters reused from the graph do not count against the cap, and no
\* missing filter is skipped while the cap allows one more.
NewFiltersCapped ==
    lastWrite.computed =
        IF lastWrite.max < lastWrite.missing THEN lastWrite.max ELSE lastWrite.missing

\* A filter that is in the graph stays in every later write, whatever
\* --max-new-filters that write is given: the cap only limits new work.
FiltersKept ==
    [][\A c \in listed : bloom[c] # << >> => bloom'[c] = bloom[c]]_allVars

=============================================================================
