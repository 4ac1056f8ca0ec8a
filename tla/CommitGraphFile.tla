--------------------------- MODULE CommitGraphFile ---------------------------
(***************************************************************************)
(* The commit-graph file as a chunked container: the chunk table that     *)
(* write_commit_graph_file lays out and parse_commit_graph's validation    *)
(* of it on load (with load_commit_graph_one_fd_st and                    *)
(* verify_commit_graph_lite).                                              *)
(*                                                                         *)
(* The file is abstracted to its size, its table of contents (one entry   *)
(* per chunk plus the terminating entry, each an id and an offset) and the *)
(* first word of the Bloom-data chunk; the bytes of the chunks are not     *)
(* modelled.  After the write, the file on disk may be damaged once (one   *)
(* offset, one id, or a truncation) before a process loads it.            *)
(*                                                                         *)
(* Byte widths are scaled down; the ratios that decide whether a check    *)
(* can catch a problem are kept (see README).                              *)
(***************************************************************************)
EXTENDS Integers, Sequences, SequencesExt

CONSTANTS
    HeaderSize,       \* GRAPH_HEADER_SIZE
    LookupWidth,      \* GRAPH_CHUNKLOOKUP_WIDTH
    FanoutSize,       \* GRAPH_FANOUT_SIZE
    HashLen,          \* the_hash_algo->rawsz (and the trailing checksum)
    DataWidth,        \* GRAPH_DATA_WIDTH: one commit's record in the data chunk
    WordSize,         \* sizeof(uint32_t)
    MaxCommits,       \* ctx->commits.nr is in 0..MaxCommits
    MaxExtraEdges,    \* ctx->num_extra_edges is in 0..MaxExtraEdges
    MaxLayers,        \* ctx->num_commit_graphs_after is in 1..MaxLayers
    BloomDataSizes,   \* possible ctx->total_bloom_filter_data_size
    BloomVersions,    \* hash versions a writer records in the Bloom-data chunk
    MaxTocChunks,     \* largest num_chunks a damaged header byte may claim
    Mod64, Mod32,     \* moduli of the uint64_t offsets and uint32_t counts
    NULL

\* Chunk ids; ZERO is the id of the terminating entry.
Ids == {"OIDF", "OIDL", "CDAT", "EDGE", "BIDX", "BDAT", "BASE", "ZERO"}

\* GRAPH_MIN_SIZE: a header, a table of three chunks, a fanout and a hash.
GRAPH_MIN_SIZE == HeaderSize + 4 * LookupWidth + FanoutSize + HashLen

-----------------------------------------------------------------------------
(* write_commit_graph_file: the chunk list and its table of contents.     *)

\* The chunks in write order with their declared sizes, the terminating
\* entry last.
WriterChunks(nr, ne, cp, after, bsize) ==
    << [id |-> "OIDF", size |-> FanoutSize],
       [id |-> "OIDL", size |-> HashLen * nr],
       [id |-> "CDAT", size |-> DataWidth * nr] >>
    \o (IF ne > 0 THEN << [id |-> "EDGE", size |-> WordSize * ne] >> ELSE << >>)
    \o (IF cp THEN << [id |-> "BIDX", size |-> WordSize * nr],
                      [id |-> "BDAT", size |-> 3 * WordSize + bsize] >>
        ELSE << >>)
    \o (IF after > 1 THEN << [id |-> "BASE", size |-> HashLen * (after - 1)] >> ELSE << >>)
    \o << [id |-> "ZERO", size |-> 0] >>

SumSizes(s) == FoldLeft(LAMBDA acc, c : acc + c.size, 0, s)

\* Faulty variant: the first offset leaves no room for the terminating entry.
WriteTocNoTerminator(chunks) ==
    [k \in DOMAIN chunks |->
        [id |-> chunks[k].id,
         off |-> HeaderSize + (Len(chunks) - 1) * LookupWidth + SumSizes(SubSeq(chunks, 1, k - 1))]]

\* chunk_offset starts after the header and num_chunks + 1 table entries,
\* and each entry's offset is the previous one plus its chunk's size.
WriteToc(chunks) ==
    [k \in DOMAIN chunks |->
        [id |-> chunks[k].id,
         off |-> HeaderSize + Len(chunks) * LookupWidth + SumSizes(SubSeq(chunks, 1, k - 1))]]

\* The bytes hashwrite emits: the header, the table, then each chunk's
\* write_fn (exactly its declared size, or BUG()), then the checksum.
\* ChunkStart is where chunk k's bytes actually begin.
ChunkStart(chunks, k) == HeaderSize + Len(chunks) * LookupWidth + SumSizes(SubSeq(chunks, 1, k - 1))
FileSize(chunks) == HeaderSize + Len(chunks) * LookupWidth + SumSizes(chunks) + HashLen

-----------------------------------------------------------------------------
(* parse_commit_graph                                                       *)

\* Faulty variant: the count is kept at 64 bits.
NumCommitsOfWide(cur, nxt) == ((nxt - cur) % Mod64) \div HashLen

\* graph->num_commits = (next_chunk_offset - chunk_offset) / hash_len,
\* computed in uint64_t and stored in a uint32_t.
NumCommitsOf(cur, nxt) == ((((nxt - cur) % Mod64) \div HashLen) % Mod32)

Slots == {"fanout", "lookup", "data", "edges", "base", "bidx", "bdat"}

EmptyGraph == [s \in Slots |-> NULL] @@ [numCommits |-> 0, settings |-> FALSE]

SlotOf(id) == CASE id = "OIDF" -> "fanout" [] id = "OIDL" -> "lookup"
                [] id = "CDAT" -> "data"   [] id = "EDGE" -> "edges"
                [] id = "BASE" -> "base"   [] id = "BIDX" -> "bidx"
                [] id = "BDAT" -> "bdat"

\* verify_commit_graph_lite: the three required chunks are present.
VerifyLite(g) == g.fanout # NULL /\ g.lookup # NULL /\ g.data # NULL

VARIABLES
    file,       \* [size, toc, bloomVersion]: the file on disk
    written,    \* what the writer meant: its chunk list and commit count
    corrupted,  \* the file was damaged after the write
    pc,         \* write, written, loop, done
    i,          \* the loop index of parse_commit_graph
    nextOff,    \* next_chunk_offset
    g,          \* the struct commit_graph being filled
    result,     \* none, ok, fail
    readChangedPaths \* r->settings.commit_graph_read_changed_paths (commitGraph.readChangedPaths)

vars == <<file, written, corrupted, pc, i, nextOff, g, result, readChangedPaths>>

NumChunks == Len(file.toc) - 1

Init ==
    /\ file = [size |-> 0, toc |-> << >>, bloomVersion |-> 0]
    /\ written = [chunks |-> << >>, nr |-> 0]
    /\ corrupted = FALSE
    /\ pc = "write"
    /\ i = 0
    /\ nextOff = 0
    /\ g = EmptyGraph
    /\ result = "none"
    /\ readChangedPaths \in BOOLEAN

\* write_commit_graph_file lays out the chunks, writes the header, the
\* table and the chunks, and finalizes the checksum.  A Bloom-data chunk
\* starts with the hash version of ctx->bloom_settings.
WriteCommitGraphFile ==
    /\ pc = "write"
    /\ \E nr \in 0..MaxCommits, ne \in 0..MaxExtraEdges, cp \in BOOLEAN,
          after \in 1..MaxLayers, bsize \in BloomDataSizes, bv \in BloomVersions :
          /\ ne > 0 => nr > 0
          /\ ~cp => bsize = 0
          /\ LET chunks == WriterChunks(nr, ne, cp, after, bsize)
             IN /\ file' = [size |-> FileSize(chunks), toc |-> WriteToc(chunks),
                            bloomVersion |-> IF cp THEN bv ELSE 0]
                /\ written' = [chunks |-> chunks, nr |-> nr]
    /\ pc' = "written"
    /\ UNCHANGED <<corrupted, i, nextOff, g, result, readChangedPaths>>

\* The file on disk is damaged once: one table offset or one chunk id is
\* overwritten, the file is truncated, or the num_chunks byte of the
\* header changes.  A larger count makes the loop read entries past the
\* written table, from the chunk bytes: unknown ids, with some offset.
Corrupt ==
    /\ pc = "written"
    /\ ~corrupted
    /\ \/ \E k \in DOMAIN file.toc, v \in 0..file.size :
             file' = [file EXCEPT !.toc[k].off = v]
       \/ \E k \in 1..NumChunks, id \in Ids :
             file' = [file EXCEPT !.toc[k].id = id]
       \/ \E s \in 0..(file.size - 1) :
             file' = [file EXCEPT !.size = s]
       \/ \E n \in 0..MaxTocChunks, v \in 0..file.size :
             /\ n # NumChunks
             /\ file' = [file EXCEPT !.toc =
                           IF n < NumChunks THEN SubSeq(@, 1, n + 1)
                           ELSE @ \o [j \in 1..(n - NumChunks) |-> [id |-> "ZERO", off |-> v]]]
    /\ corrupted' = TRUE
    /\ UNCHANGED <<written, pc, i, nextOff, g, result, readChangedPaths>>

\* load_commit_graph_one_fd_st and the header checks of parse_commit_graph:
\* the file must hold the minimum size and a table of num_chunks + 1
\* entries with a fanout and a hash after it; then the loop starts with the
\* first entry's offset.
LoadCommitGraph ==
    /\ pc = "written"
    /\ IF \/ file.size < GRAPH_MIN_SIZE
          \/ file.size < HeaderSize + (NumChunks + 1) * LookupWidth + FanoutSize + HashLen
       THEN /\ result' = "fail" /\ pc' = "done" /\ UNCHANGED <<i, nextOff>>
       ELSE /\ i' = 0 /\ nextOff' = file.toc[1].off /\ pc' = "loop"
            /\ UNCHANGED result
    /\ UNCHANGED <<file, written, corrupted, g, readChangedPaths>>

\* One turn of the chunk loop: read the id and the next entry's offset,
\* reject an offset past the data (before the checksum), record the chunk
\* (the lookup chunk's length gives num_commits; the Bloom chunks only when
\* changed paths are read; Bloom settings only for hash version 1), and
\* reject a repeated id.  Unknown ids are skipped.
ParseChunk ==
    /\ pc = "loop"
    /\ i < NumChunks
    /\ LET cur == nextOff
           id  == file.toc[i + 1].id
           nxt == file.toc[i + 2].off
           slot == SlotOf(id)
           keep == id \notin {"BIDX", "BDAT"} \/ readChangedPaths
       IN /\ nextOff' = nxt
          /\ IF cur > file.size - HashLen
             THEN /\ result' = "fail" /\ pc' = "done" /\ UNCHANGED <<g, i>>
             ELSE IF id = "ZERO" THEN /\ i' = i + 1 /\ UNCHANGED <<g, result, pc>>
             ELSE IF g[slot] # NULL
             THEN /\ result' = "fail" /\ pc' = "done" /\ UNCHANGED <<g, i>>
             ELSE /\ g' = [g EXCEPT ![slot] = IF keep THEN cur ELSE NULL,
                                    !.numCommits = IF id = "OIDL" THEN NumCommitsOf(cur, nxt) ELSE @,
                                    !.settings = IF id = "BDAT" /\ keep THEN file.bloomVersion = 1 ELSE @]
                  /\ i' = i + 1
                  /\ UNCHANGED <<result, pc>>
    /\ UNCHANGED <<file, written, corrupted, readChangedPaths>>

\* After the loop: the Bloom chunks are kept only together, then
\* verify_commit_graph_lite decides.
ParseEnd ==
    /\ pc = "loop"
    /\ i = NumChunks
    /\ LET both == g.bidx # NULL /\ g.bdat # NULL
           g1 == IF both THEN g
                 ELSE [g EXCEPT !.bidx = NULL, !.bdat = NULL, !.settings = FALSE]
       IN /\ g' = g1
          /\ result' = IF VerifyLite(g1) THEN "ok" ELSE "fail"
    /\ pc' = "done"
    /\ UNCHANGED <<file, written, corrupted, i, nextOff, readChangedPaths>>

Next ==
    \/ WriteCommitGraphFile
    \/ Corrupt
    \/ LoadCommitGraph
    \/ ParseChunk
    \/ ParseEnd

Spec == Init /\ [][Next]_vars

-----------------------------------------------------------------------------
(* Properties                                                              *)

TypeOK ==
    /\ pc \in {"write", "written", "loop", "done"}
    /\ result \in {"none", "ok", "fail"}
    /\ i \in 0..Len(file.toc)
    /\ g.numCommits \in 0..(Mod32 - 1)
    /\ \A s \in Slots : g[s] = NULL \/ g[s] \in 0..file.size

\* Where the writer's chunk with this id really begins, or NULL.
WrittenStart(id) ==
    LET ks == {k \in DOMAIN written.chunks : written.chunks[k].id = id}
    IN IF ks = {} THEN NULL ELSE ChunkStart(written.chunks, CHOOSE k \in ks : TRUE)

\* A file this code wrote, loaded undamaged, is accepted; every chunk the
\* reader uses points at the bytes its write_fn wrote, the commit count
\* is the number written, and Bloom filters are used exactly when they
\* were written and are read.
RoundTrip ==
    (pc = "done" /\ ~corrupted) =>
        /\ result = "ok"
        /\ g.numCommits = written.nr
        /\ \A id \in Ids \ {"ZERO", "BIDX", "BDAT"} : g[SlotOf(id)] = WrittenStart(id)
        /\ \A id \in {"BIDX", "BDAT"} :
              g[SlotOf(id)] = IF readChangedPaths THEN WrittenStart(id) ELSE NULL

=============================================================================
