# TLA+ models of Git's commit-graph, multi-pack-index, promisor remotes, index and bisect helper

This directory holds TLA+ specifications of parts of the Git sources in
`src/git/`, and the TLC configurations that check them. Every definition is
translated from the C source. `PROJECT.json` maps each definition to the
lines it models, lists the runs, the mutants that show each property can
fail, the findings and the hazards.

## 1. Inventory

### Components

| Component | Source | State | Operations |
|---|---|---|---|
| Generation-number engine | `commit-graph.c` | the commit-data slab (`generation`), the work stack, the loop index | `compute_generation_numbers`, the packed word of `write_graph_chunk_data`, its reading in `fill_commit_graph_info`, the check in `verify_commit_graph` |
| Commit-graph split chain | `commit-graph.c` | layer files `graph-<hash>.graph`, the chain file `commit-graph-chain`, the lock, mtimes | `split_graph_merge_strategy`, `merge_commit_graphs`, `sort_and_scan_merged_commits`, `write_commit_graph_file`, `mark_commit_graphs`, `expire_commit_graphs`, `load_commit_graph_chain`, `add_graph_to_chain` |
| Commit-graph file format | `commit-graph.c` | the bytes of one file: header, chunk table, chunks, trailing hash | `parse_commit_graph`, `prepare_commit_graph` (once per process), `close_commit_graph` |
| Bloom filter builder | `commit-graph.c` (and `bloom.c`, outside the sources) | the per-commit filter slab, the count of new filters, the Bloom index and data chunks | `compute_bloom_filters` with `max_new_filters`, `write_graph_chunk_bloom_indexes`, `write_graph_chunk_bloom_data`, the filter load of the next write |
| MIDX build/expire/repack | `midx.c` | packs on disk (`.idx`, `.pack`, `.keep`, mtime), the MIDX file, the lock | `write_midx_file`/`write_midx_internal`, `get_sorted_entries`, `expire_midx_packs`, `midx_repack`, `fill_included_packs_all/batch`, `clear_midx_file` |
| MIDX loading and lookup | `midx.c`, `t/helper/test-read-midx.c` | the mapped MIDX | `load_multi_pack_index`, `bsearch_midx`, `fill_midx_entry`, `nth_midxed_offset`, `verify_midx_file` |
| Index | `read-cache.c` | the cache entries, their stat data, the index file and its lock | `add_index_entry_with_check`, `refresh_index`, racy-clean detection, `do_write_index` |
| Bisect helper | `builtin/bisect--helper.c` | `BISECT_START`, `BISECT_TERMS`, `refs/bisect/*`, `BISECT_HEAD`, `BISECT_EXPECTED_REV`, `BISECT_ANCESTORS_OK`, HEAD | `bisect_start`, `bisect_state`, `bisect_next`, `bisect_auto_next`, `bisect_reset`, `bisect_terms` |
| Promisor remotes | `promisor-remote.c` | the remote list | `promisor_remote_config`, `promisor_remote_get_direct` |
| Scalar, diff options, repo settings | `scalar.c`, `diff.c`, `diff-merges.c`, `diff-index.c`, `repo-settings.c` | configuration | command-line and configuration handling |

### How they interact

A commit-graph write (`write_commit_graph`) gathers commits, calls
`compute_generation_numbers` and `compute_bloom_filters`, then
`write_commit_graph_file`. In split mode it first asks
`split_graph_merge_strategy` how many top layers to merge. Afterwards
`expire_commit_graphs` deletes layer files the new chain no longer names.
Readers load the chain once per process (`prepare_commit_graph`) and never
lock.

The MIDX indexes the packs of one object directory. `git repack` and `git
fetch` add packs. `midx_repack` rewrites the objects of some packs into a new
pack and rewrites the MIDX, so the MIDX takes those objects from the new
pack. `expire_midx_packs` then deletes packs from which the MIDX takes
nothing. Readers (`fill_midx_entry`) resolve an object to a pack and an
offset through the MIDX.

### Hard behaviours

- A write reads its input (the MIDX, the pack directory, the chain) before it
  takes the lock.
- Files are unlinked before the file that stops naming them is committed.
- Deduplication depends on sort orders: preferred flag, mtime, pack-int-id,
  readdir order, and an unstable QSORT by mtime.
- Generation numbers are capped and shifted into 30 bits.
- Chunk offsets are read from the file itself.

`PROJECT.json` lists the hazards, each at its line.

### Properties per component

- Generation engine: the generations equal the capped reference definition;
  the work stack is a parent chain; `verify` accepts what is written; the
  loop terminates.
- Bloom builder: each write computes exactly `min(cap, missing)` filters;
  a filter already in the graph survives every later write; every filter
  read back through the Bloom index is the commit's own.
- MIDX: every indexed object resolves to a live pack holding it at the
  recorded offset, and every object of a listed live pack is indexed; no
  object is ever lost; rewrites only move objects to packs new to the MIDX;
  no write dies in a BUG(), and every offset reads back through the OOFF
  and LOFF chunks, also after a kill between an expire's unlinks and its
  commit.
- Split chain: every commit written stays reachable through the chain; a
  layer's parents lie in the layer or below it; readers load a valid prefix;
  the merge strategy keeps the geometric size rule. This refines an abstract
  specification whose state is only the set of indexed commits.
- Promisor remotes: the remote list stays a sound linked list with a
  correct tail pointer, and lists the configured remotes in order with the
  `extensions.partialClone` remote last; a lazy fetch reports success only
  when every requested object arrived.
- Chunk format: every file the writer produces parses back to the chunks
  it wrote, and the parser never reads a table-of-contents entry outside
  the file, whatever one corruption did to it. (That every accepted chunk
  also ends inside the file does not hold; see the hazard at
  `commit-graph.c:359`.)
- Index: an entry whose cached stat data matches its file, after the racy
  check, has the file's content; `CE_UPTODATE` is only set on such entries;
  only a command holding `index.lock` changes what is staged; no path is
  both a file and a leading directory of another path (fails: see
  `index_df_conflict`).

## 2. Plan

The modules are listed in order of importance.

1. **GenerationNumbers** (done). This module covers the generation engine.
2. **Midx** with **MCMidx** (done). The write, expire, repack and clear
   operations act on packs that other processes add. The expire is split at
   the point where its unlinks are done and its commit is not, and a kill may
   happen there. **MidxOffsets** (done) covers the encoding
   and decoding of 31/32-bit and large offsets at scaled width. Another
   planned extension is a second, concurrent MIDX writer.
3. **CommitGraphChain** with **MCCommitGraphChain** (done). Its state is
   the layers, the chain file, the lock, the mtimes, and a reader. Its actions
   are the split write cut where the code lets other processes in, a failing
   rename, kills, and a chain reader. It refines **CommitGraphIndexed**, an
   abstract specification of the set of indexed commits, through INSTANCE
   ... WITH. Still to do: the non-split write path, a v1 file upgraded into
   a chain (`base_graph_name`), and the time/grace interplay over longer
   clocks.
4. **CommitGraphFile** with **MCCommitGraphFile** (done). This covers the
   writer's chunk table and `parse_commit_graph` over written and damaged
   files. Still to do:
   the write that follows a load of a file with an unknown Bloom hash
   version (hazard at `commit-graph.c:2149`).
5. **CommitGraphCompute** with **MCCommitGraphCompute** (done). This
   composes the generation engine with `compute_bloom_filters` and the
   Bloom chunks over repeated writes. Still to do: the `uint32_t` wrap of
   the Bloom index offsets (hazard at `commit-graph.c:1181`).
6. **PromisorRemote** with **MCPromisorRemote** (done). This covers the
   remote list and `promisor_remote_get_direct`.
7. **ReadCache** with **MCReadCache** (done). This covers the racy-git
   protection of the index, with two git processes sharing `index.lock`
   and sizes truncated to 32 bits. **IndexEntries** with
   **MCIndexEntries** (done) covers the sorted entry array with names as
   bytes: `add_index_entry` and its directory/file conflict checks, and
   `remove_file_from_index`. Still to do: `ADD_CACHE_JUST_APPEND` followed
   by the sort and `verify_cache` check of a tree write.
8. **BisectHelper** with **MCBisectHelper** (done). This covers the
   session files of `git bisect` and the commands that change them.

## 3. Modules and runs

### GenerationNumbers and CommitGraphCompute (`GenerationNumbers.tla`, `CommitGraphCompute.tla`, `MCCommitGraphCompute.tla`, run `commit_graph_compute`)

`write_commit_graph` runs `compute_generation_numbers` and then, with
`--changed-paths`, `compute_bloom_filters` (lines 2230-2233).
`GenerationNumbers` models the first, and `CommitGraphCompute` extends it
with the second and composes the two.

**State.**
- `parents` is the commit DAG, chosen in Init among all DAGs of `N` commits
  with at most `MaxParents` ordered parents.
- `listed` is `ctx->commits.list`.
- `generation` is the commit-data slab.
- `list` is the explicit stack.
- `i` is the loop index.

**Initial generations.** Commits already in a loaded layer start with their
generation. The loaded set is any parent-closed set. `close_reachable`
guarantees that every parent of a listed commit is listed or loaded.

**Abstraction.** `GENERATION_NUMBER_INFINITY` (not in any graph) and
`GENERATION_NUMBER_ZERO` are both "unknown" to the loop and are modelled as
0. The width is scaled down: the packed word has `WordBits = 4` bits, so
`GENERATION_NUMBER_MAX = 3` and saturation happens on chains of four
commits.

**Actions.** There is one action per branch of the loop body:
- `ComputeGenerationNumbersStep` is the outer `for`;
- `PushParent` pushes the first uncomputed parent and breaks;
- `AssignGeneration` is the `all_parents_computed` branch: it sets the
  generation, pops, and caps.

**The Bloom phase** (`CommitGraphCompute`). Once the generation loop has
terminated, `ComputeBloomFilters` is one whole write of the same commit
list. It does the following, in order:
- it picks a `--max-new-filters` value from `MaxNewFilters` (-1 means not
  given, 0, or 1);
- it takes an order `SortedCommits` that `commit_gen_cmp` allows. A commit
  not from the graph has `GENERATION_NUMBER_INFINITY`, so new commits come
  after loaded ones, in any date order;
- it runs the loop `BloomLoop` over `GetOrComputeBloomFilter` under the cap
  test `MayCompute`;
- it writes the Bloom index (`WriteBloomIndexes`, cumulative end offsets in
  list order) and the Bloom data (`WriteBloomData`);
- it ends with the next process's load of that file (`LoadBloomFilter`).

`get_or_compute_bloom_filter` and `load_bloom_filter_from_graph` are in
`bloom.c`, outside the sources, and are modelled from the description of
the builder. The filters of the graph that was loaded are read lazily, so
they are chosen at the first write (`GraphFilters`). After that, each write
finds what the previous one wrote.

A filter is abstracted to `FilterLen(c)` bytes (one or two), each tagged
with its commit. This way a span read at the wrong offsets shows. Two
writes (`MaxWrites = 2`) let the second one find some filters loaded and
some missing. `lastWrite` is a history variable holding the cap, the
number of missing filters, and the count of the last write.

**Fairness.** Weak fairness of the generation loop (`GenerationStep`) only.
The function is a sequential loop. A further write is a new command that
nobody is obliged to run.

**Checks.** With N = 4 and MaxParents = 2, the generation loop alone has
about 182 000 states, and with the two Bloom writes about 856 000 (2 minutes):
- `GenerationCorrect`: every assigned generation, packed with any date-high
  bits and read back, equals the reference `RefGen`.
- `StackIsParentChain`: the stack is a chain of uncomputed commits, each a
  parent of the one below it.
- `WrittenGenerationsVerify`: on termination, `verify_commit_graph`'s own
  recomputation accepts every generation.
- `EventuallyTerminates`.
- `FiltersAreOwn`: every filter loaded through the Bloom index, write after
  write, is the commit's own filter or none.
- `NewFiltersCapped`: a write computes exactly `min(max_new_filters,
  missing)` filters. Reused filters do not count, and no missing filter is
  skipped while the cap allows one more.
- `FiltersKept` (action property): a filter in the graph is still there
  after every later write, whatever its cap.

### Midx (`Midx.tla`, `MidxOffsets.tla`, `MCMidx.tla`, run `midx`)

**Packs.** A pack is named by the hash of its sorted object ids, so the model
represents a pack as its object set. `NameKey` gives the strcmp order of
names, as a scramble unrelated to size or age. `PackOffset` gives an
object's offset in a pack (`nth_packed_object_offset`).

**Offsets (`MidxOffsets.tla`).** Pure operators at a scaled width
(`OffsetBits` stands for the 32 bits of an OOFF word):
- the large-offset count and the "LOFF needed" test of
  `write_midx_internal`;
- the OOFF word of each object (`write_midx_object_offsets`: the offset,
  or the top bit and a LOFF index);
- the LOFF chunk (`write_midx_large_offsets`);
- the writers' BUG() conditions;
- `nth_midxed_offset`, which decodes an object's offset.

**State.**
- `packs` and `mtime` describe the packs on disk.
- `midx` is the file as stored: sorted names, per object a pack-int-id,
  and the OOFF and LOFF chunks. Every read of an offset, in lookups and
  when a rewrite carries old entries over, decodes it with
  `nth_midxed_offset`.
- `pending` is an expire that has unlinked its packs but not yet committed.
- The history variables `everStored` (every object ever written to a pack)
  and `bugged` (some `write_midx_internal` reached a BUG()) support
  `NoObjectLost` and `NoWriteBug`. A write that hits a BUG() dies and
  leaves the MIDX as it was.

**Actions.**
- `AddPack`: another git process writes a pack.
- `Tick`: the clock advances.
- `WriteMidxFile(pref)`: one `write_midx_internal`, over every order in which
  the directory may list new packs.
- `ExpireMidxPacksUnlink` and `ExpireMidxPacksWrite`: the two halves of
  `expire_midx_packs`.
- `CrashAfterUnlink`: the process is killed between the two halves.
- `MidxRepack(batch)`: the pack choice (batch choice over every order the
  unstable mtime sort may give), the pack written by pack-objects (named by
  its content, so it may coincide with an existing pack), and the rewrite.
- `ClearMidxFile`.

**Bounds.**
- Objects {1,2,3}.
- Other processes may write the packs {1}, {2} and {2,3}; {2,3} carries a
  `.keep`.
- At most 4 packs on disk.
- Clock values 0..2.
- Repacks with `--batch-size` 0 and 2.
- A 4-bit OOFF word, so 0x80000000 is 8 and 2^32 is 16. The packs that
  occur put objects at 7, 8, 15, 16 and 255, so that MIDX files are written
  with and without a LOFF chunk, and with top-bit offsets on either side
  of 2^32.

These bounds give duplicates across packs, repacks that create new packs and
repacks whose output equals an existing pack, kept packs, and ties in mtime.
The run reaches 7,127 distinct states in a few seconds.

**Properties.**
- `MidxMatchesPacks`.
- `NoObjectLost`.
- `NoWriteBug`: no write dies in a BUG(). Its mutant counts offsets from
  0x7fffffff, one too low, so `write_midx_large_offsets` runs out of
  entries.
- `ExistingEntriesStable` (an action property).

`MidxMatchesPacks` compares the decoded offset with the pack's. Writing a
top-bit offset below 2^32 as it is, next to a LOFF chunk (testing `>> 32`
for `>> 31`), breaks it.

There is no fairness: every operation is started by a user or by `git
maintenance`.

A kill after the unlinks (`CrashAfterUnlink`) leaves a MIDX that names a
deleted pack, which `verify_midx_file` reports and no later write or expire
removes; the invariants show that readers and objects are unaffected by it
(hazard at `midx.c:1374`).

The spec's "the preferred pack always wins" does not hold either: objects
the old MIDX already indexes keep their pack (`get_sorted_entries` starts at
`m->num_packs`), which `ExistingEntriesStable` states. It is listed as a
hazard at `midx.c:594`.

### CommitGraphChain (`CommitGraphChain.tla`, `CommitGraphIndexed.tla`, `MCCommitGraphChain.tla`)

**Layers.** A layer is a record of its commits and its base layers. A model
id stands for its content hash, and ids are never reused. `files` is the set
of `graph-<hash>.graph` files on disk, `fmtime` their mtimes, and `chain`
the committed `commit-graph-chain`.

**The write.** A write is split at the points where other processes can act:
- `PrepareWrite` loads the chain (`prepare_commit_graph`). It gathers the
  commits (`close_reachable` and `copy_oids_to_commits`, as `Expand` and
  `NewCommits`) from `--reachable` or from one given commit. It then decides
  what to merge (`split_graph_merge_strategy`, as `Keep` and `MergeKeep`;
  `merge_commit_graphs`, as `LayerContent`). No lock is held yet.
- `TakeLock` or `LockDie` is `hold_lock_file_for_update_mode` with
  `LOCK_DIE_ON_ERROR`.
- `RenameLayer` or `RenameLayerFails` is the rename of `tmp_graph_XXXXXX`.
- `CommitChain` is `commit_lock_file`.
- `MarkAndExpire` is `mark_commit_graphs` then `expire_commit_graphs`. Both
  run after `write_commit_graph_file` returns, whether it succeeded or not.
- `Crash` kills the writer at any step before its expire.

**The reader.** `ReaderOpen`, `ReaderLoadLayer` and `ReaderStop` are
`load_commit_graph_chain`: it opens the chain file, then loads its lines one
by one and stops at the first layer that is missing or mismatched.

**Refinement.** `CommitGraphIndexed` has only `repo` and `indexed`. A write
may only grow `indexed`, within the repository and closed under parents. The
mapping takes `indexed` to the commits of the prefix of the chain a process
loads now (`IndexedCommits`).

**Bounds.**
- Commits 1..4: 1 is a root, 2 and 3 branch from it, and 4 merges them.
  This gives merges, and closures over given commits whose parents are not
  yet indexed.
- `SizeMult` 2, no `--max-commits`.
- At most 4 layer files (3 in the two-writer run).
- Clock values 0..1 (only 0 in the two-writer run).
- `Grace` 0, the code's default `time(NULL)`. With it, a layer merged away
  is deleted at once, so a reader that opened the older chain file stops
  short of it. The spec's grace window says it should not. No run checks
  this: the reader actions fire in the `chain` run, but no property states
  what the reader loads (hazard at `commit-graph.c:2051`).

**Fairness.** There is none: writes are started by users or `git
maintenance`.

**Passing runs.**
- `chain`: one writer at a time with the `unspecified` and `replace` modes,
  kills, and a reader. It checks `ChainLayersExist` and the refinement
  `IndexedRefinement`. The run reaches about 970 000 states in 40 s.
- `chain_writers`: two writers, symmetric, with failing renames. It checks
  `ChainWellFormed` and `GeometricChain`. The run reaches about 3 million
  states in 50 s.

**Violation runs.**
- `chain_concurrent_writers`: two writers load the same chain before
  either locks. The later commit is built from a stale view and drops the
  other's commits, which violates the refinement.
- `chain_failed_write`: after a failed rename, the layers the write meant to
  merge are expired anyway, while the chain still names them.

### PromisorRemote (`PromisorRemote.tla`, `MCPromisorRemote.tla`, run `promisor`)

**State.** The list is a heap: `alloc` holds the allocated nodes, and
`name`, `next` and `filter` give each node its fields. `head` is
`promisors`. `tail` is `promisors_tail`: either `HEADPTR` (`&promisors`) or
the node whose `next` field it points at. So a lost node, a cycle or a stale
tail pointer are states TLC can reach. Freed nodes keep their old fields,
as `free` does, and `promisor_remote_new` zeroes a reused node
(`FLEX_ALLOC_STR`).

**Actions.**
- `PromisorRemoteInit` sets `initialized` and takes a snapshot of the
  configuration (`git_config`).
- `ConfigEntry` hands one entry to `promisor_remote_config`:
  - `promisor = true` adds the remote unless it is listed;
  - `partialclonefilter` adds it if needed and sets the filter;
  - a `'/'` name is refused by `promisor_remote_new`.
- `PartialCloneEntry` is the end of `promisor_remote_init`: the
  `extensions.partialClone` remote is moved to the tail, or added there.
- `PromisorRemoteReinit` is `promisor_remote_clear` followed by a new init.
  `EditConfig` changes the configuration between calls.
- `GetDirectStart`, `FetchSucceeds`, `FetchFails`, `NoRemoteLeft` and
  `GetDirectReturn` are the loop of `promisor_remote_get_direct`. A failed
  fetch may have fetched any subset of the objects the remote has.
  - With one object left, the loop goes straight on to the next remote.
  - Otherwise, `remove_fetched_oids` keeps the objects still missing.

**Bounds.**
- Remotes `a` and `b`, and one `'/'` name.
- Three heap cells, enough for two remotes plus the partialClone one.
- Five configurations, one per branch of the callback: none, two
  remotes, a filter before `promisor`, a name given twice, and a
  `promisor = false` with a `'/'` name.
- Every value of `extensions.partialClone`, and two objects.

Re-init after a configuration edit reuses freed cells. This is what makes
the tail reset and the zeroing of a new node matter.

**Run `promisor`.** It checks `TypeOK` (the pointers point into allocated
memory), `ListWellFormed`, `ListMatchesConfig` and `GetDirectSound`. It
reaches about 7 500 states in 1 s. Every property is broken by its mutant:
- a clear that keeps the tail;
- a new node that is not zeroed;
- a move to tail without the early return;
- a failed fetch of several objects taken as success.

**Fairness.** There is none: every call is made by a command.

**Not checked.** With one object left, a failed fetch does not check
whether the object arrived. The call may then return -1 although the object
is present. This is conservative, and nothing in the repository states
otherwise.

### CommitGraphFile (`CommitGraphFile.tla`, `MCCommitGraphFile.tla`, run `graph_file`)

**State.**
- `file` is the file on disk, abstracted to its size, its table of
  contents (a sequence of `[id, off]` records, terminator included) and the
  Bloom hash version stored in BDAT.
- `written` is what the writer put in it (chunk list and commit count);
  `corrupted` records that the file was damaged since.
- `pc`, `i`, `nextOff` are the parser's loop state, `g` the `struct
  commit_graph` it builds (one slot per chunk id, `num_commits`, the Bloom
  settings), `result` its outcome.
- `readChangedPaths` is `commitGraph.readChangedPaths`, chosen in Init.

**Actions.**
- `WriteCommitGraphFile` is `write_commit_graph_file`'s chunk list (OIDF,
  OIDL, CDAT, optional EDGE, BIDX+BDAT, BASE) and its table of contents,
  written `(num_chunks + 1)` entries long with a zero terminator.
- `Corrupt` damages the file once: a table offset, a chunk id, the size, or
  the `num_chunks` byte.
- `LoadCommitGraph` is the header and size checks of `parse_commit_graph`;
  `ParseChunk` is one iteration of its chunk loop (offset bound, repeats,
  OID lookup size, Bloom chunks); `ParseEnd` is the Bloom pairing and
  `verify_commit_graph_lite`.

**Bounds.** Every width is scaled down (header 2, table entry 3, fanout 2,
hash 1, commit data 3). In a real file the fanout and the hash (1024 + 20
bytes) are far larger than one 12-byte table entry; the scaled widths keep
the order of the chunks and the size checks, not those ratios. Up to 2
commits, 1 extra edge, 2 layers, up to 8 chunks in a damaged header.
`num_commits` is computed modulo a scaled 64 bits and stored modulo a scaled
32 bits. 171,244 distinct states.

**Properties.** `TypeOK`; `RoundTrip` (an undamaged file parses back to the
chunks, their offsets and the commit count written, Bloom chunks only under
`readChangedPaths`). Mutants: `num_commits` stored without the 32-bit
truncation, and a table without the terminator entry. The size check before
the loop is not stated as a property: it only restates the guard, and with
real widths the fanout and hash after the table leave room for the entry
the loop reads ahead even without its `+ 1`.

**Not checked.** That every accepted chunk ends inside the file: TLC finds
damaged tables that `parse_commit_graph` accepts with a chunk running past
the end of the data, against spec sections 3, 4.1 and 7. It is listed as a
hazard.

### ReadCache (`ReadCache.tla`, `MCReadCache.tla`, runs `racy_index`, `racy_size_wrap`)

**State.**
- `wt` and `wmtime`: each working-tree file's content and mtime; `now`, a
  clock with one-second steps (the build without `USE_NSEC`).
- `disk`: the index file, with its entries (oid, size, mtime) and its mtime.
- `lock`: the holder of `index.lock`, if any.
- Per git process (`Procs`): `pc` (idle, an add/rm command, or a status
  command), `mem` (its in-core entries with the in-core `CE_UPTODATE`
  flag), `base` (the entries it read, standing for the checksum
  `verify_index` compares), `timestamp` (`istate->timestamp.sec`) and
  `changed` (`istate->cache_changed`).

Stat data is reduced to mtime and size: an edit in place moves mtime and
ctime together and keeps the inode. The size is stored and compared modulo
`SizeMod`, which stands for 2^32: `sd_size` is an `unsigned int`
(`fill_stat_data`, `match_stat_data`, and the 32-bit on-disk field).

**Actions.** An add/rm command (`StartAdd`: `hold_locked_index` then
`read_index`) runs `AddToIndex` (`add_to_index`, with the
`CE_MATCH_RACY_IS_DIRTY` alias shortcut and `add_index_entry`),
`RemoveFromIndex` and `RefreshEntry`, and ends with `WriteIndex`
(`write_locked_index`: `do_write_index` smudges racily clean entries that
are not up to date, then commits and releases the lock). A status command
(`StartStatus`) reads without the lock, runs `RefreshEntry`, and ends with
`UpdateIndexIfAble`: it takes the lock only if it is free, and writes only
if the index changed or has a racy entry and `VerifyIndex` finds the file
it read still in place. `Discard` ends a command without writing (a lock
held is rolled back). Outside the program: `EditFile` and `Tick`.

**Bounds.** Two processes (symmetric); two paths; three contents: the empty
blob (size 0) and two different contents of size 1, so that an edit can
keep the size and only the mtime can tell; a clock of 3 seconds, enough for
an edit, an index write and a read in one second and a later read in
another. `SizeMod` is 2, so no size of `racy_index` wraps. 4,448,958
distinct states in about 1 min 45 s.

**Properties.** `TypeOK` (entries on disk carry no in-core flag);
`NoFalselyClean` (an entry on disk whose stat data matches its file under
`ie_match_stat`, with the racy content check, holds the file's content);
`UptodateIsClean`; `StagedOnlyByLockedWrites` (an action property: a
change of a staged oid on disk is the write of an add/rm command holding
the lock, never a status refresh). Mutants: the in-core flag written out,
no smudging, a refresh that takes new stat data for a modified file, and
`update_index_if_able` without `verify_index` (a status that read the
index before an add committed writes back the old entries).

**Violation run `racy_size_wrap`** (`NoFalselyClean`, contents "empty",
"A" and "C" where "C" has a size that is a multiple of 2^32): an empty file
is added, rewritten in the same second to 4 GiB, and a status at a later
second finds the entry racy, sees the content differ, and "smudges" it by
setting `sd_size` to 0, which it already was. The index is written with
the later timestamp; from then on the entry is not racy, its stat data
matches, and `ce_match_stat_basic` does not flag a zero size for the empty
blob. The file is reported clean for good (a finding in `PROJECT.json`).

**Fairness.** None: commands and edits are the user's.

**Not checked.** Edits while a command runs: with `EditsDuringCommand =
TRUE` both invariants fail, because `CE_UPTODATE` and the smudging decision
are taken from a stat that an edit in the same second can outdate. This is
the known limit of racy-git protection, listed as a hazard.

### IndexEntries (`IndexEntries.tla`, `MCIndexEntries.tla`, run `index_df_conflict`)

**State.** `cache`: `istate->cache[0 .. cache_nr-1]`, a sequence of entries
`[name, stage, remove]` (`remove` is `CE_REMOVE`). A name is its bytes,
because the conflict checks depend on byte order; `At(c, pos)` keeps the
C code's 0-based positions.

**Operators**, one per C function: `StrcmpOffset` (`strcmp_offset`),
`CacheNameStageCompare`, `BSearch`/`IndexNameStagePos`
(`index_name_stage_pos`), `RemoveIndexEntryAt`, `HasFileName`,
`HasDirName` with its loop `HasDirNameLoop`, the early returns
`DirNameFastPath` and the subdirectory scan `SubdirectoryPresent`,
`CheckFileDirectoryConflict`, `VerifyPath` and `AddIndexEntryWithCheck`.
Each checker returns its result and the cache, since with
`ADD_CACHE_OK_TO_REPLACE` it removes the conflicting entries as it goes.

**Actions.** `AddIndexEntry(ce, opt)` is `add_index_entry` without
`ADD_CACHE_JUST_APPEND`: the checks of `add_index_entry_with_check`, in the
code's order (the fast position after the last entry, replace an existing
match, drop the other stages of a merged entry, `ok_to_add`, `verify_path`,
the conflict check, the recomputed position), then the insertion.
`RemoveFileFromIndex(name)` removes every stage of a path.

**Bounds.** Names of 1 to 3 bytes over `-`, `/` and `a` (39 names, some
of them invalid paths), stage 0, the options of `add_to_index`
(`OK_TO_ADD|OK_TO_REPLACE`) and of `update-index --add` (`OK_TO_ADD`), at
most 3 entries. Three bytes and three entries are the least that can hold
a file, a sibling that sorts between it and its subdirectory, and a path
in that subdirectory.

**Violation run `index_df_conflict`** (`NoDFConflict`). The comment of
`check_file_directory_conflict` says a path must never be in the index both
as a file and as a directory. TLC's trace: add `-`, add `--`, add `-/-`
(with letters: `a`, `a-`, `a/a`). For `-/-`, `has_dir_name` compares with
the last entry `--`: greater, one byte equal. The directory prefix `-` has
`len = 1`, and the last entry's name is longer than 1, so the fast path
(`read-cache.c:1055`) returns "no conflict" without the search that would
find the file `-`. Its comment assumes a longer last entry lies inside the
directory; a sibling whose next byte sorts below `/` does not (a finding in
`PROJECT.json`).
With the third early return removed, the invariant still fails by another
route: an entry added "going away" (`CE_REMOVE`, which skips the checks) and
then replaced in place by a live one (an existing match is replaced with no
check). No caller in these sources adds `CE_REMOVE` entries, so that route
is not reported.

**Fairness.** None: each add or remove is a caller's.

### BisectHelper (`BisectHelper.tla`, `MCBisectHelper.tla`, run `bisect_start_bad_terms`)

**State.** `files` is a record of the session state that
`builtin/bisect--helper.c` keeps in `$GIT_DIR`:
- `start` is `BISECT_START`;
- `terms` is `BISECT_TERMS` (`<<bad, good>>`, or `NoTerms`);
- `refs` maps each ref name under `refs/bisect/` to its commit. A name is
  `[term, rev]`: `refs/bisect/<bad>` has no rev, and
  `refs/bisect/<good|skip>-<rev>` has one;
- `bisectHead`, `expected` and `ancestorsOk` are `BISECT_HEAD`,
  `BISECT_EXPECTED_REV` and `BISECT_ANCESTORS_OK`.

`head` is the checked-out commit. Commits are model values, and terms are
the words themselves.

**Actions**, one per cmdmode that writes:
- `BisectStart(revs, tb, tg, noCheckout)` is `bisect_start`, in the code's
  order:
  1. a restart checks out the recorded start head;
  2. `bisect_clean_state`;
  3. `BISECT_START` and `BISECT_HEAD`;
  4. one `bisect_write` per rev (the first rev is bad, the rest good);
  5. only then `write_terms` (`WriteTermsOk`, `CheckTermFormat`);
  6. `bisect_auto_next`, whose unsuccessful result cleans the session.

  A failure in steps 4 or 5 returns without cleaning, as the code does.
- `BisectState(state, revs)` is `bisect_state`: `bisect_autostart`, then
  `check_and_set_terms` (which writes `BISECT_TERMS` for the first
  bad/good or new/old), then the state and argument-count checks. A
  failing check keeps the terms file already written (for example `bad c1
  c2`, which takes only one argument). Next
  come the writes, HEAD or `BISECT_HEAD` when no rev is given. A rev other
  than the expected one unlinks `BISECT_EXPECTED_REV` and
  `BISECT_ANCESTORS_OK`. Last comes `bisect_auto_next`.
- `BisectNext(onlyBadOk)` is `--bisect-next`: the terms are read from the
  file (NULL without it), then `bisect_next_check` and `decide_next`,
  which goes on with only a bad ref when stdin is no terminal or the user
  agrees. Then `bisect_next_all`.
- `BisectReset(commit)` is `bisect_reset`: a checkout unless `BISECT_HEAD`
  exists, then `bisect_clean_state`.

`bisect_write` may fail at `update_ref` (no ref) or at the log append (ref
written) when `WriteCanFail` is set. `bisect_clean_state` and
`bisect_next_all` are in `bisect.c`, outside the sources. They are modelled
from their description: the first empties the session; the second checks
out a next commit, reports the first bad commit, reports "only skipped
left" (once a skip ref exists), or fails.

**Bounds.**
- Two commits, and at most two revs per command, which is enough for a bad
  and a good rev, a repeated rev and a mismatch with the expected rev.
- The terms are `bad`, `good`, `new`, `old`, a free word `foo`, and the
  builtin command `skip`. With these, every clause of `check_term_format`
  except the refname check can reject a term.
- `WriteCanFail` is FALSE, so the violation comes from user input alone.
  With it TRUE, a failing second `bisect_write` also breaks the invariant.

**Violation run `bisect_start_bad_terms`** (`RefsNamedByTerms`). While a
session is open, every bad or good ref must be named by the terms in
`BISECT_TERMS`. `bisect_start` promises this: it cleans the session when it
does not succeed. `bisect_state` keeps it by writing the terms before any
ref.

TLC's trace is `bisect start --term-new=good c1`. The command writes
`BISECT_START` and `refs/bisect/good = c1`. Then `write_terms("good",
"good")` fails its equality check (line 177, the old term is still the
default `good`), and the command returns through `finish`
before the cleanup (`bisect--helper.c:777`, `792`). That leaves an open
session with no terms. With the early returns made to clean the session,
the invariant holds over all 6 938 reachable states. This is a finding in
`PROJECT.json`.

**Fairness.** None: every command is a user's.

## 4. Not modelled

- **Parts of the bisect helper.** The log, `BISECT_NAMES` and
  `BISECT_FIRST_PARENT` are text that no modelled step reads back. The
  `--bisect-write` and `--check-and-set-terms` cmdmodes take their terms
  from `git-bisect.sh`, which is outside the sources. `--bisect-terms` and
  `--bisect-next-check` only read. Steps that fail without changing
  anything are left out: a failing checkout, and a declined autostart
  prompt. So are a bare repository (the same as `--no-checkout`), the
  cg-seek check and an unborn HEAD.
- **Formatting, progress, hashing and checksums.** These are data, not
  control.
- **`diff*.c`, `scalar.c`, `repo-settings.c` and the headers.** These are
  option parsing, output formatting, subprocess orchestration and
  declarations, with no concurrency and no persistent state of their own.
- **The MIDX reverse index (`.rev`).** It is derived from the same entries.
- **A `pack-objects` failure in `midx_repack`.** It returns before any state
  changes.
- **Concurrent MIDX writers.** The model serialises them; see the hazard at
  `midx.c:1037`.
- **Commit-graph paths outside the chain model:**
  - alternates (`g->odb != ctx->odb`);
  - a v1 `info/commit-graph` file as the base of a new chain;
  - the non-split write;
  - write failures before the rename (`mkstemp`, `fdopen`). These take the
    same path as the modelled rename failure.
