---------------------------- MODULE IndexEntries ----------------------------
(***************************************************************************)
(* The cache-entry array of the index (read-cache.c): entries sorted by   *)
(* name and stage, found by binary search (index_name_stage_pos), added by *)
(* add_index_entry with its directory/file conflict checks (has_file_name, *)
(* has_dir_name and the fast path that compares with the last entry) and  *)
(* removed by remove_file_from_index.                                     *)
(*                                                                         *)
(* A name is its bytes: the conflict checks and the fast path depend on   *)
(* byte order ('-' < '/' < letters), so names are sequences of byte       *)
(* values over a small alphabet.  Positions are the C code's 0-based      *)
(* positions; At(c, pos) is istate->cache[pos].                            *)
(***************************************************************************)
EXTENDS Integers, Sequences, FiniteSets

CONSTANTS
    Names,        \* candidate path names (sequences of byte values)
    Stages,       \* merge stages of added entries (0 = merged)
    Options,      \* sets of ADD_CACHE_* flags callers pass
    MaxEntries    \* bound on cache_nr

SLASH == 47   \* '/'

VARIABLE cache   \* istate->cache[0 .. cache_nr-1]: [name, stage, remove]

At(c, pos) == c[pos + 1]

SmallerOf(a, b) == IF a < b THEN a ELSE b

-----------------------------------------------------------------------------
(* Name comparison                                                         *)

\* strcmp_offset: the number of equal leading bytes, and the sign of the
\* first difference (the terminating NUL sorts below every byte).
StrcmpOffset(a, b) ==
    LET m == SmallerOf(Len(a), Len(b))
        diff == { k \in 1..m : a[k] # b[k] }
        k == IF diff = {} THEN m + 1 ELSE CHOOSE d \in diff : \A e \in diff : d <= e
    IN [first |-> k - 1,
        cmp   |-> IF k <= m THEN a[k] - b[k] ELSE Len(a) - Len(b)]

\* cache_name_stage_compare: name_compare (memcmp, then length), then stage.
CacheNameStageCompare(n1, s1, n2, s2) ==
    LET c == StrcmpOffset(n1, n2).cmp
    IN IF c # 0 THEN c ELSE s1 - s2

\* index_name_stage_pos: the binary search over [first, last); the
\* position found, or -first-1.
RECURSIVE BSearch(_, _, _, _, _)
BSearch(c, name, stage, first, last) ==
    IF last <= first THEN -first - 1
    ELSE LET next == (last + first) \div 2
             cmp == CacheNameStageCompare(name, stage, At(c, next).name, At(c, next).stage)
         IN IF cmp = 0 THEN next
            ELSE IF cmp < 0 THEN BSearch(c, name, stage, first, next)
            ELSE BSearch(c, name, stage, next + 1, last)

IndexNameStagePos(c, name, stage) == BSearch(c, name, stage, 0, Len(c))

\* remove_index_entry_at: the entries after pos move down by one.
RemoveIndexEntryAt(c, pos) == SubSeq(c, 1, pos) \o SubSeq(c, pos + 2, Len(c))

\* remove_index_entry_at called, in a loop that stays at pos, on each of
\* the positions S (0-based, as they were before the first removal).
RemoveEntriesAt(c, S) ==
    LET kept == SelectSeq([i \in DOMAIN c |-> i], LAMBDA i : i - 1 \notin S)
    IN [k \in DOMAIN kept |-> c[kept[k]]]

\* name is a leading directory of p: p starts with name followed by '/'.
IsDirPrefix(name, p) ==
    Len(name) < Len(p) /\ SubSeq(p, 1, Len(name)) = name /\ p[Len(name) + 1] = SLASH

-----------------------------------------------------------------------------
(* Directory/file conflict checks; each returns [retval, cache]            *)

\* The entries from pos to k all extend ce's name (has_file_name's loop
\* runs on over them: neither break is taken).
ExtendsAll(c, ce, pos, k) ==
    \A j \in pos..k :
        Len(ce.name) < Len(At(c, j).name) /\ SubSeq(At(c, j).name, 1, Len(ce.name)) = ce.name

\* has_file_name: the entries of that run at ce's stage, not going away,
\* whose name continues with '/' conflict; without ok_to_replace the first
\* one ends the loop, with it each is removed (the loop stays at pos).
HasFileName(c, ce, pos, ok) ==
    LET conflicts == { k \in pos..(Len(c) - 1) :
                         /\ ExtendsAll(c, ce, pos, k)
                         /\ At(c, k).stage = ce.stage
                         /\ At(c, k).name[Len(ce.name) + 1] = SLASH
                         /\ ~At(c, k).remove }
    IN [retval |-> IF conflicts = {} THEN 0 ELSE -1,
        cache  |-> IF ok THEN RemoveEntriesAt(c, conflicts) ELSE c]

\* The while loop of has_dir_name after the search: an entry at the same
\* stage, not going away, among the entries from pos on that lie inside the
\* directory name[0..len), shows there is no conflict at this level or above.
SubdirectoryPresent(c, ce, len, pos) ==
    \E k \in pos..(Len(c) - 1) :
        /\ \A j \in pos..k : IsDirPrefix(SubSeq(ce.name, 1, len), At(c, j).name)
        /\ At(c, k).stage = ce.stage
        /\ ~At(c, k).remove

\* The early returns of has_dir_name when the entry sorts after the last
\* one (cmp_last > 0): the directory prefix name[0..len) cannot be a file
\* of the index if it lies within the bytes shared with the last entry,
\* if it is longer than them, or if the last entry is longer than it.
DirNameFastPath(c, ce, len, lenEqLast) ==
    \/ len + 1 <= lenEqLast
    \/ len > lenEqLast
    \/ Len(c) > 0 /\ Len(At(c, Len(c) - 1).name) > len

\* The lengths of the leading directories of a name, longest first: where
\* has_dir_name's inner loop (*--slash == '/') stops.
DirLens(name) ==
    SelectSeq([k \in 1..Len(name) |-> Len(name) - k], LAMBDA j : name[j + 1] = SLASH)

\* One iteration of has_dir_name's outer loop, for the directory
\* name[0..len), on st = [retval, cache, done], pos0 being the search for
\* that directory in st.cache; x holds ce, ok_to_replace, cmp_last and
\* len_eq_last.  done is a return; a removal continues the loop.
DirStepAt(st, len, x, pos0) ==
    IF x.cmpLast > 0 /\ DirNameFastPath(st.cache, x.ce, len, x.lenEqLast)
    THEN [st EXCEPT !.done = TRUE]
    ELSE IF pos0 >= 0 /\ ~At(st.cache, pos0).remove
    THEN IF ~x.ok THEN [st EXCEPT !.retval = -1, !.done = TRUE]
         ELSE [st EXCEPT !.retval = -1, !.cache = RemoveIndexEntryAt(st.cache, pos0)]
    ELSE IF SubdirectoryPresent(st.cache, x.ce, len, IF pos0 >= 0 THEN pos0 ELSE -pos0 - 1)
    THEN [st EXCEPT !.done = TRUE]
    ELSE st

DirStep(st, len, x) ==
    DirStepAt(st, len, x, IndexNameStagePos(st.cache, SubSeq(x.ce.name, 1, len), x.ce.stage))

\* The outer loop: one DirStep per leading directory until one returns.
RECURSIVE HasDirNameLoop(_, _, _)
HasDirNameLoop(st, lens, x) ==
    IF lens = << >> \/ st.done THEN st
    ELSE HasDirNameLoop(DirStep(st, Head(lens), x), Tail(lens), x)

\* strcmp_offset of ce's name against the last entry's (cmp_last stays 0
\* in an empty index, and len_eq_last is then never read).
LastCompare(c, ce) ==
    IF Len(c) > 0 THEN StrcmpOffset(ce.name, At(c, Len(c) - 1).name)
    ELSE [first |-> 0, cmp |-> 0]

\* has_dir_name, given last, the comparison of ce's name with the last
\* entry's: no common prefix with an entry it sorts after ends it at once.
HasDirNameAfter(c, ce, ok, last) ==
    IF Len(c) > 0 /\ last.cmp > 0 /\ last.first = 0
    THEN [retval |-> 0, cache |-> c]
    ELSE [r \in {"retval", "cache"} |->
            HasDirNameLoop([retval |-> 0, cache |-> c, done |-> FALSE],
                           DirLens(ce.name),
                           [ce |-> ce, ok |-> ok, cmpLast |-> last.cmp,
                            lenEqLast |-> last.first])[r]]

HasDirName(c, ce, ok) == HasDirNameAfter(c, ce, ok, LastCompare(c, ce))

\* The sum of the two checks' results, and the cache has_dir_name left.
BothChecks(f, d) == [retval |-> f.retval + d.retval, cache |-> d.cache]

\* has_dir_name on the cache has_file_name left (f).
AfterHasFileName(f, ce, ok) == BothChecks(f, HasDirName(f.cache, ce, ok))

\* check_file_directory_conflict: nothing for an "I am going away" entry;
\* else has_file_name, then has_dir_name on what is left.
CheckFileDirectoryConflict(c, ce, pos, ok) ==
    IF ce.remove THEN [retval |-> 0, cache |-> c]
    ELSE AfterHasFileName(HasFileName(c, ce, pos, ok), ce, ok)

\* verify_path over this alphabet (no '.'): no empty component, so no
\* leading, doubled or trailing '/', and not empty.
VerifyPath(name) ==
    /\ name # << >>
    /\ name[1] # SLASH
    /\ name[Len(name)] # SLASH
    /\ \A k \in 1..(Len(name) - 1) : ~(name[k] = SLASH /\ name[k + 1] = SLASH)

\* Inserting a merged entry removes the entries of the same name from pos
\* on (its other stages); the loop ends at another name or at the end.
RemoveSameName(c, pos, name) ==
    RemoveEntriesAt(c, { k \in pos..(Len(c) - 1) : \A j \in pos..k : At(c, j).name = name })

-----------------------------------------------------------------------------
(* add_index_entry_with_check and add_index_entry                          *)

\* The end of add_index_entry_with_check once the conflict check (df) ran
\* on c1: an error without ok_to_replace, else the insert position
\* recomputed in the cache the removals left.
AfterConflictCheck(c1, ce, pos, ok, df) ==
    CASE df.retval = 0 -> [ret |-> pos + 1, cache |-> c1]
      [] ~ok -> [ret |-> -1, cache |-> df.cache]
      [] OTHER -> [ret |-> -IndexNameStagePos(df.cache, ce.name, ce.stage) - 1 + 1,
                   cache |-> df.cache]

\* add_index_entry_with_check from pos = -pos-1 on, c1 being the cache
\* after the merged entry's other stages were dropped (merged says some were).
AfterMerge(c1, ce, opt, pos, merged) ==
    CASE ~("ok_to_add" \in opt \/ merged) -> [ret |-> -1, cache |-> c1]
      [] ~VerifyPath(ce.name) -> [ret |-> -1, cache |-> c1]
      [] "skip_dfcheck" \in opt -> [ret |-> pos + 1, cache |-> c1]
      [] OTHER -> AfterConflictCheck(c1, ce, pos, "ok_to_replace" \in opt,
                    CheckFileDirectoryConflict(c1, ce, pos, "ok_to_replace" \in opt))

\* A merged entry whose name is at pos: its other stages go.
MergedAt(c, ce, pos) == pos < Len(c) /\ ce.stage = 0 /\ At(c, pos).name = ce.name

\* add_index_entry_with_check once the position is known (pos0 from the
\* search, or -cache_nr-1 after the last entry): an existing match is
\* replaced unless ADD_CACHE_NEW_ONLY; else the insertion goes on at
\* -pos0-1.  The result: ret as the C function returns it (pos + 1 to
\* insert at pos, 0 done, negative an error) and the cache it leaves.
AddAtPos(c, ce, opt, pos0) ==
    IF pos0 >= 0
    THEN [ret |-> 0, cache |-> IF "new_only" \in opt THEN c ELSE [c EXCEPT ![pos0 + 1] = ce]]
    ELSE AfterMerge(IF MergedAt(c, ce, -pos0 - 1) THEN RemoveSameName(c, -pos0 - 1, ce.name) ELSE c,
                    ce, opt, -pos0 - 1, MergedAt(c, ce, -pos0 - 1))

\* The position: after the last entry if ce sorts after it, else the search.
SearchPos(c, ce) ==
    IF Len(c) > 0 /\ StrcmpOffset(ce.name, At(c, Len(c) - 1).name).cmp > 0
    THEN -Len(c) - 1
    ELSE IndexNameStagePos(c, ce.name, ce.stage)

AddIndexEntryWithCheck(c, ce, opt) == AddAtPos(c, ce, opt, SearchPos(c, ce))

\* Insert ce at pos, moving the entries from pos up by one.
InsertAt(c, pos, ce) == SubSeq(c, 1, pos) \o <<ce>> \o SubSeq(c, pos + 1, Len(c))

Entries == [name : Names, stage : Stages, remove : BOOLEAN]

Init == cache = << >>

\* add_index_entry after the check returned r: insert at r.ret - 1.
Inserted(r, ce) == IF r.ret <= 0 THEN r.cache ELSE InsertAt(r.cache, r.ret - 1, ce)

\* add_index_entry(istate, ce, option) without ADD_CACHE_JUST_APPEND.
AddIndexEntry(ce, opt) ==
    /\ Len(cache) < MaxEntries
    /\ cache' = Inserted(AddIndexEntryWithCheck(cache, ce, opt), ce)

\* remove_file_from_index: every stage of the path.
RemoveFileFromIndex(name) ==
    LET p0 == IndexNameStagePos(cache, name, 0)
    IN cache' = RemoveSameName(cache, IF p0 < 0 THEN -p0 - 1 ELSE p0, name)

Next ==
    \/ \E ce \in Entries, opt \in Options : AddIndexEntry(ce, opt)
    \/ \E name \in Names : RemoveFileFromIndex(name)

Spec == Init /\ [][Next]_cache

-----------------------------------------------------------------------------
(* Properties                                                              *)

TypeOK == cache \in Seq(Entries)

\* The comment of check_file_directory_conflict: the index never holds a
\* path both as a file and as a leading directory of another path at the
\* same stage ("nonsense tree that has path twice"), when every add goes
\* through the conflict checks.  Broken only by entries "going away".
NoDFConflict ==
    \A i, j \in DOMAIN cache :
        LET e == cache[i]  f == cache[j] IN
        (e.stage = f.stage /\ ~e.remove /\ ~f.remove) => ~IsDirPrefix(e.name, f.name)

=============================================================================
