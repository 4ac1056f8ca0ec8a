------------------------------ MODULE ReadCache ------------------------------
(***************************************************************************)
(* read-cache.c: the cached stat data of index entries and the "racy git" *)
(* protection that keeps it from hiding a change.                         *)
(*                                                                         *)
(* Git processes share one index file.  A command of the "add" kind takes  *)
(* the index lock (hold_locked_index) before it reads the index            *)
(* (do_read_index), adds, removes and refreshes entries, and commits its   *)
(* write (write_locked_index / do_write_index, which smudges racily clean  *)
(* entries).  A command of the "status" kind reads and refreshes without   *)
(* the lock, then tries to take it and writes only through                 *)
(* update_index_if_able, which first checks with verify_index that the     *)
(* index file is still the one it read.  Between commands the user edits   *)
(* files; a clock with a one-second granularity gives files and the index  *)
(* file their mtimes.                                                      *)
(*                                                                         *)
(* Stat data is abstracted to mtime and size: an edit in place sets mtime *)
(* and ctime alike, and leaves inode, owner and device unchanged.  Entries *)
(* are regular files at stage 0 without CE_VALID or skip-worktree.       *)
(***************************************************************************)
EXTENDS Integers, FiniteSets

CONSTANTS
    Procs,        \* git processes
    Paths,        \* tracked paths
    Contents,     \* file contents; a blob's oid is its content
    Size(_),      \* the size of a content
    SizeMod,      \* 2^32: sd_size and the compared st_size are unsigned int
    EmptyBlob,    \* the content of the empty blob
    MaxTime,      \* the clock runs from 1 (a real clock is never 0) to MaxTime
    EditsDuringCommand, \* whether the user may edit while a command runs
    NONE

\* An entry as stored: the oid and the cached stat data.
Entry == [oid : Contents, size : Nat, mtime : Nat]

VARIABLES
    wt,         \* path -> content of the working-tree file
    wmtime,     \* path -> mtime of the working-tree file
    now,        \* the clock
    disk,       \* the index file: [exists, entries, mtime]
    lock,       \* the process holding index.lock, or NONE
    pc,         \* process -> "idle", or the kind of command it runs
    mem,        \* process -> in-core entries (with CE_UPTODATE), or NONE
    base,       \* process -> the entries of the file it read (istate->sha1), or NONE
    timestamp,  \* process -> istate->timestamp.sec
    changed     \* process -> istate->cache_changed

vars == <<wt, wmtime, now, disk, lock, pc, mem, base, timestamp, changed>>
procVars == <<pc, mem, base, timestamp, changed>>

NoEntries == [p \in Paths |-> NONE]

\* lstat() as fill_stat_data stores it and match_stat_data compares it:
\* the size truncated to unsigned int.
Stat(p) == [size |-> Size(wt[p]) % SizeMod, mtime |-> wmtime[p]]

\* match_stat_data and the smudged-size check of ce_match_stat_basic, as
\* the set of change bits.
MatchStatBasic(e, st) ==
    (IF e.mtime # st.mtime THEN {"MTIME"} ELSE {})
    \cup (IF e.size # st.size \/ (e.size = 0 /\ e.oid # EmptyBlob) THEN {"DATA"} ELSE {})

\* ce_modified_check_fs / ce_compare_data: hash the file and compare.
ModifiedCheckFs(e, p) == IF wt[p] # e.oid THEN {"DATA"} ELSE {}

\* is_racy_stat (seconds only, as without USE_NSEC): the entry is not
\* older than the index file the in-core index was read from.
IsRacyStrict(ts, e) == ts # 0 /\ ts < e.mtime
IsRacy(ts, e) == ts # 0 /\ ts <= e.mtime

\* Faulty variant: the racy check is left out.
IeMatchStatNoRacy(ts, e, p, racyIsDirty) == MatchStatBasic(e, Stat(p))

\* ie_match_stat: the stat comparison, and for an entry that looks clean
\* but is racy, either "dirty" (CE_MATCH_RACY_IS_DIRTY) or a content check.
IeMatchStat(ts, e, p, racyIsDirty) ==
    LET basic == MatchStatBasic(e, Stat(p))
    IN IF basic = {} /\ IsRacy(ts, e)
       THEN IF racyIsDirty THEN {"DATA"} ELSE ModifiedCheckFs(e, p)
       ELSE basic

\* ie_modified: a changed size that is not a smudge is a modification;
\* otherwise the content decides.
IeModified(ts, e, p) ==
    LET c == IeMatchStat(ts, e, p, FALSE)
    IN /\ c # {}
       /\ ("DATA" \in c /\ e.size # 0) \/ ModifiedCheckFs(e, p) # {}

\* fill_stat_cache_info: new stat data; a regular file becomes up to date.
FillStatCacheInfo(e, p) ==
    [e EXCEPT !.size = Stat(p).size, !.mtime = Stat(p).mtime, !.uptodate = TRUE]

\* ce_smudge_racily_clean_entry: an entry whose stat data matches a file
\* with other content gets size 0.
SmudgeRacilyClean(e, p) ==
    IF MatchStatBasic(e, Stat(p)) = {} /\ ModifiedCheckFs(e, p) # {}
    THEN [e EXCEPT !.size = 0] ELSE e

\* Faulty variant: no smudging on write.
SmudgedNoop(ts, e, p) == e

\* The entry do_write_index writes: smudged if not up to date and racy.
Smudged(ts, e, p) ==
    IF ~e.uptodate /\ IsRacy(ts, e) THEN SmudgeRacilyClean(e, p) ELSE e

\* Faulty variant: the in-core flag is written out.
OnDiskKeepFlag(e) == e

\* ce_write_entry / copy_cache_entry_to_ondisk: only the stored fields.
OnDisk(e) == [oid |-> e.oid, size |-> e.size, mtime |-> e.mtime]

\* create_from_disk / cache_entry_from_ondisk: the stored fields, and the
\* in-core flags cleared.
FromDisk(e) == [oid |-> e.oid, size |-> e.size, mtime |-> e.mtime, uptodate |-> FALSE]

\* add_index_entry at stage 0: an entry of the same name is replaced,
\* otherwise the entry is inserted.
AddIndexEntry(m, p, ce) == [m EXCEPT ![p] = ce]

-----------------------------------------------------------------------------
Init ==
    /\ wt \in [Paths -> Contents]
    /\ wmtime = [p \in Paths |-> 1]
    /\ now = 1
    /\ disk = [exists |-> FALSE, entries |-> NoEntries, mtime |-> 0]
    /\ lock = NONE
    /\ pc = [q \in Procs |-> "idle"]
    /\ mem = [q \in Procs |-> NoEntries]
    /\ base = [q \in Procs |-> NONE]
    /\ timestamp = [q \in Procs |-> 0]
    /\ changed = [q \in Procs |-> FALSE]

\* The clock advances by a second.
Tick ==
    /\ now < MaxTime
    /\ now' = now + 1
    /\ UNCHANGED <<wt, wmtime, disk, lock, procVars>>

\* The user writes a file: new content, mtime now.
EditFile ==
    /\ (\A q \in Procs : pc[q] = "idle") \/ EditsDuringCommand
    /\ \E p \in Paths, c \in Contents :
          /\ wt' = [wt EXCEPT ![p] = c]
          /\ wmtime' = [wmtime EXCEPT ![p] = now]
    /\ UNCHANGED <<now, disk, lock, procVars>>

\* do_read_index into process q: without an index file the timestamp
\* stays 0 and the index is not initialized; otherwise the entries, the
\* checksum and the file's mtime are taken.
ReadIndex(q) ==
    /\ timestamp' = [timestamp EXCEPT ![q] = IF disk.exists THEN disk.mtime ELSE 0]
    /\ base' = [base EXCEPT ![q] = IF disk.exists THEN disk.entries ELSE NONE]
    /\ mem' = [mem EXCEPT ![q] =
                 [p \in Paths |-> IF disk.entries[p] = NONE THEN NONE
                                  ELSE FromDisk(disk.entries[p])]]
    /\ changed' = [changed EXCEPT ![q] = FALSE]

\* "git add": hold_locked_index (dying if the lock is taken), then read.
StartAdd(q) ==
    /\ pc[q] = "idle"
    /\ lock = NONE
    /\ lock' = q
    /\ pc' = [pc EXCEPT ![q] = "add"]
    /\ ReadIndex(q)
    /\ UNCHANGED <<wt, wmtime, now, disk>>

\* "git status": read without the lock.
StartStatus(q) ==
    /\ pc[q] = "idle"
    /\ pc' = [pc EXCEPT ![q] = "status"]
    /\ ReadIndex(q)
    /\ UNCHANGED <<wt, wmtime, now, disk, lock>>

\* add_file_to_index / add_to_index: an existing entry that matches the
\* stat data (racy counts as dirty) is only marked up to date; otherwise
\* the file is hashed into a new entry with fresh stat data.
AddToIndex(q) ==
    /\ pc[q] = "add"
    /\ \E p \in Paths :
          LET alias == mem[q][p]
          IN IF alias # NONE /\ IeMatchStat(timestamp[q], alias, p, TRUE) = {}
             THEN /\ mem' = [mem EXCEPT ![q][p].uptodate = TRUE]
                  /\ UNCHANGED changed
             ELSE /\ mem' = [mem EXCEPT ![q] = AddIndexEntry(mem[q], p,
                               FillStatCacheInfo([oid |-> wt[p], size |-> 0, mtime |-> 0,
                                                  uptodate |-> FALSE], p))]
                  /\ changed' = [changed EXCEPT ![q] = TRUE]
    /\ UNCHANGED <<wt, wmtime, now, disk, lock, pc, base, timestamp>>

\* remove_file_from_index ("git rm --cached"): the entry of the path is
\* removed (remove_index_entry_at) and the index is changed.
RemoveFromIndex(q) ==
    /\ pc[q] = "add"
    /\ \E p \in Paths :
          /\ mem[q][p] # NONE
          /\ mem' = [mem EXCEPT ![q][p] = NONE]
          /\ changed' = [changed EXCEPT ![q] = TRUE]
    /\ UNCHANGED <<wt, wmtime, now, disk, lock, pc, base, timestamp>>

\* Faulty variant: an entry is refreshed even when ie_modified says it is
\* modified.
RefreshEntryIgnoreModified(q) ==
    /\ pc[q] # "idle"
    /\ \E p \in Paths :
          LET e == mem[q][p]
          IN /\ e # NONE
             /\ ~e.uptodate
             /\ IF IeMatchStat(timestamp[q], e, p, FALSE) = {}
                THEN /\ mem' = [mem EXCEPT ![q][p].uptodate = TRUE]
                     /\ UNCHANGED changed
                ELSE /\ mem' = [mem EXCEPT ![q][p] = FillStatCacheInfo(e, p)]
                     /\ changed' = [changed EXCEPT ![q] = TRUE]
    /\ UNCHANGED <<wt, wmtime, now, disk, lock, pc, base, timestamp>>

\* refresh_index, for one entry (refresh_cache_ent with CE_MATCH_REFRESH):
\* an up-to-date entry is skipped; a clean one is marked up to date; a
\* changed one whose content is unchanged gets fresh stat data (and the
\* index is changed); a modified one stays as it is ("needs update").
RefreshEntry(q) ==
    /\ pc[q] # "idle"
    /\ \E p \in Paths :
          LET e == mem[q][p]
          IN /\ e # NONE
             /\ ~e.uptodate
             /\ IF IeMatchStat(timestamp[q], e, p, FALSE) = {}
                THEN /\ mem' = [mem EXCEPT ![q][p].uptodate = TRUE]
                     /\ UNCHANGED changed
                ELSE IF ~IeModified(timestamp[q], e, p)
                THEN /\ mem' = [mem EXCEPT ![q][p] = FillStatCacheInfo(e, p)]
                     /\ changed' = [changed EXCEPT ![q] = TRUE]
                ELSE UNCHANGED <<mem, changed>>
    /\ UNCHANGED <<wt, wmtime, now, disk, lock, pc, base, timestamp>>

\* do_write_index and commit_locked_index: every entry is written (racily
\* clean ones smudged) and the index file gets mtime now.
DoWriteIndex(q) ==
    LET out == [p \in Paths |->
                  IF mem[q][p] = NONE THEN NONE
                  ELSE OnDisk(Smudged(timestamp[q], mem[q][p], p))]
    IN disk' = [exists |-> TRUE, entries |-> out, mtime |-> now]

\* The command of q ends: its in-core index is gone.
EndCommand(q) ==
    /\ pc' = [pc EXCEPT ![q] = "idle"]
    /\ mem' = [mem EXCEPT ![q] = NoEntries]
    /\ base' = [base EXCEPT ![q] = NONE]
    /\ timestamp' = [timestamp EXCEPT ![q] = 0]
    /\ changed' = [changed EXCEPT ![q] = FALSE]

\* write_locked_index(COMMIT_LOCK), as "git add" ends: the lock is
\* committed as the new index file.
WriteIndex(q) ==
    /\ pc[q] = "add"
    /\ DoWriteIndex(q)
    /\ lock' = NONE
    /\ EndCommand(q)
    /\ UNCHANGED <<wt, wmtime, now>>

\* has_racy_timestamp: some entry is racy against the index read.
HasRacyTimestamp(q) ==
    \E p \in Paths : mem[q][p] # NONE /\ IsRacy(timestamp[q], mem[q][p])

\* verify_index / verify_index_from: the index was read (initialized), an
\* index file exists, and its checksum is the one read.
VerifyIndex(q) ==
    /\ base[q] # NONE
    /\ disk.exists
    /\ disk.entries = base[q]

\* Faulty variant: update_index_if_able without verify_index.
UpdateIndexIfAbleNoVerify(q) ==
    /\ pc[q] = "status"
    /\ lock = NONE
    /\ changed[q] \/ HasRacyTimestamp(q)
    /\ DoWriteIndex(q)
    /\ EndCommand(q)
    /\ UNCHANGED <<wt, wmtime, now, lock>>

\* "git status" ends: hold_locked_index succeeds, and update_index_if_able
\* writes and commits if the index changed or holds a racy entry and
\* verify_index passes.  The lock is taken and released in this step.
UpdateIndexIfAble(q) ==
    /\ pc[q] = "status"
    /\ lock = NONE
    /\ changed[q] \/ HasRacyTimestamp(q)
    /\ VerifyIndex(q)
    /\ DoWriteIndex(q)
    /\ EndCommand(q)
    /\ UNCHANGED <<wt, wmtime, now, lock>>

\* The command ends without writing the index: a status that cannot lock
\* or has nothing to write, or a command that fails; a held lock is
\* rolled back.
Discard(q) ==
    /\ pc[q] # "idle"
    /\ lock' = IF lock = q THEN NONE ELSE lock
    /\ EndCommand(q)
    /\ UNCHANGED <<wt, wmtime, now, disk>>

Next ==
    \/ Tick
    \/ EditFile
    \/ \E q \in Procs :
          \/ StartAdd(q)
          \/ StartStatus(q)
          \/ AddToIndex(q)
          \/ RemoveFromIndex(q)
          \/ RefreshEntry(q)
          \/ WriteIndex(q)
          \/ UpdateIndexIfAble(q)
          \/ Discard(q)

Spec == Init /\ [][Next]_vars

-----------------------------------------------------------------------------
(* Properties                                                              *)

TypeOK ==
    /\ disk.entries \in [Paths -> Entry \cup {NONE}]
    /\ disk.mtime \in 0..now
    /\ lock \in Procs \cup {NONE}
    /\ pc \in [Procs -> {"idle", "add", "status"}]
    /\ \A q \in Procs : timestamp[q] \in 0..now

\* A command that reads the index file now and compares an entry's stat
\* data with the file (ie_match_stat, racy entries checked by content)
\* never finds a modified file clean: the racy check at read time and the
\* smudging at write time cover every edit made in the same second as the
\* stat data was taken, whichever process wrote the index last.
NoFalselyClean ==
    disk.exists =>
        \A p \in Paths :
            LET e == disk.entries[p]
            IN (e # NONE /\ IeMatchStat(disk.mtime, e, p, FALSE) = {}) => wt[p] = e.oid

\* Within a command, an entry marked up to date (CE_UPTODATE, never
\* written out) holds the content of the file.
UptodateIsClean ==
    \A q \in Procs :
        \A p \in Paths : (mem[q][p] # NONE /\ mem[q][p].uptodate) => wt[p] = mem[q][p].oid

\* The blobs staged in the index file change only when a "git add" that
\* has held the lock since it read the index commits: an opportunistic
\* write by "git status" (update_index_if_able), computed from an index it
\* read earlier, never reverts or drops what another command staged.
StagedOid(es, p) == IF es[p] = NONE THEN NONE ELSE es[p].oid

StagedOnlyByLockedWrites ==
    [][ (\E p \in Paths : StagedOid(disk'.entries, p) # StagedOid(disk.entries, p))
          => \E q \in Procs : pc[q] = "add" /\ lock = q /\ pc'[q] = "idle" ]_vars

=============================================================================
