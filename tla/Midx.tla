-------------------------------- MODULE Midx --------------------------------
(***************************************************************************)
(* The multi-pack-index of midx.c as one object directory sees it: packs  *)
(* on disk, the MIDX file, and the operations that rewrite it:            *)
(* write_midx_file (write_midx_internal over get_sorted_entries),         *)
(* expire_midx_packs (unlink the unreferenced packs, then rewrite with a  *)
(* drop list), midx_repack (pack-objects over the objects of the selected *)
(* packs, then rewrite) and clear_midx_file.  Other git processes add     *)
(* packs (fetch, repack) and time passes.                                  *)
(*                                                                         *)
(* A pack is named by its content, as pack-objects names a pack by the    *)
(* hash of its sorted object ids, so a pack is modelled as its set of     *)
(* objects and its name order by NameKey, an injective scramble that is   *)
(* unrelated to size or age.  PackOffset gives an object's offset in a    *)
(* pack, at the scaled width of MidxOffsets.  The MIDX file is modelled   *)
(* as it is on disk: the sorted pack-name list, per object a pack-int-id  *)
(* into that list, and the OOFF and LOFF chunks that store the offsets.   *)
(*                                                                         *)
(* Expire is split at the point where it has unlinked packs but not yet   *)
(* committed the new MIDX, and the process may be killed there.           *)
(***************************************************************************)
EXTENDS Integers, Sequences, FiniteSets, MidxOffsets

CONSTANTS
    Objects,          \* object ids
    Incoming,         \* packs other git processes (fetch, repack) may write
    KeptPacks,        \* packs written with a .keep file
    NameKey(_),       \* pack -> its name's sort key (strcmp order of names)
    MaxPacks,         \* bound on packs on disk at once
    MaxTime,          \* bound on the clock that stamps pack mtimes
    BatchSizes,       \* --batch-size values tried by midx_repack (0 = all)
    PackKeptObjects,  \* repack.packkeptobjects
    PackOffset(_, _), \* nth_packed_object_offset: where an object sits in a pack
    NONE

ASSUME MaxPacks \in Nat /\ MaxTime \in Nat /\ BatchSizes \subseteq Nat
ASSUME PackKeptObjects \in BOOLEAN

Packs == SUBSET Objects \ {{}}

ASSUME \A p, q \in Packs : p # q => NameKey(p) # NameKey(q)
ASSUME Incoming \subseteq Packs /\ KeptPacks \subseteq Packs

Range(s) == { s[k] : k \in DOMAIN s }

\* The sequences listing each element of a finite set once.
Orderings(S) ==
    { s \in [1..Cardinality(S) -> S] : Range(s) = S }

\* The pack list sorted by name (pack_info_compare: strcmp of names).
RECURSIVE SortByName(_)
SortByName(S) ==
    IF S = {} THEN << >>
    ELSE LET first == CHOOSE p \in S : \A q \in S : NameKey(p) <= NameKey(q)
         IN <<first>> \o SortByName(S \ {first})

IndexOf(s, x) == CHOOSE k \in DOMAIN s : s[k] = x

-----------------------------------------------------------------------------
VARIABLES
    packs,         \* packs on disk (their .idx and .pack files)
    mtime,         \* pack -> st_mtime of the pack file
    now,           \* the clock
    midx,          \* NONE, or the MIDX file: [names, ids, offsets]
    pending,       \* NONE, or an expire that has unlinked its packs: [m, drops]
    everStored,    \* history: every object ever written to a pack
    bugged         \* history: a write_midx_internal call reached a BUG()

vars == <<packs, mtime, now, midx, pending, everStored, bugged>>

Indexed(m) == DOMAIN m.ids
MidxPackOf(m, o) == m.names[m.ids[o]]

\* bsearch_midx: the position of an object in the OID lookup chunk.
MidxPos(m, o) == Cardinality({x \in Indexed(m) : x <= o})

\* nth_midxed_offset at the object's position.
MidxOffsetOf(m, o) == NthMidxedOffset(m.offsets, MidxPos(m, o))

-----------------------------------------------------------------------------
(* get_sorted_entries: the de-duplicated object list.                     *)

\* One pack_midx_entry: the object, the pack-int-id in the pre-sort info
\* array, the pack mtime (0 for an object taken from the old MIDX), the
\* offset and whether it comes from the preferred pack.
Entry(o, id, mt, off, pref) ==
    [oid |-> o, id |-> id, mtime |-> mt, off |-> off, preferred |-> pref]

\* Faulty variant: start_pack = 0, so the packs of the old MIDX are scanned
\* again alongside its entries.
CandidatesRescan(m, info, prefIdx) ==
    { Entry(o, m.ids[o], 0, MidxOffsetOf(m, o), m.ids[o] = prefIdx) :
          o \in IF m = NONE THEN {} ELSE Indexed(m) }
    \cup
    UNION { { Entry(o, k, mtime[info[k]], PackOffset(info[k], o), k = prefIdx) :
                  o \in info[k] } : k \in 1..Len(info) }

\* Candidate entries: every object of the old MIDX (nth_midxed_pack_midx_entry,
\* mtime 0), then every object of each pack added after it (fill_pack_entry).
Candidates(m, info, prefIdx) ==
    LET start == IF m = NONE THEN 0 ELSE Len(m.names)
    IN  { Entry(o, m.ids[o], 0, MidxOffsetOf(m, o), m.ids[o] = prefIdx) :
              o \in IF m = NONE THEN {} ELSE Indexed(m) }
        \cup
        UNION { { Entry(o, k, mtime[info[k]], PackOffset(info[k], o), k = prefIdx) :
                      o \in info[k] } : k \in (start + 1)..Len(info) }

\* midx_oid_compare for two copies of one object: preferred first, then the
\* newer pack, then the lower pack-int-id.
SortsBefore(a, b) ==
    \/ a.preferred /\ ~b.preferred
    \/ a.preferred = b.preferred /\ a.mtime > b.mtime
    \/ a.preferred = b.preferred /\ a.mtime = b.mtime /\ a.id < b.id

\* The copy kept for o: the first of its run after QSORT.
Selected(cands, o) ==
    CHOOSE e \in cands : e.oid = o /\ \A f \in cands : f.oid = o /\ f # e => SortsBefore(e, f)

GetSortedEntries(m, info, prefIdx) ==
    LET cands == Candidates(m, info, prefIdx)
    IN  [o \in { e.oid : e \in cands } |-> Selected(cands, o)]

-----------------------------------------------------------------------------
(* write_midx_internal                                                    *)

\* Faulty variant: the old pack-int-id is written as it is, without the
\* pack_perm translation to the name-sorted order.
PackPermUnsorted(info, drops) ==
    [k \in DOMAIN info |-> IF info[k] \in drops THEN 0 ELSE k]

\* Faulty variant: new ids count the expired packs too (i, not
\* i - dropped_packs).
PackPermNoSkip(info, drops) ==
    LET all == SortByName(Range(info))
    IN [k \in DOMAIN info |-> IF info[k] \in drops THEN 0 ELSE IndexOf(all, info[k])]

\* pack_perm[old id] = new id: position in the name-sorted list with the
\* expired packs skipped, or 0 (PACK_EXPIRED).
PackPerm(info, drops) ==
    LET live == SortByName(Range(info) \ drops)
    IN [k \in DOMAIN info |-> IF info[k] \in drops THEN 0 ELSE IndexOf(live, info[k])]

\* The outcome of write_midx_internal(m, drops, preferred) when the pack
\* directory lists the packs that m does not name in the order newOrder.
\* "noop": nothing new and no drop list; "error": no pack left to index;
\* "bug": an entry lies in an expired pack, or an offset writer hits a
\* BUG(); else the new file, its offsets in OID order (the OIDL order).
WriteMidxInternal(m, drops, pref, newOrder) ==
    LET info    == (IF m = NONE THEN << >> ELSE m.names) \o newOrder
        prefIdx == IF pref \in Range(info) THEN IndexOf(info, pref) ELSE 0
        entries == GetSortedEntries(m, info, prefIdx)
        perm    == PackPerm(info, drops)
        oids    == CHOOSE s \in Orderings(DOMAIN entries) :
                       \A a, b \in DOMAIN s : a < b => s[a] < s[b]
        offsets == WriteOffsets([i \in DOMAIN oids |-> entries[oids[i]].off])
    IN  CASE m # NONE /\ newOrder = << >> /\ drops = {} -> [status |-> "noop"]
          [] Range(info) \ drops = {}               -> [status |-> "error"]
          [] \E o \in DOMAIN entries : perm[entries[o].id] = 0 -> [status |-> "bug"]
          [] WriteFailed(offsets)                  -> [status |-> "bug"]
          [] OTHER -> [status |-> "written",
                       file   |-> [names   |-> SortByName(Range(info) \ drops),
                                   ids     |-> [o \in DOMAIN entries |-> perm[entries[o].id]],
                                   offsets |-> offsets]]

\* Packs in the directory that the MIDX m does not name (add_pack_to_midx).
NewPacks(m) == packs \ (IF m = NONE THEN {} ELSE Range(m.names))

\* Install an outcome: only a written file replaces the MIDX.
Installed(res) == IF res.status = "written" THEN res.file ELSE midx

-----------------------------------------------------------------------------
(* Operations                                                              *)

\* Another git process writes a pack (fetch, repack, gc).
AddPack(p) ==
    /\ p \notin packs
    /\ Cardinality(packs) < MaxPacks
    /\ packs' = packs \cup {p}
    /\ mtime' = [mtime EXCEPT ![p] = now]
    /\ everStored' = everStored \cup p
    /\ UNCHANGED <<now, midx, pending, bugged>>

Tick ==
    /\ now < MaxTime
    /\ now' = now + 1
    /\ UNCHANGED <<packs, mtime, midx, pending, everStored, bugged>>

\* write_midx_file(object_dir, preferred_pack_name): load the MIDX, list the
\* pack directory, de-duplicate, write and commit under the lock.
WriteMidxFile(pref) ==
    /\ pending = NONE
    /\ \E newOrder \in Orderings(NewPacks(midx)) :
          LET res == WriteMidxInternal(midx, {}, pref, newOrder) IN
          /\ midx' = Installed(res)
          /\ bugged' = (bugged \/ res.status = "bug")
    /\ UNCHANGED <<packs, mtime, now, pending, everStored>>

\* Faulty variant: the "if (count[i]) continue" test is missing.
ExpireMidxPacksUnlinkAll ==
    /\ pending = NONE
    /\ midx # NONE
    /\ LET drops == { p \in Range(midx.names) : p \in packs /\ p \notin KeptPacks }
       IN /\ packs' = packs \ drops
          /\ pending' = IF drops = {} THEN NONE ELSE [m |-> midx, drops |-> drops]
    /\ UNCHANGED <<mtime, now, midx, everStored, bugged>>

\* expire_midx_packs, up to the unlinks: count the objects each MIDX pack
\* provides and unlink the packs that provide none (unless kept or missing).
ExpireMidxPacksUnlink ==
    /\ pending = NONE
    /\ midx # NONE
    /\ LET count(p) == Cardinality({o \in Indexed(midx) : MidxPackOf(midx, o) = p})
           drops    == { p \in Range(midx.names) :
                            count(p) = 0 /\ p \in packs /\ p \notin KeptPacks }
       IN /\ packs' = packs \ drops
          /\ pending' = IF drops = {} THEN NONE ELSE [m |-> midx, drops |-> drops]
    /\ UNCHANGED <<mtime, now, midx, everStored, bugged>>

\* expire_midx_packs, the rest: write_midx_internal(m, packs_to_drop).
ExpireMidxPacksWrite ==
    /\ pending # NONE
    /\ \E newOrder \in Orderings(NewPacks(pending.m)) :
          LET res == WriteMidxInternal(pending.m, pending.drops, NONE, newOrder) IN
          /\ midx' = Installed(res)
          /\ bugged' = (bugged \/ res.status = "bug")
    /\ pending' = NONE
    /\ UNCHANGED <<packs, mtime, now, everStored>>

\* The expiring process is killed after its unlinks, before its commit.
CrashAfterUnlink ==
    /\ pending # NONE
    /\ pending' = NONE
    /\ UNCHANGED <<packs, mtime, now, midx, everStored, bugged>>

\* fill_included_packs_all: every loadable, not kept MIDX pack, if two or more.
IncludedAll(m) ==
    { p \in Range(m.names) : p \in packs /\ (PackKeptObjects \/ p \notin KeptPacks) }

\* fill_included_packs_batch: packs in mtime order (ties in any order, QSORT
\* is not stable), each taken while the running total is below the batch
\* size and its expected size (pack size scaled by the share of its objects
\* the MIDX still takes from it; one unit per object) is below it too.
IncludedBatch(m, batch, order) ==
    LET refd(p) == Cardinality({o \in Indexed(m) : MidxPackOf(m, o) = p})
        RECURSIVE Take(_, _, _)
        Take(k, total, acc) ==
            IF k > Len(order) \/ total >= batch THEN acc
            ELSE LET p == order[k] IN
                 IF \/ p \notin packs
                    \/ ~PackKeptObjects /\ p \in KeptPacks
                    \/ refd(p) >= batch
                 THEN Take(k + 1, total, acc)
                 ELSE Take(k + 1, total + refd(p), acc \cup {p})
    IN Take(1, 0, {})

\* The pack_info orders QSORT(compare_by_mtime) may produce; a pack that
\* could not be loaded keeps mtime 0.
MtimeOrders(m) ==
    LET mt(p) == IF p \in packs THEN mtime[p] ELSE 0
    IN { s \in Orderings(Range(m.names)) :
            \A a, b \in DOMAIN s : a < b => mt(s[a]) <= mt(s[b]) }

\* midx_repack(batch_size): choose packs, have pack-objects write one pack
\* with every object the MIDX takes from them, then write_midx_internal(m).
MidxRepack(batch) ==
    /\ pending = NONE
    /\ midx # NONE
    /\ \E order \in MtimeOrders(midx) :
        LET include == IF batch = 0 THEN IncludedAll(midx)
                       ELSE IncludedBatch(midx, batch, order)
            newPack == { o \in Indexed(midx) : MidxPackOf(midx, o) \in include }
            packs2  == IF newPack = {} THEN packs ELSE packs \cup {newPack}
            mtime2  == IF newPack = {} \/ newPack \in packs THEN mtime
                       ELSE [mtime EXCEPT ![newPack] = now]
        IN
        /\ Cardinality(include) >= 2
        /\ Cardinality(packs2) <= MaxPacks
        /\ packs' = packs2
        /\ mtime' = mtime2
        /\ \E newOrder \in Orderings(packs2 \ Range(midx.names)) :
              LET res == WriteMidxInternal(midx, {}, NONE, newOrder) IN
              /\ midx' = Installed(res)
              /\ bugged' = (bugged \/ res.status = "bug")
    /\ UNCHANGED <<now, pending, everStored>>

\* clear_midx_file: remove the MIDX (as "git repack -a -d" does).
ClearMidxFile ==
    /\ pending = NONE
    /\ midx # NONE
    /\ midx' = NONE
    /\ UNCHANGED <<packs, mtime, now, pending, everStored, bugged>>

-----------------------------------------------------------------------------
Init ==
    /\ \E initial \in SUBSET Incoming :
          /\ initial # {}
          /\ Cardinality(initial) <= MaxPacks - 1
          /\ packs = initial
          /\ everStored = UNION initial
          /\ \E t \in [initial -> 0..(MaxTime \div 2)] :
                mtime = [p \in Packs |-> IF p \in initial THEN t[p] ELSE 0]
    /\ now = MaxTime \div 2
    /\ midx = NONE
    /\ pending = NONE
    /\ bugged = FALSE

Next ==
    \/ \E p \in Incoming : AddPack(p)
    \/ Tick
    \/ \E pref \in packs \cup {NONE} : WriteMidxFile(pref)
    \/ ExpireMidxPacksUnlink
    \/ ExpireMidxPacksWrite
    \/ CrashAfterUnlink
    \/ \E b \in BatchSizes : MidxRepack(b)
    \/ ClearMidxFile

Spec == Init /\ [][Next]_vars

-----------------------------------------------------------------------------
(* Properties                                                              *)

TypeOK ==
    /\ packs \subseteq Packs
    /\ mtime \in [Packs -> 0..MaxTime]
    /\ now \in 0..MaxTime
    /\ midx = NONE \/
         /\ midx.names \in Seq(Packs)
         /\ DOMAIN midx.offsets.ooff = 1..Cardinality(Indexed(midx))
         /\ \A o \in Indexed(midx) : o \in Objects /\ midx.ids[o] \in DOMAIN midx.names
    /\ pending = NONE \/ pending.drops \subseteq Packs
    /\ everStored \subseteq Objects
    /\ bugged \in BOOLEAN

\* What a reader of the MIDX relies on (fill_midx_entry, verify_midx_file):
\* the pack names are strictly sorted; every indexed object resolves, via
\* its pack-int-id, to a pack that is on disk, holds the object, and holds
\* it at the recorded offset; and every object of a listed pack that is on
\* disk is indexed.  It must survive incremental writes (old entries carried
\* over through pack_perm), drop lists, repacks and a killed expire.
MidxMatchesPacks ==
    midx # NONE =>
        /\ \A a, b \in DOMAIN midx.names :
              a < b => NameKey(midx.names[a]) < NameKey(midx.names[b])
        /\ \A o \in Indexed(midx) :
              /\ midx.ids[o] \in DOMAIN midx.names
              /\ LET p == MidxPackOf(midx, o)
                 IN p \in packs /\ o \in p /\ MidxOffsetOf(midx, o) = PackOffset(p, o)
        /\ \A k \in DOMAIN midx.names :
              midx.names[k] \in packs => midx.names[k] \subseteq Indexed(midx)

\* No object is ever lost: whatever has been written to a pack is still in
\* some pack on disk, across any sequence of writes, repacks, expires
\* (which unlink packs the MIDX takes nothing from) and killed expires.
NoObjectLost ==
    \A o \in everStored : \E p \in packs : o \in p

\* No write of the MIDX dies in a BUG(): across fetches, writes, expires
\* (whose drop list was computed from the MIDX they loaded, possibly before
\* a kill), repacks and removals, write_midx_internal never finds an entry
\* in a dropped pack (write_midx_object_offsets' PACK_EXPIRED check), and
\* its large-offset count always matches what write_midx_object_offsets
\* and write_midx_large_offsets write.
NoWriteBug == ~bugged

\* A rewrite of an existing MIDX never forgets an object and moves an
\* object only to a pack the previous MIDX did not list (existing entries
\* are carried with mtime 0 and their packs are not rescanned).  This is
\* what makes "repack, then expire the packs left with no objects" safe.
ExistingEntriesStable ==
    [][ midx # NONE /\ midx' # NONE =>
          \A o \in Indexed(midx) :
              /\ o \in Indexed(midx')
              /\ \/ MidxPackOf(midx', o) = MidxPackOf(midx, o)
                 \/ MidxPackOf(midx', o) \notin Range(midx.names) ]_vars

=============================================================================
