--------------------------- MODULE PromisorRemote ---------------------------
(***************************************************************************)
(* promisor-remote.c: the process-wide list of promisor remotes and the   *)
(* lazy fetch of missing objects from them.                               *)
(*                                                                         *)
(* The list is a singly linked list with a head pointer (promisors) and a *)
(* pointer to the last "next" field (promisors_tail).  It is built lazily  *)
(* from the configuration (promisor_remote_init), with the remote named by *)
(* extensions.partialClone moved to or appended at the tail, and rebuilt   *)
(* by promisor_remote_reinit after the configuration changes.  The heap is *)
(* modelled as nodes with a name, a next pointer and a filter flag, so a   *)
(* lost node, a cycle or a stale tail pointer is a state TLC can reach.    *)
(*                                                                         *)
(* promisor_remote_get_direct tries the remotes in list order, each with   *)
(* the objects still missing, until one fetch succeeds or none is left.   *)
(***************************************************************************)
EXTENDS Integers, Sequences, FiniteSets

CONSTANTS
    Names,          \* remote names
    SlashNames,     \* the names that begin with '/'
    Nodes,          \* heap cells a struct promisor_remote may occupy
    Configs,        \* the configurations the user may write (sequences of entries)
    PartialClones,  \* possible values of extensions.partialClone (NONE: unset)
    Objects,        \* object ids
    Has(_),         \* remote name -> the objects that remote serves
    FetchCanFail,   \* whether a fetch may fail although the remote has the objects
    NULL, HEADPTR, NONE

ASSUME SlashNames \subseteq Names

\* remote.<name>.promisor = true / false, remote.<name>.partialclonefilter.
Keys == {"promisor", "nopromisor", "filter"}
Entry == [name : Names, key : Keys]

VARIABLES
    config,       \* the configuration file
    loaded,       \* the configuration git_config read for the current list
    partialClone, \* repository_format_partial_clone
    initialized,  \* the "initialized" flag of promisor_remote_init
    cfgPos,       \* next configuration entry git_config will hand to the callback
    alloc,        \* allocated nodes
    name,         \* node -> its remote name
    next,         \* node -> next node or NULL
    filter,       \* node -> whether partial_clone_filter is set
    head,         \* promisors
    tail,         \* promisors_tail: HEADPTR (&promisors) or a node (&node->next)
    have,         \* objects present in the local object store
    gd,           \* promisor_remote_get_direct: idle, loop or done
    requested,    \* its oids
    remaining,    \* remaining_oids
    cur,          \* r, the remote being tried
    res           \* its result

vars == <<config, loaded, partialClone, initialized, cfgPos, alloc, name, next, filter,
          head, tail, have, gd, requested, remaining, cur, res>>

heapVars == <<alloc, name, next, filter, head, tail>>

\* The heap as one value, so that the operations below compose.
Heap == [alloc |-> alloc, name |-> name, next |-> next, filter |-> filter,
         head |-> head, tail |-> tail]

\* The nodes met walking from the head, at most Cardinality(Nodes) + 1 of
\* them (more means a cycle).
RECURSIVE Walk(_, _, _)
Walk(h, p, k) == IF p = NULL \/ k = 0 THEN << >> ELSE <<p>> \o Walk(h, h.next[p], k - 1)

ListOf(h) == Walk(h, h.head, Cardinality(Nodes) + 1)

Range(s) == { s[k] : k \in DOMAIN s }

\* promisor_remote_lookup: the first node of the list with that name, or NULL.
Lookup(h, nm) ==
    LET l == ListOf(h)
        ks == { k \in DOMAIN l : h.name[l[k]] = nm }
    IN IF ks = {} THEN NULL ELSE l[CHOOSE k \in ks : \A j \in ks : k <= j]

\* Its "previous" out-parameter: the node before it in the list, or NULL.
Previous(h, r) ==
    LET l == ListOf(h)
        k == CHOOSE i \in DOMAIN l : l[i] = r
    IN IF k = 1 THEN NULL ELSE l[k - 1]

\* "*promisors_tail = r; promisors_tail = &r->next".
LinkAtTail(h, r) ==
    IF h.tail = HEADPTR THEN [h EXCEPT !.head = r, !.tail = r]
    ELSE [h EXCEPT !.next[h.tail] = r, !.tail = r]

\* Faulty variant: the node is not zeroed (xmalloc instead of FLEX_ALLOC).
NewNoZero(h, nm) ==
    IF nm \in SlashNames THEN [heap |-> h, ret |-> NULL]
    ELSE LET n == CHOOSE x \in Nodes \ h.alloc : TRUE
             h1 == [h EXCEPT !.alloc = @ \cup {n}, !.name[n] = nm]
         IN [heap |-> LinkAtTail(h1, n), ret |-> n]

\* promisor_remote_new: a name beginning with '/' is refused (NULL);
\* otherwise a zeroed node is allocated and linked at the tail.  The result
\* is the heap with the new node in field "ret".
New(h, nm) ==
    IF nm \in SlashNames THEN [heap |-> h, ret |-> NULL]
    ELSE LET n == CHOOSE x \in Nodes \ h.alloc : TRUE
             h1 == [h EXCEPT !.alloc = @ \cup {n}, !.name[n] = nm,
                             !.next[n] = NULL, !.filter[n] = FALSE]
         IN [heap |-> LinkAtTail(h1, n), ret |-> n]

\* Faulty variant: no early return when r is already last.
MoveToTailAlways(h, r, prev) ==
    LET h1 == IF prev # NULL THEN [h EXCEPT !.next[prev] = h.next[r]]
              ELSE [h EXCEPT !.head = IF h.next[r] # NULL THEN h.next[r] ELSE r]
    IN LinkAtTail([h1 EXCEPT !.next[r] = NULL], r)

\* promisor_remote_move_to_tail.
MoveToTail(h, r, prev) ==
    IF h.next[r] = NULL THEN h
    ELSE LET h1 == IF prev # NULL THEN [h EXCEPT !.next[prev] = h.next[r]]
                   ELSE [h EXCEPT !.head = IF h.next[r] # NULL THEN h.next[r] ELSE r]
         IN LinkAtTail([h1 EXCEPT !.next[r] = NULL], r)

\* promisor_remote_config, for one configuration entry.
PromisorRemoteConfig(h, e) ==
    CASE e.key = "nopromisor" -> h
      [] e.key = "promisor" ->
            IF Lookup(h, e.name) = NULL THEN New(h, e.name).heap ELSE h
      [] e.key = "filter" ->
            LET found == Lookup(h, e.name)
                made == IF found = NULL THEN New(h, e.name)
                        ELSE [heap |-> h, ret |-> found]
            IN IF made.ret = NULL THEN made.heap
               ELSE [made.heap EXCEPT !.filter[made.ret] = TRUE]

\* The tail of promisor_remote_init: the extensions.partialClone remote is
\* moved to the end of the list, or added there.
InitPartialClone(h, pc) ==
    IF pc = NONE THEN h
    ELSE LET o == Lookup(h, pc)
         IN IF o # NULL THEN MoveToTail(h, o, Previous(h, o))
            ELSE New(h, pc).heap

\* Faulty variant: promisors_tail is not reset to &promisors.
ClearKeepTail(h) ==
    [h EXCEPT !.alloc = @ \ Range(ListOf(h)), !.head = NULL]

\* promisor_remote_clear: frees the nodes of the list and empties it.
Clear(h) ==
    [h EXCEPT !.alloc = @ \ Range(ListOf(h)), !.head = NULL, !.tail = HEADPTR]

SetHeap(h) ==
    /\ alloc' = h.alloc
    /\ name' = h.name
    /\ next' = h.next
    /\ filter' = h.filter
    /\ head' = h.head
    /\ tail' = h.tail

-----------------------------------------------------------------------------
Init ==
    /\ config \in Configs
    /\ loaded = << >>
    /\ partialClone \in PartialClones
    /\ initialized = FALSE
    /\ cfgPos = 0
    /\ alloc = {}
    /\ name = [n \in Nodes |-> NONE]
    /\ next = [n \in Nodes |-> NULL]
    /\ filter = [n \in Nodes |-> FALSE]
    /\ head = NULL
    /\ tail = HEADPTR
    /\ have = {}
    /\ gd = "idle"
    /\ requested = {}
    /\ remaining = {}
    /\ cur = NULL
    /\ res = 0

\* The list is built and no get_direct is running.
Ready == initialized /\ cfgPos = 0

\* The user (or "git fetch", "git clone") edits the configuration.
EditConfig ==
    /\ cfgPos = 0
    /\ config' \in Configs
    /\ UNCHANGED <<loaded, partialClone, initialized, cfgPos, heapVars, have, gd, requested,
                   remaining, cur, res>>

\* promisor_remote_init on its first call (from promisor_remote_find,
\* has_promisor_remote or promisor_remote_get_direct): set the flag, then
\* git_config() hands the entries to the callback one by one.
PromisorRemoteInit ==
    /\ ~initialized
    /\ initialized' = TRUE
    /\ cfgPos' = 1
    /\ loaded' = config
    /\ UNCHANGED <<config, partialClone, heapVars, have, gd, requested, remaining, cur, res>>

\* One call of promisor_remote_config.
ConfigEntry ==
    /\ cfgPos \in 1..Len(loaded)
    /\ SetHeap(PromisorRemoteConfig(Heap, loaded[cfgPos]))
    /\ cfgPos' = cfgPos + 1
    /\ UNCHANGED <<config, loaded, partialClone, initialized, have, gd, requested, remaining, cur, res>>

\* The end of promisor_remote_init.
PartialCloneEntry ==
    /\ cfgPos = Len(loaded) + 1
    /\ SetHeap(InitPartialClone(Heap, partialClone))
    /\ cfgPos' = 0
    /\ UNCHANGED <<config, loaded, partialClone, initialized, have, gd, requested, remaining, cur, res>>

\* promisor_remote_reinit: clear, reset the flag, and init again.
PromisorRemoteReinit ==
    /\ Ready
    /\ gd = "idle"
    /\ SetHeap(Clear(Heap))
    /\ cfgPos' = 1
    /\ loaded' = config
    /\ UNCHANGED <<config, partialClone, initialized, have, gd, requested, remaining, cur, res>>

-----------------------------------------------------------------------------
(* promisor_remote_get_direct                                              *)

\* A lazy fetch of missing objects starts with the first remote.
GetDirectStart ==
    /\ Ready
    /\ gd = "idle"
    /\ \E oids \in SUBSET (Objects \ have) \ {{}} :
          /\ requested' = oids
          /\ remaining' = oids
    /\ cur' = head
    /\ gd' = "loop"
    /\ UNCHANGED <<config, loaded, partialClone, initialized, cfgPos, heapVars, have, res>>

\* fetch_objects succeeds: the remote serves every remaining object.
FetchSucceeds ==
    /\ gd = "loop"
    /\ cur # NULL
    /\ remaining \subseteq Has(name[cur])
    /\ have' = have \cup remaining
    /\ res' = 0
    /\ gd' = "done"
    /\ UNCHANGED <<config, loaded, partialClone, initialized, cfgPos, heapVars, requested,
                   remaining, cur>>

\* Faulty variant: a failed fetch of several objects counts as success.
FetchFailsNoRecheck ==
    /\ gd = "loop"
    /\ cur # NULL
    /\ FetchCanFail \/ ~(remaining \subseteq Has(name[cur]))
    /\ IF Cardinality(remaining) = 1
       THEN /\ cur' = next[cur]
            /\ UNCHANGED <<res, gd>>
       ELSE /\ res' = 0
            /\ gd' = "done"
            /\ UNCHANGED cur
    /\ UNCHANGED <<config, loaded, partialClone, initialized, cfgPos, heapVars, have,
                   requested, remaining>>

\* fetch_objects fails: the remote lacks an object (nothing is fetched) or
\* the fetch broke off (some objects may have arrived).  A single object
\* goes on to the next remote; otherwise remove_fetched_oids keeps the ones
\* still missing, and if none is, the call succeeds.
FetchFails ==
    /\ gd = "loop"
    /\ cur # NULL
    /\ FetchCanFail \/ ~(remaining \subseteq Has(name[cur]))
    /\ \E got \in IF FetchCanFail THEN SUBSET (remaining \cap Has(name[cur])) ELSE {{}} :
          LET left == remaining \ (have \cup got)
          IN /\ have' = have \cup got
             /\ IF Cardinality(remaining) = 1
                THEN /\ cur' = next[cur]
                     /\ UNCHANGED <<remaining, res, gd>>
                ELSE IF left # {}
                THEN /\ remaining' = left
                     /\ cur' = next[cur]
                     /\ UNCHANGED <<res, gd>>
                ELSE /\ res' = 0
                     /\ gd' = "done"
                     /\ UNCHANGED <<remaining, cur>>
    /\ UNCHANGED <<config, loaded, partialClone, initialized, cfgPos, heapVars, requested>>

\* The loop runs out of remotes: -1.
NoRemoteLeft ==
    /\ gd = "loop"
    /\ cur = NULL
    /\ res' = -1
    /\ gd' = "done"
    /\ UNCHANGED <<config, loaded, partialClone, initialized, cfgPos, heapVars, have,
                   requested, remaining, cur>>

\* The call returns.
GetDirectReturn ==
    /\ gd = "done"
    /\ gd' = "idle"
    /\ requested' = {}
    /\ remaining' = {}
    /\ cur' = NULL
    /\ res' = 0
    /\ UNCHANGED <<config, loaded, partialClone, initialized, cfgPos, heapVars, have>>

Next ==
    \/ EditConfig
    \/ PromisorRemoteInit
    \/ ConfigEntry
    \/ PartialCloneEntry
    \/ PromisorRemoteReinit
    \/ GetDirectStart
    \/ FetchSucceeds
    \/ FetchFails
    \/ NoRemoteLeft
    \/ GetDirectReturn

Spec == Init /\ [][Next]_vars

-----------------------------------------------------------------------------
(* Properties                                                              *)

TypeOK ==
    /\ alloc \subseteq Nodes
    /\ name \in [Nodes -> Names \cup {NONE}]
    /\ next \in [Nodes -> Nodes \cup {NULL}]
    /\ head \in alloc \cup {NULL}
    /\ tail \in alloc \cup {HEADPTR}
    /\ have \subseteq Objects
    /\ gd \in {"idle", "loop", "done"}
    /\ res \in {0, -1}

List == ListOf(Heap)

\* The list is sound after every configuration callback, move, clear and
\* re-init: it ends in NULL without a cycle, holds exactly the allocated
\* nodes (none lost or leaked by promisor_remote_clear) once each, no two
\* of them share a name, and promisors_tail points at the last next field.
ListWellFormed ==
    /\ Len(List) <= Cardinality(Nodes)
    /\ (List = << >>) \/ next[List[Len(List)]] = NULL
    /\ Range(List) = alloc
    /\ \A i, j \in DOMAIN List : i # j => List[i] # List[j] /\ name[List[i]] # name[List[j]]
    /\ tail = IF List = << >> THEN HEADPTR ELSE List[Len(List)]

\* The order the configuration gives: names of "promisor = true" and
\* "partialclonefilter" entries, first mention first, without names that
\* begin with '/'.
RECURSIVE ConfigOrder(_, _)
ConfigOrder(cfg, acc) ==
    IF cfg = << >> THEN acc
    ELSE LET e == Head(cfg)
             take == /\ e.key \in {"promisor", "filter"}
                     /\ e.name \notin SlashNames
                     /\ e.name \notin Range(acc)
         IN ConfigOrder(Tail(cfg), IF take THEN Append(acc, e.name) ELSE acc)

\* Reference result of promisor_remote_init: the configured remotes in
\* order, with the extensions.partialClone remote moved to the end.
ExpectedRemotes ==
    LET base == ConfigOrder(loaded, << >>)
        others == SelectSeq(base, LAMBDA x : x # partialClone)
    IN IF partialClone = NONE \/ partialClone \in SlashNames THEN base
       ELSE others \o <<partialClone>>

\* Once initialised, the list names exactly the remotes of the
\* configuration in configuration order, the extensions.partialClone
\* remote last, so get_direct tries it after the others.
ListMatchesConfig ==
    Ready => [k \in DOMAIN List |-> name[List[k]]] = ExpectedRemotes

\* get_direct reports success only when every requested object is now in
\* the local object store, however fetches failed on the way.
GetDirectSound == (gd = "done" /\ res = 0) => requested \subseteq have

=============================================================================
