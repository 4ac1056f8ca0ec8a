-------------------------- MODULE CommitGraphChain --------------------------
(***************************************************************************)
(* Incremental ("split") commit-graph writes of commit-graph.c and the      *)
(* readers of the chain they publish.                                      *)
(*                                                                         *)
(* A layer file graph-<hash>.graph holds a set of commits and names its    *)
(* base layers; the chain file commit-graph-chain lists the layers base    *)
(* first.  A write (write_commit_graph with --split) loads the chain       *)
(* (prepare_commit_graph), gathers the commits not yet in it               *)
(* (close_reachable, copy_oids_to_commits), decides how many top layers to *)
(* merge (split_graph_merge_strategy, merge_commit_graphs), and only then  *)
(* write_commit_graph_file takes the chain lock, renames the new layer in  *)
(* and commits the new chain.  After the lock is gone, mark_commit_graphs  *)
(* touches the merged-away layers and expire_commit_graphs deletes every   *)
(* .graph file older than the expire time that the new chain does not      *)
(* name.  A layer is identified by a model id: its hash is a function of   *)
(* its content, and ids are never reused.                                  *)
(***************************************************************************)
EXTENDS Naturals, Sequences, FiniteSets

CONSTANTS
    Writers,        \* processes that may run "git commit-graph write --split"
    MaxCommits,     \* commits are 1..MaxCommits, made in this order
    InitCommits,    \* commits present at the start
    Parents(_),     \* commit -> its parents, all smaller than it
    SizeMult,       \* --size-multiple (default 2)
    MaxNewCommits,  \* --max-commits (0: no limit)
    SplitFlags,     \* the --split modes writers may use
    MaxLayers,      \* bound on the layer files ever written
    MaxTime,        \* bound on the clock
    Grace,          \* --expire-time as an age; 0 is the default time(NULL)
    WriteCanFail,   \* whether the rename of the new layer may fail
    NONE

Commits == 1..MaxCommits
LayerIds == 1..MaxLayers
Flags == {"unspecified", "merge_prohibited", "replace"}

ASSUME SplitFlags \subseteq Flags
ASSUME \A c \in Commits : Parents(c) \subseteq 1..(c - 1)

VARIABLES
    repo,      \* the repository holds commits 1..repo
    layers,    \* layer id -> [commits, base]: the content of every layer written
    files,     \* ids of the .graph files in info/commit-graphs
    fmtime,    \* id -> mtime of its file
    chain,     \* commit-graph-chain: layer ids, base first (<< >>: no file)
    lock,      \* holder of commit-graph-chain.lock, or NONE
    now,       \* time(NULL)
    wpc,       \* writer -> where it is in write_commit_graph
    wview,     \* writer -> the chain it loaded (commit_graph_filenames_before)
    wkeep,     \* writer -> layers kept below the new one (num_commit_graphs_after - 1)
    wcommits,  \* writer -> commits of its new layer
    wnew,      \* writer -> id of its new layer
    rpc,       \* the reader: idle, loading or done
    rsnap,     \* the chain file the reader opened
    rn         \* layers the reader has loaded

vars == <<repo, layers, files, fmtime, chain, lock, now,
          wpc, wview, wkeep, wcommits, wnew, rpc, rsnap, rn>>

Range(s) == { s[k] : k \in DOMAIN s }

\* The commits held by the layers of a chain.
LayerCommitsOf(s) == UNION { layers[s[k]].commits : k \in DOMAIN s }

\* add_graph_to_chain and load_commit_graph_one: the k-th line of chain s
\* loads when its file is there and it names the lines below it as bases.
Loadable(s, k) ==
    /\ s[k] \in files
    /\ layers[s[k]].base = SubSeq(s, 1, k - 1)

\* load_commit_graph_chain: the number of lines loaded before the first one
\* that does not load (the loop breaks and returns the chain so far).
PrefixLen(s) ==
    CHOOSE n \in 0..Len(s) :
        /\ \A k \in 1..n : Loadable(s, k)
        /\ n < Len(s) => ~Loadable(s, n + 1)

\* prepare_commit_graph: what a process loads from the chain file.
LoadedChain(s) == SubSeq(s, 1, PrefixLen(s))

-----------------------------------------------------------------------------
(* Gathering the commits of a write                                        *)

\* close_reachable in split mode: from the given commits, every commit not
\* in the loaded graph (or every commit, under --split=replace) adds its
\* parents; copy_oids_to_commits then drops the ones already in the graph.
\* Faulty variant: the given commits without their missing parents.
ExpandNoClosure(S, inGraph) == S

RECURSIVE Expand(_, _)
Expand(S, inGraph) ==
    LET T == S \cup (UNION { Parents(c) : c \in S } \ inGraph)
    IN IF T = S THEN S ELSE Expand(T, inGraph)

NewCommits(view, tips, flag) ==
    IF flag = "replace" THEN Expand(tips, {})
    ELSE Expand(tips \ LayerCommitsOf(view), LayerCommitsOf(view))

\* The input commits: --reachable (every commit is reachable from a ref)
\* or one commit given with --stdin-commits.
Inputs == { 1..repo } \cup { {c} : c \in 1..repo }

\* Faulty variant: merge only while strictly smaller than size_mult times.
RECURSIVE MergeKeepStrict(_, _, _)
MergeKeepStrict(view, num, k) ==
    IF /\ k > 0
       /\ \/ Cardinality(layers[view[k]].commits) < SizeMult * num
          \/ MaxNewCommits > 0 /\ num > MaxNewCommits
    THEN MergeKeepStrict(view, num + Cardinality(layers[view[k]].commits), k - 1)
    ELSE k

\* The while loop of split_graph_merge_strategy, from the top layer down:
\* merge layer k while it is at most size_mult times the commits gathered
\* so far, or while those exceed max_commits.  Returns the layers kept.
RECURSIVE MergeKeep(_, _, _)
MergeKeep(view, num, k) ==
    IF /\ k > 0
       /\ \/ Cardinality(layers[view[k]].commits) <= SizeMult * num
          \/ MaxNewCommits > 0 /\ num > MaxNewCommits
    THEN MergeKeep(view, num + Cardinality(layers[view[k]].commits), k - 1)
    ELSE k

\* split_graph_merge_strategy: num_commit_graphs_after - 1.
Keep(view, num, flag) ==
    CASE flag = "replace"          -> 0
      [] flag = "merge_prohibited" -> Len(view)
      [] OTHER                     -> MergeKeep(view, num, Len(view))

\* Faulty variant: the merged layers' commits are not carried over.
LayerContentNoMerge(view, keep, newC) == newC

\* merge_commit_graphs and sort_and_scan_merged_commits: the new layer holds
\* the new commits and those of every merged layer, once each.
LayerContent(view, keep, newC) == newC \cup LayerCommitsOf(SubSeq(view, keep + 1, Len(view)))

\* The chain the writer will commit: the kept layers, then its own.
After(w) == SubSeq(wview[w], 1, wkeep[w]) \o <<wnew[w]>>

-----------------------------------------------------------------------------
Init ==
    /\ repo = InitCommits
    /\ layers = << >>
    /\ files = {}
    /\ fmtime = [i \in LayerIds |-> 0]
    /\ chain = << >>
    /\ lock = NONE
    /\ now = 0
    /\ wpc = [w \in Writers |-> "idle"]
    /\ wview = [w \in Writers |-> << >>]
    /\ wkeep = [w \in Writers |-> 0]
    /\ wcommits = [w \in Writers |-> {}]
    /\ wnew = [w \in Writers |-> NONE]
    /\ rpc = "idle"
    /\ rsnap = << >>
    /\ rn = 0

\* Another git process makes a commit.
AddCommit ==
    /\ repo < MaxCommits
    /\ repo' = repo + 1
    /\ UNCHANGED <<layers, files, fmtime, chain, lock, now, wpc, wview, wkeep,
                   wcommits, wnew, rpc, rsnap, rn>>

Tick ==
    /\ now < MaxTime
    /\ now' = now + 1
    /\ UNCHANGED <<repo, layers, files, fmtime, chain, lock, wpc, wview, wkeep,
                   wcommits, wnew, rpc, rsnap, rn>>

\* write_commit_graph up to write_commit_graph_file: load the chain, gather
\* the commits, choose the layers to merge.  Nothing new to write (and no
\* replace) is "goto cleanup": no step.  No lock is held yet.
PrepareWrite(w) ==
    /\ wpc[w] = "idle"
    /\ \E flag \in SplitFlags :
       \E tips \in IF flag = "replace" THEN {1..repo} ELSE Inputs :
          LET view == LoadedChain(chain)
              newC == NewCommits(view, tips, flag)
              keep == Keep(view, Cardinality(newC), flag)
          IN /\ newC # {} \/ flag = "replace"
             /\ wview' = [wview EXCEPT ![w] = view]
             /\ wkeep' = [wkeep EXCEPT ![w] = keep]
             /\ wcommits' = [wcommits EXCEPT ![w] =
                               IF flag = "replace" THEN newC
                               ELSE LayerContent(view, keep, newC)]
    /\ wpc' = [wpc EXCEPT ![w] = "prepared"]
    /\ UNCHANGED <<repo, layers, files, fmtime, chain, lock, now, wnew, rpc, rsnap, rn>>

\* The write_commit_graph process ends: its context is gone.
Exit(w) ==
    /\ wpc' = [wpc EXCEPT ![w] = "idle"]
    /\ wview' = [wview EXCEPT ![w] = << >>]
    /\ wkeep' = [wkeep EXCEPT ![w] = 0]
    /\ wcommits' = [wcommits EXCEPT ![w] = {}]
    /\ wnew' = [wnew EXCEPT ![w] = NONE]

\* hold_lock_file_for_update_mode on the chain file.
TakeLock(w) ==
    /\ wpc[w] = "prepared"
    /\ lock = NONE
    /\ lock' = w
    /\ wpc' = [wpc EXCEPT ![w] = "locked"]
    /\ UNCHANGED <<repo, layers, files, fmtime, chain, now, wview, wkeep,
                   wcommits, wnew, rpc, rsnap, rn>>

\* LOCK_DIE_ON_ERROR: the lock is held, the process dies.
LockDie(w) ==
    /\ wpc[w] = "prepared"
    /\ lock # NONE
    /\ Exit(w)
    /\ UNCHANGED <<repo, layers, files, fmtime, chain, lock, now, rpc, rsnap, rn>>

\* The new layer this writer's content hash names.
NewLayer(w) == [commits |-> wcommits[w], base |-> SubSeq(wview[w], 1, wkeep[w])]

\* write_commit_graph_file after the lock: the layer is written to
\* tmp_graph_XXXXXX and renamed to graph-<hash>.graph (its mtime is now);
\* the chain lines are written to the lock file.
RenameLayer(w) ==
    /\ wpc[w] = "locked"
    /\ Len(layers) < MaxLayers
    /\ layers' = Append(layers, NewLayer(w))
    /\ files' = files \cup {Len(layers) + 1}
    /\ fmtime' = [fmtime EXCEPT ![Len(layers) + 1] = now]
    /\ wnew' = [wnew EXCEPT ![w] = Len(layers) + 1]
    /\ wpc' = [wpc EXCEPT ![w] = "renamed"]
    /\ UNCHANGED <<repo, chain, lock, now, wview, wkeep, wcommits, rpc, rsnap, rn>>

\* The rename of the temporary file fails: write_commit_graph_file returns
\* -1 with commit_graph_filenames_after naming the new layer, which is not
\* there, and with the lock still held until the process exits.
RenameLayerFails(w) ==
    /\ WriteCanFail
    /\ wpc[w] = "locked"
    /\ Len(layers) < MaxLayers
    /\ layers' = Append(layers, NewLayer(w))
    /\ wnew' = [wnew EXCEPT ![w] = Len(layers) + 1]
    /\ wpc' = [wpc EXCEPT ![w] = "failed"]
    /\ UNCHANGED <<repo, files, fmtime, chain, lock, now, wview, wkeep, wcommits,
                   rpc, rsnap, rn>>

\* commit_lock_file: the new chain replaces the old one, the lock is gone.
CommitChain(w) ==
    /\ wpc[w] = "renamed"
    /\ chain' = After(w)
    /\ lock' = NONE
    /\ wpc' = [wpc EXCEPT ![w] = "committed"]
    /\ UNCHANGED <<repo, layers, files, fmtime, now, wview, wkeep, wcommits, wnew,
                   rpc, rsnap, rn>>

\* The layers from num_commit_graphs_after - 1 to the top of the view:
\* the ones merged into the new layer.
MergedAway(w) == { wview[w][k] : k \in (wkeep[w] + 1)..Len(wview[w]) }

\* Faulty variant: the expire loop stops before the last name of
\* commit_graph_filenames_after, the new layer.
MarkAndExpireSkipNew(w) ==
    /\ wpc[w] \in {"committed", "failed"}
    /\ LET marked == [i \in LayerIds |->
                        IF i \in MergedAway(w) \cap files THEN now ELSE fmtime[i]]
           kept == { f \in files : marked[f] + Grace > now \/ f \in Range(SubSeq(wview[w], 1, wkeep[w])) }
       IN /\ files' = kept
          /\ fmtime' = [i \in LayerIds |-> IF i \in kept THEN marked[i] ELSE 0]
    /\ lock' = IF wpc[w] = "failed" THEN NONE ELSE lock
    /\ Exit(w)
    /\ UNCHANGED <<repo, layers, chain, now, rpc, rsnap, rn>>

\* Back in write_commit_graph, whatever write_commit_graph_file returned:
\* mark_commit_graphs sets the mtime of the merged-away layers to now, then
\* expire_commit_graphs unlinks every .graph file not newer than the expire
\* time that commit_graph_filenames_after does not name.  A failed write
\* then exits, and the lock file goes with it.
MarkAndExpire(w) ==
    /\ wpc[w] \in {"committed", "failed"}
    /\ LET marked == [i \in LayerIds |->
                        IF i \in MergedAway(w) \cap files THEN now ELSE fmtime[i]]
           kept == { f \in files : marked[f] + Grace > now \/ f \in Range(After(w)) }
       IN /\ files' = kept
          \* a deleted file has no mtime
          /\ fmtime' = [i \in LayerIds |-> IF i \in kept THEN marked[i] ELSE 0]
    /\ lock' = IF wpc[w] = "failed" THEN NONE ELSE lock
    /\ Exit(w)
    /\ UNCHANGED <<repo, layers, chain, now, rpc, rsnap, rn>>

\* The writer is killed before its expire: the lock file is removed by the
\* tempfile cleanup, a renamed layer stays as an orphan.
Crash(w) ==
    /\ wpc[w] \in {"prepared", "locked", "renamed", "committed"}
    /\ lock' = IF lock = w THEN NONE ELSE lock
    /\ Exit(w)
    /\ UNCHANGED <<repo, layers, files, fmtime, chain, now, rpc, rsnap, rn>>

-----------------------------------------------------------------------------
(* A reader process: load_commit_graph_chain, once per process            *)

\* Faulty variant: the count of loaded layers is not reset.
ReaderOpenNoReset ==
    /\ rpc \in {"idle", "done"}
    /\ chain # << >>
    /\ rpc' = "loading"
    /\ rsnap' = chain
    /\ UNCHANGED <<repo, layers, files, fmtime, chain, lock, now, wpc, wview, wkeep,
                   wcommits, wnew, rn>>

\* fopen of the chain file: the reader reads the lines of the file it
\* opened, whatever is committed later.
ReaderOpen ==
    /\ rpc \in {"idle", "done"}
    /\ chain # << >>
    /\ rpc' = "loading"
    /\ rsnap' = chain
    /\ rn' = 0
    /\ UNCHANGED <<repo, layers, files, fmtime, chain, lock, now, wpc, wview, wkeep,
                   wcommits, wnew>>

\* load_commit_graph_one on the next line, and add_graph_to_chain.
ReaderLoadLayer ==
    /\ rpc = "loading"
    /\ rn < Len(rsnap)
    /\ Loadable(rsnap, rn + 1)
    /\ rn' = rn + 1
    /\ UNCHANGED <<repo, layers, files, fmtime, chain, lock, now, wpc, wview, wkeep,
                   wcommits, wnew, rpc, rsnap>>

\* End of the file, or "unable to find all commit-graph files": the loop
\* breaks and the process uses the layers loaded so far.
ReaderStop ==
    /\ rpc = "loading"
    /\ ~(rn < Len(rsnap) /\ Loadable(rsnap, rn + 1))
    /\ rpc' = "done"
    /\ UNCHANGED <<repo, layers, files, fmtime, chain, lock, now, wpc, wview, wkeep,
                   wcommits, wnew, rsnap, rn>>

Next ==
    \/ AddCommit
    \/ Tick
    \/ \E w \in Writers :
          \/ PrepareWrite(w)
          \/ TakeLock(w)
          \/ LockDie(w)
          \/ RenameLayer(w)
          \/ RenameLayerFails(w)
          \/ CommitChain(w)
          \/ MarkAndExpire(w)
          \/ Crash(w)
    \/ ReaderOpen
    \/ ReaderLoadLayer
    \/ ReaderStop

\* Every step is started by a user or by "git maintenance": no fairness.
Spec == Init /\ [][Next]_vars

-----------------------------------------------------------------------------
(* Properties                                                              *)

TypeOK ==
    /\ repo \in InitCommits..MaxCommits
    /\ layers \in Seq([commits : SUBSET Commits, base : Seq(LayerIds)])
    /\ Len(layers) <= MaxLayers
    /\ files \subseteq 1..Len(layers)
    /\ fmtime \in [LayerIds -> 0..MaxTime]
    /\ chain \in Seq(1..Len(layers))
    /\ lock \in Writers \cup {NONE}
    /\ wpc \in [Writers -> {"idle", "prepared", "locked", "renamed", "failed", "committed"}]
    /\ rpc \in {"idle", "loading", "done"}
    /\ rn \in 0..Len(rsnap)

\* The commits a process finds when it loads the chain now.
IndexedCommits == LayerCommitsOf(LoadedChain(chain))

\* Every layer the chain file names is on disk: expire_commit_graphs never
\* deletes a layer that the committed chain still lists, so a reader always
\* loads the whole chain rather than stopping at a missing file.
ChainLayersExist == \A k \in DOMAIN chain : chain[k] \in files

\* The committed chain is well formed: each layer names exactly the layers
\* below it as its bases (add_graph_to_chain accepts it), holds no commit
\* a lower layer holds, and every parent of its commits is in it or below
\* it -- through stale views, merges, --split=replace, kills and failures.
ChainWellFormed ==
    \A k \in DOMAIN chain :
        LET below == LayerCommitsOf(SubSeq(chain, 1, k - 1))
            mine  == layers[chain[k]].commits
        IN /\ layers[chain[k]].base = SubSeq(chain, 1, k - 1)
           /\ mine \cap below = {}
           /\ \A c \in mine : Parents(c) \subseteq mine \cup below

\* The merge strategy keeps the chain geometric: each layer of the chain
\* holds more than SizeMult times the commits of the layer above it, so a
\* chain over n commits has O(log n) layers.
GeometricChain ==
    \A k \in 1..(Len(chain) - 1) :
        Cardinality(layers[chain[k]].commits)
            > SizeMult * Cardinality(layers[chain[k + 1]].commits)

\* The chain refines the abstract commit-graph: what a process loads grows
\* over time, is closed under parents and holds only existing commits.
Abstract == INSTANCE CommitGraphIndexed WITH indexed <- IndexedCommits
IndexedRefinement == Abstract!Spec

=============================================================================
