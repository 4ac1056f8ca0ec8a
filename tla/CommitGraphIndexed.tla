------------------------- MODULE CommitGraphIndexed -------------------------
(***************************************************************************)
(* What the commit-graph promises its readers, without files, layers or   *)
(* locks: a set of indexed commits that is closed under parents (a commit  *)
(* is only indexed with its ancestry, so generation numbers and parent    *)
(* positions can be computed), that only contains commits of the           *)
(* repository, and that writes only ever extend.                           *)
(***************************************************************************)
EXTENDS Naturals

CONSTANTS
    MaxCommits,   \* commits are 1..MaxCommits, created in this order
    InitCommits,  \* commits present at the start
    Parents(_)    \* commit -> its parents, all smaller than it

VARIABLES
    repo,         \* the repository holds commits 1..repo
    indexed       \* the commits a reader finds in the commit-graph

Closed(S) == \A c \in S : Parents(c) \subseteq S

Init ==
    /\ repo = InitCommits
    /\ indexed = {}

\* A new commit is made in the repository.
AddCommit ==
    /\ repo < MaxCommits
    /\ repo' = repo + 1
    /\ UNCHANGED indexed

\* A write publishes a graph that indexes more commits of the repository.
Index ==
    /\ indexed' \in SUBSET (1..repo)
    /\ indexed \subseteq indexed'
    /\ Closed(indexed')
    /\ UNCHANGED repo

Next == AddCommit \/ Index

Spec == Init /\ [][Next]_<<repo, indexed>>

=============================================================================
