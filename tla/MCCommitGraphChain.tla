------------------------- MODULE MCCommitGraphChain -------------------------
(* A small history for CommitGraphChain: two roots of history merge.  *)
EXTENDS CommitGraphChain, TLC

\* 1 <- 2, 1 <- 3, {2, 3} <- 4 (a merge), 4 <- 5.
MCParents(c) ==
    CASE c = 1 -> {}
      [] c = 2 -> {1}
      [] c = 3 -> {1}
      [] c = 4 -> {2, 3}
      [] OTHER -> {c - 1}

\* Writers are interchangeable processes.
WriterSymmetry == Permutations(Writers)
=============================================================================
