----------------------------- MODULE MCReadCache -----------------------------
(* Sizes are scaled so that SizeMod = 2 stands for 2^32: "A" and "B" have *)
(* size 1 (an edit between them keeps the size), and "C" has a size that  *)
(* is a multiple of 2^32, which sd_size stores as 0.  The git processes   *)
(* are interchangeable.                                                   *)
EXTENDS ReadCache, TLC

MCSize(c) == CASE c = "empty" -> 0 [] c \in {"A", "B"} -> 1 [] c = "C" -> 2

ProcSymmetry == Permutations(Procs)

=============================================================================
