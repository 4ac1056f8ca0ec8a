------------------------- MODULE MCCommitGraphFile --------------------------
(* Scaled widths: a 2-byte header, 3-byte table entries, a 2-byte fanout, *)
(* 1-byte hashes and 3-byte commit records.  As with the real widths (a   *)
(* table of more than 90 chunks), two table entries are larger than the  *)
(* fanout and checksum slack that GRAPH_MIN_SIZE leaves.                 *)
EXTENDS CommitGraphFile
=============================================================================
