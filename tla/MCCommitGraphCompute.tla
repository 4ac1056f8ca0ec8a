------------------------ MODULE MCCommitGraphCompute ------------------------
(* Filters of one or two bytes, so that commits next to each other in the  *)
(* list have spans of different lengths.                                   *)
EXTENDS CommitGraphCompute

MCFilterLen(c) == 1 + (c % 2)

\* No --max-new-filters, a cap of 0 and a cap of 1.
MCMaxNewFilters == {-1, 0, 1}

=============================================================================
