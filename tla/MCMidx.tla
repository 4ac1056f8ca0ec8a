------------------------------- MODULE MCMidx -------------------------------
(* Midx over three objects, so seven distinct packs.                      *)
EXTENDS Midx

\* A pack's name is pack-<hash of its sorted object ids>; the sort key is a
\* scramble of its object set that is unrelated to size or creation order.
MCNameKey(p) ==
    (IF 1 \in p THEN 4 ELSE 0) + (IF 2 \in p THEN 1 ELSE 0) + (IF 3 \in p THEN 2 ELSE 0)

\* nth_packed_object_offset at a 4-bit OOFF word (0x80000000 is 8, 2^32 is
\* 16): the objects of a pack lie at increasing offsets, and the packs that
\* occur ({1}, {2}, {2,3}, and {1,2} from a repack) put them on each side
\* of both boundaries and at the largest off_t.
MCPackOffset(p, o) ==
    LET at == CASE p = {2}    -> <<255>>
                [] p = {1, 2} -> <<7, 16>>
                [] Cardinality(p) = 1 -> <<7>>
                [] Cardinality(p) = 2 -> <<8, 15>>
                [] OTHER -> <<7, 15, 16>>
    IN at[Cardinality({x \in p : x <= o})]

=============================================================================
