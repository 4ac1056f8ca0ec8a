----------------------------- MODULE MidxOffsets -----------------------------
(* The object offsets of a multi-pack-index (midx.c).  write_midx_internal  *)
(* counts the offsets that need the large-offset table and decides whether *)
(* the LOFF chunk is written; write_midx_object_offsets writes one 32-bit  *)
(* word per object into OOFF, either the offset itself or the top bit and  *)
(* an index into LOFF; write_midx_large_offsets writes the 64-bit offsets; *)
(* nth_midxed_offset reads an offset back.                                 *)
(*                                                                         *)
(* Widths are scaled: OffsetBits stands for the 32 bits of an OOFF word,   *)
(* and an off_t has twice as many bits.                                    *)
EXTENDS Integers, Sequences, Bitwise

CONSTANT OffsetBits   \* 32, scaled; an offset is below 2^(2*OffsetBits)

\* MIDX_LARGE_OFFSET_NEEDED (0x80000000) and the range of a uint32_t.  BUG
\* stands for a BUG() of the writer, or a value read outside a chunk.
LargeOffsetNeeded == 2^(OffsetBits - 1)
Word == 2^OffsetBits
BUG == -1

\* "offset >> 31" and "offset >> 32" of the C code.
HasTopBit(off) == shiftR(off, OffsetBits - 1) # 0
ExceedsWord(off) == shiftR(off, OffsetBits) # 0

\* Faulty variant: "offset >= 0x7fffffff" in the count.
CountLargeOffsetsOffByOne(offs) ==
    Len(SelectSeq(offs, LAMBDA off : off >= LargeOffsetNeeded - 1))

\* write_midx_internal, after get_sorted_entries: ctx.num_large_offsets
\* counts the offsets above 0x7fffffff, and the LOFF chunk is needed once
\* one is above 0xffffffff.
CountLargeOffsets(offs) ==
    Len(SelectSeq(offs, LAMBDA off : off > LargeOffsetNeeded - 1))
LargeOffsetsNeeded(offs) ==
    \E i \in DOMAIN offs : offs[i] > Word - 1

\* write_midx_object_offsets: the OOFF word of object i.  nr_large_offset is
\* the number of earlier objects that went to LOFF; it is a uint32_t, and
\* "MIDX_LARGE_OFFSET_NEEDED | nr" keeps the top bit set.  An offset that
\* needs 64 bits while no LOFF chunk is written is a BUG().
ObjectOffsetWord(offs, needed, i) ==
    LET nr == Len(SelectSeq(SubSeq(offs, 1, i - 1), HasTopBit)) % Word IN
    IF needed /\ HasTopBit(offs[i]) THEN LargeOffsetNeeded | nr
    ELSE IF ~needed /\ ExceedsWord(offs[i]) THEN BUG
    ELSE offs[i] % Word

\* write_midx_large_offsets: the offsets with the top bit set, in entry
\* order, until num_large_offsets of them are written; running out of
\* entries first is a BUG().
WriteMidxLargeOffsets(offs, num) ==
    LET large == SelectSeq(offs, HasTopBit) IN
    IF Len(large) < num THEN [bug |-> TRUE, chunk |-> large]
    ELSE [bug |-> FALSE, chunk |-> SubSeq(large, 1, num)]

\* The OOFF and LOFF chunks of a MIDX whose sorted entries have the offsets
\* offs (the LOFF chunk is added only if large offsets are needed).
WriteOffsets(offs) ==
    LET needed == LargeOffsetsNeeded(offs)
        num == CountLargeOffsets(offs)
        large == WriteMidxLargeOffsets(offs, num)
    IN [ooff |-> [i \in DOMAIN offs |-> ObjectOffsetWord(offs, needed, i)],
        loff |-> IF needed THEN large.chunk ELSE <<>>,
        hasLoff |-> needed,
        bug |-> needed /\ large.bug]

WriteFailed(f) ==
    \/ \E i \in DOMAIN f.ooff : f.ooff[i] = BUG
    \/ f.bug

\* nth_midxed_offset: a word with the top bit set is an index into LOFF if
\* that chunk exists; otherwise the word is the offset.  An index past the
\* chunk reads outside it.
NthMidxedOffset(f, pos) ==
    LET offset32 == f.ooff[pos] IN
    IF f.hasLoff /\ (offset32 & LargeOffsetNeeded) # 0
    THEN LET k == (offset32 ^^ LargeOffsetNeeded) + 1 IN
         IF k \in DOMAIN f.loff THEN f.loff[k] ELSE BUG
    ELSE offset32

=============================================================================
