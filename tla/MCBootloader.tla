--------------------------- MODULE MCBootloader ---------------------------
(* Small instances of Bootloader: two-bit words, an A slot of one sector   *)
(* and a B slot of two, as the real A slot is smaller than B.              *)
EXTENDS Bootloader

MCBits == {1, 2}
MCSlotSize == [s \in Slots |-> s + 1]
MCVector == [s \in Slots |-> {{s + 1}}]

\* One image linked for A, two for B (one of them short) and an empty one.
\* ImageB is too long for A, ImageA is linked for the wrong slot in B.
ImageA == <<{1}>>
ImageB == <<{2}, {1}>>
ShortB == <<{2}>>
MCImages == {<<>>, ImageA, ImageB, ShortB}

MCPayloads == {<<{1}>>, <<{2}>>, <<{2}, {1}>>}
\* 28 is -4 in an address space of 32 bytes.
MCOffsets == {0, 2, 4, 28}
=============================================================================
