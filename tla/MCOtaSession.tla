---------------------------- MODULE MCOtaSession ----------------------------
(* Small instances of OtaSession: one-word chunks, so that a two-word image *)
(* takes two OTA_DATA frames.                                              *)
EXTENDS OtaSession

MCBits == {1, 2}
MCSlotSize == [s \in Slots |-> s + 1]
MCVector == [s \in Slots |-> {{s + 1}}]

\* An image for A and one for B; two for B that differ in the last word only.
ImageA == <<{1}>>
ImageB == <<{2}, {1}>>
OtherB == <<{2}, {1, 2}>>
MCImages == {ImageA, ImageB}
MCTwins == {ImageB, OtherB}

MCNoisy == {"noisy"}
MCLines == {"clean", "noisy"}

\* Only the client sends frames.
MCPayloads == {}
MCOffsets == {}
=============================================================================
