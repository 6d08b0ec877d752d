----------------------------- MODULE MCFrameLink -----------------------------
(* FrameLink with bytes of four bits: 0xA5 and 0x5A are below              *)
(* PROTO_MAX_DATA, as they are in the program, so both may be read as a    *)
(* length.                                                                 *)
EXTENDS FrameLink, TLC, SequencesExt
B == INSTANCE Bitwise

\* crc = crc8_table[crc ^ byte]; x -> 7x+3 stands for the table: a permutation
CrcTable(x) == (7 * x + 3) % 16
MCCrc(s) == FoldLeft(LAMBDA acc, b : CrcTable(B!^^(acc, b)), 0, s)

Msg(cmd, seq, data) == [cmd |-> cmd, seq |-> seq, data |-> data]

\* the lengths at and below the last one a uint8_t index can hold
MCMessages ==
  { Msg(1, 0, <<>>), Msg(SOF, 2, <<3>>), Msg(2, 0, <<0, SOF>>), Msg(12, 1, <<9, EOF, 1>>) }

MCLongMessages == { Msg(1, 0, [i \in 1 .. n |-> 1]) : n \in MaxData - 3 .. MaxData }

Link(seq, idle, wraps) == [seq |-> seq, idle |-> idle, wraps |-> wraps]
PcToApp == Link(TRUE, TRUE, FALSE)
GatewayToApp == Link(TRUE, TRUE, TRUE)     \* and application to PC program
AppToGateway == Link(TRUE, FALSE, TRUE)
ToolToBoot == Link(FALSE, FALSE, FALSE)
MCLinks == { PcToApp, GatewayToApp, AppToGateway, ToolToBoot }
MCGatewayLink == { GatewayToApp }
MCNoise == { 0, SOF, EOF, MaxData, 15 }

=============================================================================
