------------------------------ MODULE FrameLink ------------------------------
(***************************************************************************)
(* One direction of a serial link: a builder, the wire and a parser of the *)
(* binary frame                                                            *)
(*                                                                         *)
(*     SOF  LEN  CMD  [SEQ]  DATA ...  CRC  EOF                            *)
(*                                                                         *)
(* The repository implements it four times (application, bootloader, PC    *)
(* program, gateway) and the Python tool builds it a fifth time.  The      *)
(* copies differ in three ways, which a record "link" of the set Links     *)
(* tells apart:                                                            *)
(*   seq    the frame has a SEQ byte (every link but the bootloader's)     *)
(*   idle   the receiver goes back to WAIT_SOF when it finds that nothing  *)
(*          came for PROTO_RX_TIMEOUT_MS (application and PC program only) *)
(*   wraps  the builder keeps its index in a uint8_t (the C builders do,   *)
(*          the PC program's vector and the tool's bytearray do not)       *)
(*                                                                         *)
(* The CRC accumulator is represented by what it has accumulated: rx_body  *)
(* holds the bytes since SOF and Crc(rx_body) is its value.                *)
(***************************************************************************)
EXTENDS Integers, Sequences

CONSTANTS Byte,      \* number of values of a byte (256)
          SOF,       \* 0xA5
          EOF,       \* 0x5A
          Crc(_),    \* the CRC-8 of a sequence of bytes
          Messages,  \* [cmd, seq, data] the senders may send
          Links,     \* the directions of the link, see above
          Noise,     \* values a disturbed byte may take
          MaxFaults  \* bound on the number of disturbed bytes

Bytes == 0 .. Byte - 1
MaxData == Byte - 5                                  \* PROTO_MAX_DATA = 251

ASSUME ByteAssumption ==
  /\ Byte \in Nat /\ Byte > 6
  /\ SOF \in 0 .. MaxData /\ EOF \in 0 .. MaxData /\ SOF # EOF
ASSUME MessageAssumption ==
  \A m \in Messages : /\ m = [cmd |-> m.cmd, seq |-> m.seq, data |-> m.data]
                      /\ m.cmd \in Bytes /\ m.seq \in Bytes
                      /\ m.data \in Seq(Bytes) /\ Len(m.data) <= MaxData
ASSUME LinkAssumption == Links \subseteq [seq : BOOLEAN, idle : BOOLEAN, wraps : BOOLEAN]
ASSUME WireAssumption == Noise \subseteq Bytes /\ MaxFaults \in Nat

VARIABLES link,      \* which direction this is; never changes
          msg,       \* the message being sent
          frame,     \* its bytes, as the builder put them in tx_buf
          pos,       \* how many of them have left the sender
          hits,      \* the disturbances of this frame: <<kind, position>>
          clean,     \* no disturbance can still affect this frame, see Undisturbed
          got,       \* what the parser has returned since the frame began
          lost,      \* bytes of undisturbed frames the parser has missed in a row
          faults,    \* disturbances so far
          rx_state,  \* rx_state / s_state / m_state
          rx_body    \* the bytes accumulated since SOF

parser == <<rx_state, rx_body, got>>
vars == <<link, msg, frame, pos, hits, clean, got, lost, faults, rx_state, rx_body>>

RxStates == {"WAIT_SOF", "WAIT_LEN", "WAIT_CMD", "WAIT_SEQ", "WAIT_DATA", "WAIT_CRC", "WAIT_EOF"}

-----------------------------------------------------------------------------
(* proto_build_frame *)

Header(m, l) == IF l.seq THEN <<SOF, Len(m.data), m.cmd, m.seq>> ELSE <<SOF, Len(m.data), m.cmd>>

Body(m, l) == Header(m, l) \o m.data

ASSUME CrcAssumption == \A m \in Messages, l \in Links : Crc(Body(m, l)) \in Bytes

\* crc = crc8_table[crc ^ byte], and the table is a permutation: one byte with
\* another value changes the sum for good.
ASSUME CrcOneByteAssumption ==
  \A m \in Messages, l \in Links : \A i \in 3 .. Len(Body(m, l)), b \in Bytes :
    b # Body(m, l)[i] => Crc([Body(m, l) EXCEPT ![i] = b]) # Crc(Body(m, l))

\* With a uint8_t index the bytes after the 256th land at the start of
\* tx_buf and the length returned has lost its carry.
Wrapped(bytes) ==
  LET n == Len(bytes) % Byte
  IN  [i \in 1 .. n |-> IF i + Byte <= Len(bytes) THEN bytes[i + Byte] ELSE bytes[i]]

BuildFrame(m) ==
  LET bytes == Body(m, link) \o <<Crc(Body(m, link)), EOF>>
  IN  IF link.wraps THEN Wrapped(bytes) ELSE bytes

-----------------------------------------------------------------------------
(* proto_feed_byte *)

HeaderLen == IF link.seq THEN 4 ELSE 3

Received ==
  [cmd  |-> rx_body[3],
   seq  |-> IF link.seq THEN rx_body[4] ELSE 0,
   data |-> SubSeq(rx_body, HeaderLen + 1, Len(rx_body))]

\* the state after a byte that completes the header or one byte of the data
AfterBytesOneMore(n) ==
  IF n < HeaderLen THEN "WAIT_SEQ"
  ELSE IF n > HeaderLen + rx_body[2] THEN "WAIT_CRC" ELSE "WAIT_DATA"

AfterBytes(n) ==
  IF n < HeaderLen THEN "WAIT_SEQ"
  ELSE IF n >= HeaderLen + rx_body[2] THEN "WAIT_CRC" ELSE "WAIT_DATA"

Restart == rx_state' = "WAIT_SOF" /\ rx_body' = <<>>

Accumulate(b, state) == rx_state' = state /\ rx_body' = Append(rx_body, b)

OnSof(b) ==
  /\ rx_state = "WAIT_SOF"
  /\ IF b = SOF THEN Accumulate(b, "WAIT_LEN") ELSE Restart
  /\ UNCHANGED got

OnLen(b) ==
  /\ rx_state = "WAIT_LEN"
  /\ IF b > MaxData THEN Restart ELSE Accumulate(b, "WAIT_CMD")
  /\ UNCHANGED got

OnField(b) ==
  /\ rx_state \in {"WAIT_CMD", "WAIT_SEQ", "WAIT_DATA"}
  /\ Accumulate(b, AfterBytes(Len(rx_body) + 1))
  /\ UNCHANGED got

OnCrcUnchecked(b) ==
  /\ rx_state = "WAIT_CRC"
  /\ rx_state' = "WAIT_EOF"
  /\ UNCHANGED <<rx_body, got>>

OnCrcKeepsSof(b) ==
  /\ rx_state = "WAIT_CRC"
  /\ IF b = Crc(rx_body) THEN rx_state' = "WAIT_EOF" /\ UNCHANGED rx_body
     ELSE rx_state' = "WAIT_LEN" /\ rx_body' = <<SOF>>
  /\ UNCHANGED got

OnCrc(b) ==
  /\ rx_state = "WAIT_CRC"
  /\ IF b = Crc(rx_body) THEN rx_state' = "WAIT_EOF" /\ UNCHANGED rx_body ELSE Restart
  /\ UNCHANGED got

OnEof(b) ==
  /\ rx_state = "WAIT_EOF"
  /\ Restart
  /\ got' = IF b = EOF THEN Append(got, Received) ELSE got

\* A byte that does not fit is dropped, never looked at again as a SOF.
ProtoFeedByte(b) == OnSof(b) \/ OnLen(b) \/ OnField(b) \/ OnCrc(b) \/ OnEof(b)

-----------------------------------------------------------------------------
(* The wire and the senders *)

Intact == hits = <<>>
FrameEnded == pos = Len(frame)
HasInnerSof == \E i \in 2 .. Len(frame) : frame[i] = SOF

\* exactly one byte after LEN arrived with another value
OneByteChanged == Len(hits) = 1 /\ hits[1][1] = "changed" /\ hits[1][2] > 2

\* Nothing that happened to this frame can matter to the next one.
Undisturbed == clean /\ (Intact \/ OneByteChanged)

\* silence: the receiver finds, before it is fed the next byte, that nothing came
\* for the timeout. The PC program looks on a timer; the application looks when
\* it begins to empty its ring buffer, and a silence that passes while it still
\* handles an earlier frame is one it never finds.
ProtoResetRxNever(silence) == UNCHANGED <<rx_state, rx_body>>

ProtoResetRx(silence) ==
  IF silence /\ link.idle THEN Restart ELSE UNCHANGED <<rx_state, rx_body>>

SendFrame(m, silence) ==
  /\ FrameEnded
  /\ link.seq \/ m.seq = 0
  /\ msg' = m
  /\ frame' = BuildFrame(m)
  /\ pos' = 0
  /\ hits' = <<>>
  /\ got' = <<>>
  /\ clean' = (Undisturbed \/ (silence /\ link.idle))
  /\ lost' = IF msg \in {got[i] : i \in 1 .. Len(got)} \/ ~ Intact \/ HasInnerSof \/ (silence /\ link.idle)
             THEN 0 ELSE lost + Len(frame)
  /\ ProtoResetRx(silence)
  /\ UNCHANGED <<link, faults>>

Deliver ==
  /\ ~ FrameEnded
  /\ pos' = pos + 1
  /\ ProtoFeedByte(frame[pos + 1])
  /\ UNCHANGED <<link, msg, frame, hits, clean, lost, faults>>

Disturb(kind) ==
  /\ ~ FrameEnded
  /\ faults < MaxFaults
  /\ faults' = faults + 1
  /\ hits' = Append(hits, <<kind, pos + 1>>)
  /\ UNCHANGED <<link, msg, frame, clean, lost>>

ChangeByte(b) ==
  /\ Disturb("changed")
  /\ b # frame[pos + 1]
  /\ pos' = pos + 1
  /\ ProtoFeedByte(b)

LoseByte ==
  /\ Disturb("lost")
  /\ pos' = pos + 1
  /\ UNCHANGED parser

InsertByte(b) ==
  /\ Disturb("inserted")
  /\ ProtoFeedByte(b)
  /\ UNCHANGED pos

\* Before the first frame: as after one that has arrived.
Init ==
  /\ link \in Links
  /\ msg \in Messages
  /\ got = <<msg>>
  /\ frame = <<>>
  /\ pos = 0
  /\ hits = <<>>
  /\ clean = TRUE
  /\ lost = 0
  /\ faults = 0
  /\ rx_state = "WAIT_SOF"
  /\ rx_body = <<>>

Next ==
  \/ \E m \in Messages, silence \in BOOLEAN : SendFrame(m, silence)
  \/ Deliver
  \/ LoseByte
  \/ \E b \in Noise : ChangeByte(b) \/ InsertByte(b)

Spec == Init /\ [][Next]_vars

-----------------------------------------------------------------------------
(* Properties *)

\* The parser's state is the one its accumulated bytes call for.
StateFollowsBytes ==
  LET n == Len(rx_body)
      full == n >= HeaderLen /\ n = HeaderLen + rx_body[2]
  IN  /\ (rx_state = "WAIT_SOF") <=> (n = 0)
      /\ (rx_state = "WAIT_LEN") <=> (n = 1)
      /\ (rx_state = "WAIT_CMD") <=> (n = 2)
      /\ (rx_state = "WAIT_SEQ") <=> (link.seq /\ n = 3)
      /\ (rx_state = "WAIT_DATA") <=> (n >= HeaderLen /\ n < HeaderLen + rx_body[2])
      /\ (rx_state \in {"WAIT_CRC", "WAIT_EOF"}) <=> full

\* Types, and no byte is ever stored past data[PROTO_MAX_DATA].
FrameTypeOK ==
  /\ link \in Links /\ msg \in Messages
  /\ frame \in Seq(Bytes) /\ pos \in 0 .. Len(frame)
  /\ clean \in BOOLEAN /\ lost \in Nat /\ faults \in 0 .. MaxFaults
  /\ rx_state \in RxStates
  /\ rx_body \in Seq(Bytes) /\ Len(rx_body) <= HeaderLen + MaxData
  /\ StateFollowsBytes

\* A frame that is not disturbed, after frames that were not either (or lost
\* no more than one byte after LEN to a wrong value) or after a silence that was
\* found, is returned by the parser: once, with its content, when its last byte
\* is fed.
SyncedFramesArrive ==
  FrameEnded /\ clean /\ Intact => got = <<msg>>

\* One byte after LEN arriving with another value never yields a command.
OneBadByteIsRejected ==
  FrameEnded /\ clean /\ OneByteChanged => got = <<>>

\* Without a timer the parser recovers by itself: of consecutive frames that are
\* intact and have no SOF inside it misses, whatever came before them, no more
\* than the false frame it may be reading and one frame it found the middle of.
\* The count begins again at a disturbance and at a frame with a SOF inside: such
\* a frame, sent again and again, can be entered in its middle every time, and
\* for it nothing is claimed. The bootloader and the gateway have no timer.
LongestFrame == LET L == {Len(m.data) : m \in Messages}
                IN  6 + CHOOSE n \in L : \A k \in L : k <= n
BoundedLoss ==
  LET missing == IF FrameEnded /\ Intact /\ ~ HasInnerSof /\ msg \notin {got[i] : i \in 1 .. Len(got)}
                 THEN lost + Len(frame) ELSE lost
  IN  missing <= MaxData + 5 + LongestFrame - 1

=============================================================================
