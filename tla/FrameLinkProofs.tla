--------------------------- MODULE FrameLinkProofs ---------------------------
(***************************************************************************)
(* The frame links for every set of messages, every direction, every CRC   *)
(* that tells one changed byte, and any number of disturbances: what a     *)
(* parser holds, that a frame it is in step with arrives once and whole,   *)
(* that one wrong byte never makes a command, and how much of consecutive  *)
(* intact frames without an inner SOF can be lost after a disturbance.     *)
(*                                                                         *)
(* The last three need frames whose length fits the builder's index: see   *)
(* IndexHolds.                                                             *)
(***************************************************************************)
EXTENDS FrameLink, TLAPS, SequenceTheorems, WellFoundedInduction

\* No message is so long that a uint8_t index wraps while its frame is built
\* (the run frames_long shows what happens to longer ones).
IndexHolds == \A m \in Messages, l \in Links : l.wraps => Len(Body(m, l)) + 2 < Byte

Whole(m) == Body(m, link) \o <<Crc(Body(m, link)), EOF>>

-----------------------------------------------------------------------------
(* Numbers and frames *)

LEMMA LinkNumbers ==
  /\ Byte \in Nat /\ Byte > 6 /\ MaxData \in Nat /\ MaxData = Byte - 5
  /\ SOF \in Bytes /\ EOF \in Bytes /\ SOF # EOF /\ SOF <= MaxData
  /\ \A b \in Bytes : b \in Nat
  BY ByteAssumption DEF MaxData, Bytes

LEMMA RemainderBounds ==
  ASSUME NEW y \in Nat, y > 0, NEW x \in Nat
  PROVE  x % y \in Nat /\ x % y < y /\ x % y <= x /\ (x < y => x % y = x)
<1>1. x % y \in 0 .. y - 1
  OBVIOUS
<1>2. x % y <= x
  OBVIOUS
<1>3. x < y => x % y = x
  OBVIOUS
<1>4. QED
  BY <1>1, <1>2, <1>3

LEMMA HeaderLenIs ==
  ASSUME link \in Links
  PROVE  HeaderLen \in {3, 4} /\ link.seq \in BOOLEAN /\ HeaderLen = (IF link.seq THEN 4 ELSE 3)
  BY LinkAssumption DEF HeaderLen

\* Two pieces of a frame, one after the other.
LEMMA Joined ==
  ASSUME NEW s \in Seq(Bytes), NEW t \in Seq(Bytes)
  PROVE  /\ s \o t \in Seq(Bytes) /\ Len(s \o t) = Len(s) + Len(t)
         /\ \A i \in 1 .. Len(s) + Len(t) : (s \o t)[i] = IF i <= Len(s) THEN s[i] ELSE t[i - Len(s)]
  BY ConcatProperties

\* The body of a frame: its length, and where the parser looks in it.
LEMMA BodyIs ==
  ASSUME link \in Links, NEW m \in Messages
  PROVE  LET B == Body(m, link) IN
         /\ B \in Seq(Bytes) /\ Len(B) = HeaderLen + Len(m.data) /\ Len(m.data) \in 0 .. MaxData
         /\ B[1] = SOF /\ B[2] = Len(m.data) /\ B[3] = m.cmd /\ (link.seq => B[4] = m.seq)
         /\ \A i \in 1 .. Len(m.data) : B[HeaderLen + i] = m.data[i]
<1> DEFINE H == Header(m, link)
<1>1. /\ m.cmd \in Bytes /\ m.seq \in Bytes /\ m.data \in Seq(Bytes)
      /\ Len(m.data) \in 0 .. MaxData /\ Len(m.data) \in Bytes
  BY MessageAssumption, LinkNumbers DEF Bytes
<1>2. H \in Seq(Bytes) /\ Len(H) = HeaderLen /\ H[1] = SOF /\ H[2] = Len(m.data) /\ H[3] = m.cmd
      /\ (link.seq => H[4] = m.seq)
  <2>1. CASE link.seq
    BY <1>1, <2>1, LinkNumbers DEF Header, HeaderLen
  <2>2. CASE ~ link.seq
    BY <1>1, <2>2, LinkNumbers DEF Header, HeaderLen
  <2>3. QED
    BY <2>1, <2>2
<1> HIDE DEF H
<1>3. Body(m, link) = H \o m.data
  BY DEF Body, H
<1>4. HeaderLen \in {3, 4} /\ (link.seq => HeaderLen = 4)
  BY HeaderLenIs
<1> DEFINE d == m.data
<1>5. d \in Seq(Bytes) /\ Len(d) \in Nat
  BY <1>1
<1> HIDE DEF d
<1>6. /\ H \o d \in Seq(Bytes) /\ Len(H \o d) = Len(H) + Len(d)
      /\ \A i \in 1 .. Len(H) + Len(d) : (H \o d)[i] = IF i <= Len(H) THEN H[i] ELSE d[i - Len(H)]
  <2>1. H \in Seq(Bytes) /\ d \in Seq(Bytes)
    BY <1>2, <1>5
  <2>2. QED
    BY <2>1, Joined
<1>7. (H \o d)[1] = H[1] /\ (H \o d)[2] = H[2] /\ (H \o d)[3] = H[3] /\ (link.seq => (H \o d)[4] = H[4])
  <2>1. /\ {1, 2, 3} \subseteq 1 .. Len(H) + Len(d)
        /\ Len(H) = HeaderLen
        /\ link.seq => 4 \in 1 .. Len(H) + Len(d)
    BY <1>2, <1>4, <1>5
  <2>2. QED
    BY <1>4, <1>6, <2>1
<1>8. ASSUME NEW i \in 1 .. Len(d)
      PROVE  (H \o d)[HeaderLen + i] = d[i]
  <2>1. PICK k \in Nat : k = HeaderLen + i
    BY <1>4
  <2>2. k \in 1 .. Len(H) + Len(d) /\ ~ (k <= Len(H)) /\ k - Len(H) = i
    BY <1>2, <1>4, <1>5, <2>1
  <2>3. QED
    BY <1>6, <2>1, <2>2
<1>9. QED
  <2>1. Body(m, link) = H \o d
    BY <1>3 DEF d
  <2>2. Len(d) \in 0 .. MaxData /\ H[2] = Len(d)
    BY <1>1, <1>2 DEF d
  <2>3. QED
    BY <1>2, <1>6, <1>7, <1>8, <2>1, <2>2 DEF d

\* The frame around a body.
LEMMA WholeIs ==
  ASSUME link \in Links, NEW m \in Messages
  PROVE  LET F == Whole(m)
             B == Body(m, link)
         IN  /\ F \in Seq(Bytes) /\ Len(F) = Len(B) + 2
             /\ F[Len(B) + 1] = Crc(B) /\ F[Len(B) + 2] = EOF
             /\ \A i \in 1 .. Len(B) : F[i] = B[i]
<1> DEFINE B == Body(m, link)
           t == <<Crc(B), EOF>>
<1>1. B \in Seq(Bytes) /\ t \in Seq(Bytes) /\ Len(t) = 2 /\ t[1] = Crc(B) /\ t[2] = EOF
  BY BodyIs, LinkNumbers, CrcAssumption
<1> HIDE DEF B, t
<1>2. Whole(m) = B \o t
  BY DEF Whole, B, t
<1>3. /\ B \o t \in Seq(Bytes) /\ Len(B \o t) = Len(B) + Len(t)
      /\ \A i \in 1 .. Len(B) + Len(t) : (B \o t)[i] = IF i <= Len(B) THEN B[i] ELSE t[i - Len(B)]
  <2>1. B \in Seq(Bytes) /\ t \in Seq(Bytes)
    BY <1>1
  <2>2. QED
    BY <2>1, Joined
<1>4. PICK n \in Nat : n = Len(B)
  BY <1>1
<1>5. (B \o t)[n + 1] = t[1] /\ (B \o t)[n + 2] = t[2] /\ \A i \in 1 .. n : (B \o t)[i] = B[i]
  <2>1. PICK j \in Nat : j = n + 1
    BY <1>4
  <2>2. PICK k \in Nat : k = n + 2
    BY <1>4
  <2>3. j \in 1 .. Len(B) + Len(t) /\ k \in 1 .. Len(B) + Len(t) /\ ~ (j <= Len(B)) /\ ~ (k <= Len(B))
        /\ j - Len(B) = 1 /\ k - Len(B) = 2 /\ 1 .. n \subseteq 1 .. Len(B) + Len(t)
    <3>1. Len(t) = 2
      BY <1>1
    <3>2. QED
      BY <1>4, <2>1, <2>2, <3>1
  <2>4. (B \o t)[j] = t[1] /\ (B \o t)[k] = t[2]
    BY <1>3, <2>3
  <2>5. \A i \in 1 .. n : (B \o t)[i] = B[i]
    BY <1>3, <1>4, <2>3
  <2>6. QED
    BY <2>1, <2>2, <2>4, <2>5
<1>6. QED
  BY <1>1, <1>2, <1>3, <1>4, <1>5 DEF B

\* What the builder returns is a sequence of bytes, and the whole frame if its
\* index can hold the length.
LEMMA BuildFrameIs ==
  ASSUME link \in Links, NEW m \in Messages
  PROVE  BuildFrame(m) \in Seq(Bytes) /\ (IndexHolds => BuildFrame(m) = Whole(m))
<1> DEFINE F == Whole(m)
           n == Len(F) % Byte
<1>1. F \in Seq(Bytes) /\ Len(F) \in Nat /\ Len(F) = Len(Body(m, link)) + 2
  BY WholeIs, BodyIs
<1>2. n \in Nat /\ n < Byte /\ n <= Len(F) /\ (Len(F) < Byte => n = Len(F))
  BY <1>1, RemainderBounds, LinkNumbers
<1>3. BuildFrame(m) = IF link.wraps THEN Wrapped(F) ELSE F
  BY DEF BuildFrame, Whole
<1>4. Wrapped(F) \in Seq(Bytes)
  <2> DEFINE w(i) == IF i + Byte <= Len(F) THEN F[i + Byte] ELSE F[i]
  <2>1. \A i \in 1 .. n : w(i) \in Bytes
    BY <1>1, <1>2, LinkNumbers
  <2>2. [i \in 1 .. n |-> w(i)] \in Seq(Bytes)
    BY <1>2, <2>1
  <2>3. QED
    BY <2>2 DEF Wrapped
<1>5. ASSUME IndexHolds, link.wraps
      PROVE  Wrapped(F) = F
  <2>1. Len(F) < Byte
    BY <1>1, <1>5 DEF IndexHolds
  <2>2. n = Len(F)
    BY <1>2, <2>1
  <2>3. Wrapped(F) = [i \in 1 .. Len(F) |-> F[i]]
    BY <1>1, <2>1, <2>2, LinkNumbers DEF Wrapped
  <2>4. QED
    BY <1>1, <2>3
<1>6. QED
  BY <1>1, <1>3, <1>4, <1>5

-----------------------------------------------------------------------------
(* The parser *)

\* What the parser holds, and that the LEN byte in it was accepted.
ParserOK ==
  /\ rx_state \in RxStates /\ rx_body \in Seq(Bytes) /\ StateFollowsBytes
  /\ Len(rx_body) >= 2 => rx_body[2] <= MaxData

\* The bytes that the frame being read can still take.
Left ==
  IF rx_state = "WAIT_SOF" THEN 0
  ELSE IF rx_state = "WAIT_EOF" THEN 1
  ELSE IF Len(rx_body) = 1 THEN HeaderLen + MaxData + 1
  ELSE HeaderLen + rx_body[2] + 2 - Len(rx_body)

\* What follows from the state about the bytes, in numbers.
LEMMA StateSays ==
  ASSUME link \in Links, ParserOK
  PROVE  /\ Len(rx_body) \in Nat /\ (Len(rx_body) >= 2 => rx_body[2] \in 0 .. MaxData)
         /\ Len(rx_body) <= HeaderLen + MaxData
         /\ rx_state = "WAIT_SOF" => rx_body = <<>>
         /\ rx_state = "WAIT_LEN" => Len(rx_body) = 1
         /\ rx_state = "WAIT_CMD" => Len(rx_body) = 2
         /\ rx_state = "WAIT_SEQ" => Len(rx_body) = 3 /\ HeaderLen = 4
         /\ rx_state = "WAIT_DATA" => Len(rx_body) >= HeaderLen
                                      /\ Len(rx_body) < HeaderLen + rx_body[2]
         /\ rx_state \in {"WAIT_CRC", "WAIT_EOF"} => Len(rx_body) >= HeaderLen
                                                     /\ Len(rx_body) = HeaderLen + rx_body[2]
<1> DEFINE n == Len(rx_body)
           l == rx_body[2]
<1>1. n \in Nat /\ (n = 0 => rx_body = <<>>)
  BY DEF ParserOK
<1>2. n >= 2 => l \in 0 .. MaxData
  <2> SUFFICES ASSUME n >= 2 PROVE l \in 0 .. MaxData
    OBVIOUS
  <2>1. 2 \in 1 .. Len(rx_body)
    BY <1>1
  <2>2. rx_body[2] \in Bytes
    BY <2>1, ElementOfSeq DEF ParserOK
  <2>3. QED
    BY <2>2, LinkNumbers DEF ParserOK
<1>3. /\ rx_state = "WAIT_SOF" => n = 0
      /\ rx_state = "WAIT_LEN" => n = 1
      /\ rx_state = "WAIT_CMD" => n = 2
      /\ rx_state = "WAIT_SEQ" => n = 3 /\ link.seq
      /\ rx_state = "WAIT_DATA" => n >= HeaderLen /\ n < HeaderLen + l
      /\ rx_state \in {"WAIT_CRC", "WAIT_EOF"} => n >= HeaderLen /\ n = HeaderLen + l
  BY DEF ParserOK, StateFollowsBytes
<1>4. rx_state \in RxStates
  BY DEF ParserOK
<1> HIDE DEF n, l
<1>5. n <= HeaderLen + MaxData
  <2>1. HeaderLen \in {3, 4} /\ MaxData \in Nat
    BY HeaderLenIs, LinkNumbers
  <2>2. CASE rx_state \in {"WAIT_SOF", "WAIT_LEN", "WAIT_CMD", "WAIT_SEQ"}
    <3>1. n <= 3
      BY <1>3, <2>2
    <3>2. QED
      BY <1>1, <2>1, <3>1
  <2>3. CASE rx_state \in {"WAIT_DATA", "WAIT_CRC", "WAIT_EOF"}
    <3>1. n >= 2 /\ l \in 0 .. MaxData
      BY <1>1, <1>2, <1>3, <2>1, <2>3
    <3>2. n <= HeaderLen + l
      BY <1>1, <1>3, <2>1, <2>3, <3>1
    <3>3. QED
      BY <1>1, <2>1, <3>1, <3>2
  <2>4. QED
    BY <1>4, <2>2, <2>3 DEF RxStates
<1>6. QED
  BY <1>1, <1>2, <1>3, <1>5, HeaderLenIs DEF n, l

\* The parser with no byte in it.
LEMMA EmptyParser ==
  ASSUME link \in Links, link' = link, Restart
  PROVE  ParserOK' /\ Left' = 0 /\ rx_state' = "WAIT_SOF"
<1>1. rx_state' = "WAIT_SOF" /\ rx_body' = <<>> /\ rx_body' \in Seq(Bytes) /\ Len(rx_body') = 0
  BY EmptySeq DEF Restart
<1>2. HeaderLen' = HeaderLen /\ HeaderLen \in {3, 4}
  BY HeaderLenIs DEF HeaderLen
<1>3. StateFollowsBytes'
  BY <1>1, <1>2 DEF StateFollowsBytes
<1>4. QED
  BY <1>1, <1>3 DEF ParserOK, RxStates, Left

\* The parser with one byte more.
LEMMA Accumulated ==
  ASSUME link \in Links, ParserOK, link' = link, NEW b \in Bytes, NEW s, Accumulate(b, s)
  PROVE  /\ rx_state' = s /\ rx_body' \in Seq(Bytes) /\ Len(rx_body') = Len(rx_body) + 1
         /\ rx_body'[Len(rx_body) + 1] = b
         /\ \A i \in 1 .. Len(rx_body) : rx_body'[i] = rx_body[i]
         /\ HeaderLen' = HeaderLen
<1>1. rx_body \in Seq(Bytes) /\ rx_body' = Append(rx_body, b) /\ rx_state' = s
  BY DEF ParserOK, Accumulate
<1>2. HeaderLen' = HeaderLen
  BY DEF HeaderLen
<1>3. QED
  BY <1>1, <1>2, AppendProperties

\* Every byte fed keeps the parser's state true to its bytes, and brings the
\* end of the frame being read at least one byte nearer.
LEMMA FeedKeeps ==
  ASSUME link \in Links, ParserOK, link' = link, NEW b \in Bytes, ProtoFeedByte(b)
  PROVE  /\ ParserOK'
         /\ Left' \in 0 .. HeaderLen + MaxData + 1
         /\ rx_state # "WAIT_SOF" => Left' <= Left - 1
         /\ rx_state' # "WAIT_SOF" => Left' >= 1
<1> DEFINE n == Len(rx_body)
           l == rx_body[2]
<1>1. HeaderLen \in {3, 4} /\ link.seq \in BOOLEAN /\ HeaderLen = (IF link.seq THEN 4 ELSE 3)
      /\ HeaderLen' = HeaderLen /\ link'.seq = link.seq
  BY HeaderLenIs DEF HeaderLen
<1>2. /\ n \in Nat /\ (n >= 2 => l \in 0 .. MaxData)
      /\ rx_state = "WAIT_SOF" => n = 0
      /\ rx_state = "WAIT_LEN" => n = 1
      /\ rx_state = "WAIT_CMD" => n = 2
      /\ rx_state = "WAIT_SEQ" => n = 3 /\ HeaderLen = 4
      /\ rx_state = "WAIT_DATA" => n >= HeaderLen /\ n < HeaderLen + l
      /\ rx_state \in {"WAIT_CRC", "WAIT_EOF"} => n >= HeaderLen /\ n = HeaderLen + l
  BY StateSays, EmptySeq
<1>3. /\ rx_state \in RxStates /\ MaxData \in Nat
      /\ rx_state = "WAIT_SOF" => Left = 0
      /\ rx_state = "WAIT_EOF" => Left = 1
      /\ rx_state = "WAIT_LEN" => Left = HeaderLen + MaxData + 1
      /\ n # 1 /\ rx_state \notin {"WAIT_SOF", "WAIT_EOF"} => Left = HeaderLen + l + 2 - n
  <2>1. rx_state = "WAIT_LEN" => Len(rx_body) = 1
    BY <1>2
  <2>2. QED
    BY <2>1, LinkNumbers DEF Left, ParserOK
<1> HIDE DEF n, l
<1>4. Left \in Nat /\ (rx_state # "WAIT_SOF" => Left >= 1)
  <2>1. CASE rx_state \in {"WAIT_SOF", "WAIT_EOF", "WAIT_LEN"}
    BY <1>1, <1>3, <2>1
  <2>2. CASE rx_state \in {"WAIT_CMD", "WAIT_SEQ", "WAIT_DATA", "WAIT_CRC"}
    <3>1. n >= 2 /\ n # 1 /\ l \in 0 .. MaxData
      BY <1>1, <1>2, <2>2
    <3>2. n <= HeaderLen + l
      BY <1>1, <1>2, <1>3, <2>2, <3>1
    <3>3. QED
      BY <1>1, <1>2, <1>3, <2>2, <3>1, <3>2
  <2>3. QED
    BY <1>3, <2>1, <2>2 DEF RxStates
<1>5. CASE Restart
  BY <1>3, <1>4, <1>5, <1>1, EmptyParser
<1>6. CASE rx_state = "WAIT_SOF" /\ Accumulate(b, "WAIT_LEN")
  <2>1. rx_state' = "WAIT_LEN" /\ rx_body' \in Seq(Bytes) /\ Len(rx_body') = n + 1
    BY <1>6, Accumulated DEF n
  <2>2. Len(rx_body') = 1
    BY <1>2, <1>6, <2>1
  <2>3. StateFollowsBytes'
    <3>1. HeaderLen' \in {3, 4} /\ ~ (Len(rx_body') >= HeaderLen')
      BY <1>1, <2>2
    <3> DEFINE n1 == Len(rx_body')
    <3>2. n1 # 0 /\ n1 = 1 /\ n1 # 2 /\ n1 # 3
      BY <2>2
    <3> HIDE DEF n1
    <3>3. QED
      BY <2>1, <3>1, <3>2, Zenon DEF StateFollowsBytes, n1
  <2>4. Left' = HeaderLen + MaxData + 1
    BY <1>1, <2>1, <2>2 DEF Left
  <2>5. ParserOK'
    <3>1. ~ (Len(rx_body') >= 2)
      BY <2>2
    <3>2. QED
      BY <2>1, <2>3, <3>1 DEF ParserOK, RxStates
  <2>6. QED
    BY <1>1, <1>3, <1>6, <2>4, <2>5
<1>7. CASE rx_state = "WAIT_LEN" /\ b <= MaxData /\ Accumulate(b, "WAIT_CMD")
  <2>1. /\ rx_state' = "WAIT_CMD" /\ rx_body' \in Seq(Bytes) /\ Len(rx_body') = n + 1
        /\ rx_body'[n + 1] = b
    BY <1>7, Accumulated DEF n
  <2>2. n + 1 = 2 /\ b \in Nat
    BY <1>2, <1>7, LinkNumbers
  <2>3. Len(rx_body') = 2 /\ rx_body'[2] = b
    BY <2>1, <2>2
  <2>4. StateFollowsBytes'
    BY <1>1, <2>1, <2>2, <2>3 DEF StateFollowsBytes
  <2>5. Left' = HeaderLen + b
    BY <1>1, <2>1, <2>2, <2>3 DEF Left
  <2>6. Left = HeaderLen + MaxData + 1
    BY <1>3, <1>7
  <2>7. QED
    BY <1>1, <1>3, <1>7, <2>1, <2>2, <2>3, <2>4, <2>5, <2>6 DEF ParserOK, RxStates
<1>8. CASE rx_state \in {"WAIT_CMD", "WAIT_SEQ", "WAIT_DATA"} /\ Accumulate(b, AfterBytes(Len(rx_body) + 1))
  <2>1. n >= 2 /\ l \in 0 .. MaxData
    BY <1>1, <1>2, <1>8
  <2>2. /\ rx_state' = AfterBytes(n + 1) /\ rx_body' \in Seq(Bytes) /\ Len(rx_body') = n + 1
        /\ \A i \in 1 .. n : rx_body'[i] = rx_body[i]
    BY <1>8, Accumulated DEF n
  <2>3. rx_body'[2] = l
    <3>1. 2 \in 1 .. n
      BY <1>2, <2>1
    <3>2. QED
      BY <2>2, <3>1 DEF l
  <2>4. PICK k \in Nat : k = n + 1
    BY <1>2
  <2>5. /\ k < HeaderLen => rx_state' = "WAIT_SEQ"
        /\ k >= HeaderLen /\ k >= HeaderLen + l => rx_state' = "WAIT_CRC"
        /\ k >= HeaderLen /\ k < HeaderLen + l => rx_state' = "WAIT_DATA"
    <3>1. rx_state' = AfterBytes(k)
      BY <2>2, <2>4
    <3>2. AfterBytes(k) = IF k < HeaderLen THEN "WAIT_SEQ" ELSE IF k >= HeaderLen + l THEN "WAIT_CRC" ELSE "WAIT_DATA"
      BY DEF AfterBytes, l
    <3>3. QED
      BY <1>1, <2>1, <3>1, <3>2
  <2>6. k >= 3 /\ k <= HeaderLen + l
    <3>1. CASE rx_state = "WAIT_CMD"
      BY <1>1, <1>2, <2>1, <2>4, <3>1
    <3>2. CASE rx_state = "WAIT_SEQ"
      BY <1>1, <1>2, <2>1, <2>4, <3>2
    <3>3. CASE rx_state = "WAIT_DATA"
      BY <1>1, <1>2, <2>1, <2>4, <3>3
    <3>4. QED
      BY <1>8, <3>1, <3>2, <3>3
  <2>7. rx_state' \in {"WAIT_SEQ", "WAIT_CRC", "WAIT_DATA"} /\ Len(rx_body') = k
    BY <1>1, <2>1, <2>2, <2>4, <2>5, <2>6
  <2>8. StateFollowsBytes'
    BY <1>1, <2>1, <2>3, <2>5, <2>6, <2>7 DEF StateFollowsBytes
  <2>9. Left' = HeaderLen + l + 2 - k
    BY <1>1, <2>3, <2>6, <2>7 DEF Left
  <2>10. Left = HeaderLen + l + 2 - n
    BY <1>3, <1>8, <2>1
  <2>11. ParserOK'
    BY <2>1, <2>2, <2>3, <2>7, <2>8 DEF ParserOK, RxStates
  <2>12. QED
    BY <1>1, <1>2, <1>3, <2>1, <2>4, <2>6, <2>9, <2>10, <2>11
<1>9. CASE rx_state = "WAIT_CRC" /\ rx_state' = "WAIT_EOF" /\ rx_body' = rx_body
  <2>1. StateFollowsBytes'
    BY <1>1, <1>9 DEF ParserOK, StateFollowsBytes
  <2>2. Left' = 1
    BY <1>9 DEF Left
  <2>3. Left = 2
    BY <1>1, <1>2, <1>3, <1>9
  <2>4. QED
    BY <1>1, <1>3, <1>9, <2>1, <2>2, <2>3 DEF ParserOK, RxStates
<1>10. QED
  <2>1. CASE OnSof(b)
    BY <1>5, <1>6, <2>1 DEF OnSof
  <2>2. CASE OnLen(b)
    BY <1>3, <1>5, <1>7, <2>2, LinkNumbers DEF OnLen
  <2>3. CASE OnField(b)
    BY <1>8, <2>3 DEF OnField
  <2>4. CASE OnCrc(b)
    BY <1>5, <1>9, <2>4 DEF OnCrc
  <2>5. CASE OnEof(b)
    BY <1>5, <2>5 DEF OnEof
  <2>6. QED
    BY <2>1, <2>2, <2>3, <2>4, <2>5 DEF ProtoFeedByte

-----------------------------------------------------------------------------
(* A parser in step with a frame *)

\* Bytes from SOF to the last of the data whose LEN says how many there are.
IsBody(C) ==
  /\ C \in Seq(Bytes) /\ Len(C) >= HeaderLen /\ Len(C) = HeaderLen + C[2]
  /\ C[1] = SOF /\ C[2] \in 0 .. MaxData

\* The parser has taken the first p bytes of the body C and nothing else.
Reads(C, p) ==
  /\ Len(rx_body) = p /\ (\A i \in 1 .. p : rx_body[i] = C[i])
  /\ rx_state # "WAIT_EOF"

\* It has taken the first p bytes of a frame of that body.
Tracks(C, p) ==
  /\ p <= Len(C) => Reads(C, p)
  /\ p = Len(C) + 1 => rx_state = "WAIT_EOF" /\ rx_body = C

\* The body of the frame, its h-th byte having arrived as another value.
Spoiled(h, c) == [Body(msg, link) EXCEPT ![h] = c]

\* What the parser has taken of a frame whose h-th byte was spoiled and of
\* which p bytes have passed.
SpoiledAt(h, p) ==
  IF p <= Len(Body(msg, link))
  THEN \E c \in Bytes \ {Body(msg, link)[h]} : Reads(Spoiled(h, c), p)
  ELSE rx_state = "WAIT_SOF"

CleanTracked ==
  clean /\ Intact =>
    IF FrameEnded THEN rx_state = "WAIT_SOF" /\ got = <<msg>>
    ELSE got = <<>> /\ Tracks(Body(msg, link), pos)

CleanSpoiled ==
  clean /\ OneByteChanged =>
    frame # <<>> /\ got = <<>> /\ hits[1][2] <= pos /\ SpoiledAt(hits[1][2], pos)

\* What may be lost: a false frame as long as the parser can hold, then the
\* rest of the frame in which it ended.
Held == MaxData + 5
MostLost == Held + LongestFrame - 1

Returned == {got[i] : i \in 1 .. Len(got)}

\* In step with the frame; past its SOF without having seen it; or in a false
\* frame, which ends before more than Held bytes have gone into it.
InStep == IF FrameEnded THEN msg \in Returned ELSE Tracks(Body(msg, link), pos)
PastSof == rx_state = "WAIT_SOF" /\ pos >= 1 /\ lost + Len(frame) <= MostLost
InFalseFrame == rx_state # "WAIT_SOF" /\ lost + pos + Left <= Held

LossCounted ==
  /\ lost <= MostLost
  /\ Intact /\ ~ HasInnerSof => InStep \/ PastSof \/ InFalseFrame

-----------------------------------------------------------------------------
(* One byte fed to a parser in step *)

LEMMA BodyIsBody ==
  ASSUME link \in Links, NEW m \in Messages
  PROVE  IsBody(Body(m, link)) /\ (\A h \in 3 .. Len(Body(m, link)), c \in Bytes : IsBody([Body(m, link) EXCEPT ![h] = c]))
<1> DEFINE B == Body(m, link)
           k == Len(m.data)
<1>1. /\ B \in Seq(Bytes) /\ Len(B) = HeaderLen + k /\ k \in 0 .. MaxData
      /\ B[1] = SOF /\ B[2] = k
  BY BodyIs
<1>2. HeaderLen \in {3, 4}
  BY HeaderLenIs
<1> HIDE DEF B, k
<1>3. IsBody(B)
  BY <1>1, <1>2 DEF IsBody
<1>4. ASSUME NEW h \in 3 .. Len(B), NEW c \in Bytes
      PROVE  IsBody([B EXCEPT ![h] = c])
  <2>1. [B EXCEPT ![h] = c] \in Seq(Bytes) /\ Len([B EXCEPT ![h] = c]) = Len(B)
    BY <1>1, ExceptSeq
  <2>2. [B EXCEPT ![h] = c][1] = B[1] /\ [B EXCEPT ![h] = c][2] = B[2]
    BY <1>1, <1>2
  <2>3. QED
    BY <1>1, <1>2, <2>1, <2>2 DEF IsBody
<1>5. QED
  BY <1>3, <1>4 DEF B

\* A byte of the body is accumulated, whatever its value.
LEMMA FeedBody ==
  ASSUME link \in Links, ParserOK, link' = link, NEW C, IsBody(C), NEW p \in Nat, p < Len(C), Reads(C, p),
         ProtoFeedByte(C[p + 1])
  PROVE  /\ Len(rx_body') = p + 1 /\ (\A i \in 1 .. p + 1 : rx_body'[i] = C[i])
         /\ rx_state' # "WAIT_EOF" /\ got' = got
<1> DEFINE b == C[p + 1]
           l == C[2]
<1>1. /\ C \in Seq(Bytes) /\ Len(C) \in Nat /\ Len(C) >= HeaderLen /\ Len(C) = HeaderLen + l
      /\ C[1] = SOF /\ l \in 0 .. MaxData
  BY DEF IsBody
<1>2. HeaderLen \in {3, 4} /\ SOF <= MaxData /\ MaxData \in Nat
  BY HeaderLenIs, LinkNumbers
<1>3. b \in Bytes
  <2>1. PICK q \in Nat : q = p + 1
    OBVIOUS
  <2>2. q \in 1 .. Len(C)
    BY <1>1, <2>1
  <2>3. C[q] \in Bytes
    BY <1>1, <2>2, ElementOfSeq
  <2>4. QED
    BY <2>1, <2>3
<1>4. /\ Len(rx_body) = p /\ (\A i \in 1 .. p : rx_body[i] = C[i])
      /\ rx_state # "WAIT_EOF" /\ rx_state \in RxStates
  BY DEF Reads, ParserOK
<1>5. /\ rx_state = "WAIT_SOF" => p = 0
      /\ rx_state = "WAIT_LEN" => p = 1
      /\ rx_state # "WAIT_CRC"
      /\ p = 0 => rx_state = "WAIT_SOF"
      /\ p = 1 => rx_state = "WAIT_LEN"
  <2>1. /\ (rx_state = "WAIT_SOF") <=> (p = 0)
        /\ (rx_state = "WAIT_LEN") <=> (p = 1)
        /\ rx_state = "WAIT_CRC" => p >= HeaderLen /\ p = HeaderLen + rx_body[2]
    BY <1>4 DEF ParserOK, StateFollowsBytes
  <2>2. p >= 2 => rx_body[2] = l
    BY <1>4
  <2>3. rx_state # "WAIT_CRC"
    BY <1>1, <1>2, <2>1, <2>2
  <2>4. QED
    BY <2>1, <2>3
<1>6. ASSUME NEW s, Accumulate(b, s)
      PROVE  /\ Len(rx_body') = p + 1 /\ (\A i \in 1 .. p + 1 : rx_body'[i] = C[i])
             /\ rx_state' = s
  <2>1. /\ rx_state' = s /\ Len(rx_body') = p + 1 /\ rx_body'[p + 1] = b
        /\ \A i \in 1 .. p : rx_body'[i] = rx_body[i]
    BY <1>3, <1>4, <1>6, Accumulated
  <2>2. ASSUME NEW i \in 1 .. p + 1
        PROVE  rx_body'[i] = C[i]
    <3>1. CASE i = p + 1
      BY <2>1, <3>1
    <3>2. CASE i # p + 1
      <4>1. i \in 1 .. p
        BY <3>2
      <4>2. QED
        BY <1>4, <2>1, <4>1
    <3>3. QED
      BY <3>1, <3>2
  <2>3. QED
    BY <2>1, <2>2
<1>7. CASE OnSof(b)
  <2>1. p = 0 /\ b = SOF
    BY <1>1, <1>5, <1>7 DEF OnSof
  <2>2. Accumulate(b, "WAIT_LEN") /\ got' = got
    BY <1>7, <2>1 DEF OnSof
  <2>3. QED
    BY <1>6, <2>2
<1>8. CASE OnLen(b)
  <2>1. p = 1 /\ ~ (b > MaxData)
    BY <1>1, <1>2, <1>5, <1>8 DEF OnLen
  <2>2. Accumulate(b, "WAIT_CMD") /\ got' = got
    BY <1>8, <2>1 DEF OnLen
  <2>3. QED
    BY <1>6, <2>2
<1>9. CASE OnField(b)
  <2>1. Accumulate(b, AfterBytes(Len(rx_body) + 1)) /\ got' = got
    BY <1>9 DEF OnField
  <2>2. AfterBytes(Len(rx_body) + 1) # "WAIT_EOF"
    BY DEF AfterBytes
  <2>3. QED
    BY <1>6, <2>1, <2>2
<1>10. QED
  BY <1>4, <1>5, <1>7, <1>8, <1>9 DEF ProtoFeedByte, OnCrc, OnEof

\* After the body comes the CRC byte: it is the body's, or the parser is empty.
LEMMA FeedCrc ==
  ASSUME link \in Links, ParserOK, link' = link, NEW C, IsBody(C), Reads(C, Len(C)),
         NEW b, ProtoFeedByte(b)
  PROVE  /\ b = Crc(C) => rx_state' = "WAIT_EOF" /\ rx_body' = C
         /\ b # Crc(C) => rx_state' = "WAIT_SOF"
         /\ got' = got
<1> DEFINE n == Len(C)
           l == C[2]
<1>1. C \in Seq(Bytes) /\ n \in Nat /\ n >= HeaderLen /\ n = HeaderLen + l /\ l \in 0 .. MaxData
  BY DEF IsBody
<1>2. HeaderLen \in {3, 4}
  BY HeaderLenIs
<1>3. /\ Len(rx_body) = n /\ (\A i \in 1 .. n : rx_body[i] = C[i])
      /\ rx_state # "WAIT_EOF" /\ rx_state \in RxStates
  BY DEF Reads, ParserOK
<1>4. rx_body = C
  BY <1>1, <1>3, SeqEqual DEF ParserOK
<1>5. rx_state = "WAIT_CRC"
  <2>1. n = HeaderLen + rx_body[2]
    BY <1>1, <1>4
  <2>2. rx_state \in {"WAIT_CRC", "WAIT_EOF"}
    BY <1>1, <1>3, <2>1 DEF ParserOK, StateFollowsBytes
  <2>3. QED
    BY <1>3, <2>2
<1>6. OnCrc(b)
  BY <1>5 DEF ProtoFeedByte, OnSof, OnLen, OnField, OnEof
<1>7. QED
  BY <1>4, <1>6 DEF OnCrc, Restart

\* The last byte ends the frame, which is returned if the byte is EOF.
LEMMA FeedEof ==
  ASSUME rx_state = "WAIT_EOF", NEW b, ProtoFeedByte(b)
  PROVE  rx_state' = "WAIT_SOF" /\ got' = IF b = EOF THEN Append(got, Received) ELSE got
<1>1. OnEof(b)
  BY DEF ProtoFeedByte, OnSof, OnLen, OnField, OnCrc
<1>2. QED
  BY <1>1 DEF OnEof, Restart

\* An empty parser stays empty until a SOF.
LEMMA FeedIdle ==
  ASSUME rx_state = "WAIT_SOF", NEW b, b # SOF, ProtoFeedByte(b)
  PROVE  rx_state' = "WAIT_SOF" /\ got' = got
<1>1. OnSof(b)
  BY DEF ProtoFeedByte, OnEof, OnLen, OnField, OnCrc
<1>2. QED
  BY <1>1 DEF OnSof, Restart

\* What is returned for the body of a message is the message.
LEMMA ReceivedIs ==
  ASSUME link \in Links, msg \in Messages, link.seq \/ msg.seq = 0, rx_body = Body(msg, link)
  PROVE  Received = msg
<1> DEFINE B == Body(msg, link)
           d == msg.data
<1>1. /\ B \in Seq(Bytes) /\ Len(B) = HeaderLen + Len(d) /\ Len(d) \in Nat
      /\ B[3] = msg.cmd /\ (link.seq => B[4] = msg.seq)
      /\ \A i \in 1 .. Len(d) : B[HeaderLen + i] = d[i]
  BY BodyIs
<1>2. HeaderLen \in {3, 4} /\ link.seq \in BOOLEAN
  BY HeaderLenIs
<1>3. msg = [cmd |-> msg.cmd, seq |-> msg.seq, data |-> d] /\ d \in Seq(Bytes)
  BY MessageAssumption
<1> DEFINE r == SubSeq(B, HeaderLen + 1, Len(B))
<1> HIDE DEF B
<1>4. r = d
  <2>1. PICK u \in Int : u = HeaderLen + 1
    BY <1>2
  <2>2. PICK v \in Int : v = Len(B)
    BY <1>1
  <2>3. \A i \in u .. v : B[i] \in Bytes
    BY <1>1, <1>2, <2>1, <2>2, ElementOfSeq
  <2>4. /\ SubSeq(B, u, v) \in Seq(Bytes)
        /\ Len(SubSeq(B, u, v)) = IF u <= v THEN v - u + 1 ELSE 0
        /\ \A i \in 1 .. v - u + 1 : SubSeq(B, u, v)[i] = B[u + i - 1]
    BY <2>3, SubSeqProperties
  <2>5. Len(SubSeq(B, u, v)) = Len(d)
    BY <1>1, <1>2, <2>1, <2>2, <2>4
  <2>6. ASSUME NEW i \in 1 .. Len(d)
        PROVE  SubSeq(B, u, v)[i] = d[i]
    <3>1. i \in 1 .. v - u + 1 /\ u + i - 1 = HeaderLen + i
      BY <1>1, <1>2, <2>1, <2>2
    <3>2. QED
      BY <1>1, <2>4, <3>1
  <2>7. SubSeq(B, u, v) = d
    BY <1>3, <2>4, <2>5, <2>6, SeqEqual
  <2>8. QED
    BY <2>1, <2>2, <2>7
<1>5. Received = [cmd |-> B[3], seq |-> IF link.seq THEN B[4] ELSE 0, data |-> r]
  BY DEF Received, B
<1>6. QED
  BY <1>1, <1>2, <1>3, <1>4, <1>5

-----------------------------------------------------------------------------
(* Types *)

Frames == [cmd : Bytes, seq : Bytes, data : Seq(Bytes)]
Kinds == {"changed", "lost", "inserted"}

\* What every variable holds; got needs it to be a sequence, and the bytes
\* that the frame being read can still take are bounded.
Typed ==
  /\ link \in Links /\ msg \in Messages
  /\ frame \in Seq(Bytes) /\ pos \in 0 .. Len(frame)
  /\ hits \in Seq(Kinds \X Nat) /\ clean \in BOOLEAN
  /\ lost \in Nat /\ faults \in 0 .. MaxFaults
  /\ got \in Seq(Frames) /\ ParserOK
  /\ Left \in 0 .. HeaderLen + MaxData + 1 /\ (rx_state # "WAIT_SOF" => Left >= 1)

LEMMA MessagesAreFrames ==
  ASSUME NEW m \in Messages
  PROVE  m \in Frames
<1>1. m = [cmd |-> m.cmd, seq |-> m.seq, data |-> m.data]
      /\ m.cmd \in Bytes /\ m.seq \in Bytes /\ m.data \in Seq(Bytes)
  BY MessageAssumption
<1>2. [cmd |-> m.cmd, seq |-> m.seq, data |-> m.data] \in Frames
  BY <1>1 DEF Frames
<1>3. QED
  BY <1>1, <1>2

\* A frame is returned only when it is complete, so it has all its fields.
LEMMA ReceivedTyped ==
  ASSUME link \in Links, ParserOK, rx_state = "WAIT_EOF"
  PROVE  Received \in Frames
<1> DEFINE n == Len(rx_body)
<1>1. rx_body \in Seq(Bytes) /\ n \in Nat /\ n >= HeaderLen
  BY StateSays DEF ParserOK
<1>2. HeaderLen \in {3, 4} /\ link.seq \in BOOLEAN /\ HeaderLen = (IF link.seq THEN 4 ELSE 3)
  BY HeaderLenIs
<1>3. rx_body[3] \in Bytes
  <2>1. 3 \in 1 .. n
    BY <1>1, <1>2
  <2>2. QED
    BY <1>1, <2>1, ElementOfSeq
<1>4. (IF link.seq THEN rx_body[4] ELSE 0) \in Bytes
  <2>1. CASE link.seq
    <3>1. 4 \in 1 .. n
      BY <1>1, <1>2, <2>1
    <3>2. rx_body[4] \in Bytes
      BY <1>1, <3>1, ElementOfSeq
    <3>3. QED
      BY <2>1, <3>2
  <2>2. CASE ~ link.seq
    BY <2>2, LinkNumbers DEF Bytes
  <2>3. QED
    BY <1>2, <2>1, <2>2
<1>5. SubSeq(rx_body, HeaderLen + 1, n) \in Seq(Bytes)
  <2>1. PICK u \in Int : u = HeaderLen + 1
    BY <1>2
  <2>2. \A i \in u .. n : rx_body[i] \in Bytes
    BY <1>1, <1>2, <2>1, ElementOfSeq
  <2>3. SubSeq(rx_body, u, n) \in Seq(Bytes)
    BY <1>1, <2>2, SubSeqProperties
  <2>4. QED
    BY <2>1, <2>3
<1>6. QED
  BY <1>3, <1>4, <1>5 DEF Received, Frames

\* A byte fed leaves every parser variable with its type.
LEMMA FeedTyped ==
  ASSUME Typed, link' = link, NEW b \in Bytes, ProtoFeedByte(b)
  PROVE  /\ got' \in Seq(Frames) /\ ParserOK'
         /\ (Left \in 0 .. HeaderLen + MaxData + 1)' /\ (rx_state # "WAIT_SOF" => Left >= 1)'
         /\ rx_state # "WAIT_SOF" => Left' <= Left - 1
<1>1. got' \in Seq(Frames)
  <2>1. CASE OnEof(b)
    <3>1. Received \in Frames /\ got \in Seq(Frames)
      BY <2>1, ReceivedTyped DEF OnEof, Typed
    <3>2. Append(got, Received) \in Seq(Frames)
      BY <3>1, AppendProperties
    <3>3. QED
      BY <2>1, <3>1, <3>2 DEF OnEof
  <2>2. CASE ~ OnEof(b)
    BY <2>2 DEF ProtoFeedByte, OnSof, OnLen, OnField, OnCrc, Typed
  <2>3. QED
    BY <2>1, <2>2
<1>2. HeaderLen' = HeaderLen
  BY DEF HeaderLen
<1>3. QED
  BY <1>1, <1>2, FeedKeeps DEF Typed

\* The byte on the wire is the next of the frame.
LEMMA NextByte ==
  ASSUME Typed, ~ FrameEnded
  PROVE  frame[pos + 1] \in Bytes /\ pos + 1 \in 0 .. Len(frame) /\ pos \in Nat /\ Len(frame) \in Nat
         /\ pos < Len(frame)
<1>1. pos \in Nat /\ Len(frame) \in Nat /\ pos < Len(frame) /\ frame \in Seq(Bytes)
  BY DEF Typed, FrameEnded
<1>2. PICK q \in Nat : q = pos + 1
  BY <1>1
<1>3. q \in 1 .. Len(frame)
  BY <1>1, <1>2
<1>4. frame[q] \in Bytes
  BY <1>1, <1>3, ElementOfSeq
<1>5. QED
  BY <1>1, <1>2, <1>3, <1>4

LEMMA InitTyped ==
  ASSUME Init
  PROVE  Typed
<1>1. /\ link \in Links /\ msg \in Messages /\ frame = <<>> /\ pos = 0 /\ hits = <<>>
      /\ clean = TRUE /\ lost = 0 /\ faults = 0 /\ got = <<msg>>
      /\ rx_state = "WAIT_SOF" /\ rx_body = <<>>
  BY DEF Init
<1>2. frame \in Seq(Bytes) /\ hits \in Seq(Kinds \X Nat) /\ rx_body \in Seq(Bytes) /\ Len(frame) = 0 /\ Len(rx_body) = 0
  BY <1>1, EmptySeq
<1>3. got \in Seq(Frames)
  BY <1>1, MessagesAreFrames
<1>4. HeaderLen \in {3, 4} /\ MaxData \in Nat
  BY <1>1, HeaderLenIs, LinkNumbers
<1>5. StateFollowsBytes
  BY <1>1, <1>2, <1>4 DEF StateFollowsBytes
<1>6. ParserOK /\ Left = 0
  BY <1>1, <1>2, <1>5 DEF ParserOK, RxStates, Left
<1>7. QED
  BY <1>1, <1>2, <1>3, <1>4, <1>6, WireAssumption DEF Typed

\* The reset of the parser: what the silence of a receiver with a timer does.
LEMMA ResetKeeps ==
  ASSUME Typed, link' = link, NEW silence \in BOOLEAN, ProtoResetRx(silence)
  PROVE  /\ ParserOK' /\ (Left \in 0 .. HeaderLen + MaxData + 1)' /\ (rx_state # "WAIT_SOF" => Left >= 1)'
         /\ (rx_state' = rx_state /\ Left' = Left) \/ rx_state' = "WAIT_SOF"
         /\ rx_state = "WAIT_SOF" => rx_state' = "WAIT_SOF"
         /\ silence /\ link.idle => rx_state' = "WAIT_SOF"
<1>1. HeaderLen' = HeaderLen /\ HeaderLen \in {3, 4} /\ MaxData \in Nat
  BY HeaderLenIs, LinkNumbers DEF HeaderLen, Typed
<1>2. CASE silence /\ link.idle
  <2>1. Restart
    BY <1>2 DEF ProtoResetRx
  <2>2. ParserOK' /\ Left' = 0 /\ rx_state' = "WAIT_SOF"
    BY <2>1, EmptyParser DEF Typed
  <2>3. QED
    BY <1>1, <2>2
<1>3. CASE ~ (silence /\ link.idle)
  <2>1. rx_state' = rx_state /\ rx_body' = rx_body
    BY <1>3 DEF ProtoResetRx
  <2>2. (ParserOK' <=> ParserOK) /\ Left' = Left
    BY <1>1, <2>1 DEF ParserOK, StateFollowsBytes, Left, HeaderLen
  <2>3. QED
    BY <1>1, <1>3, <2>1, <2>2 DEF Typed
<1>4. QED
  BY <1>2, <1>3

LEMMA SendTyped ==
  ASSUME Typed, NEW m \in Messages, NEW silence \in BOOLEAN, SendFrame(m, silence)
  PROVE  Typed'
<1>1. /\ msg' = m /\ frame' = BuildFrame(m) /\ pos' = 0 /\ hits' = <<>> /\ got' = <<>>
      /\ clean' = (Undisturbed \/ (silence /\ link.idle))
      /\ link' = link /\ faults' = faults /\ ProtoResetRx(silence)
  BY DEF SendFrame
<1>2. frame' \in Seq(Bytes) /\ Len(frame') \in Nat
  BY <1>1, BuildFrameIs DEF Typed
<1>3. clean' \in BOOLEAN
  BY <1>1
<1>4. lost' \in Nat
  <2>1. lost \in Nat /\ Len(frame) \in Nat
    BY DEF Typed
  <2>2. lost' = 0 \/ lost' = lost + Len(frame)
    BY DEF SendFrame
  <2>3. QED
    BY <2>1, <2>2
<1>5. hits' \in Seq(Kinds \X Nat) /\ got' \in Seq(Frames)
  BY <1>1, EmptySeq
<1>6. QED
  BY <1>1, <1>2, <1>3, <1>4, <1>5, ResetKeeps DEF Typed

LEMMA DeliverTyped ==
  ASSUME Typed, Deliver
  PROVE  Typed'
<1>1. /\ ~ FrameEnded /\ pos' = pos + 1 /\ ProtoFeedByte(frame[pos + 1])
      /\ link' = link /\ msg' = msg /\ frame' = frame /\ hits' = hits /\ clean' = clean
      /\ lost' = lost /\ faults' = faults
  BY DEF Deliver
<1>2. frame[pos + 1] \in Bytes /\ pos + 1 \in 0 .. Len(frame)
  BY <1>1, NextByte
<1>3. /\ got' \in Seq(Frames) /\ ParserOK'
      /\ (Left \in 0 .. HeaderLen + MaxData + 1)' /\ (rx_state # "WAIT_SOF" => Left >= 1)'
  BY <1>1, <1>2, FeedTyped
<1>4. QED
  BY <1>1, <1>2, <1>3 DEF Typed

\* A disturbance counts itself and notes its place.
LEMMA DisturbIs ==
  ASSUME Typed, NEW kind \in Kinds, Disturb(kind)
  PROVE  /\ ~ FrameEnded /\ faults' \in 0 .. MaxFaults
         /\ hits' \in Seq(Kinds \X Nat) /\ Len(hits') = Len(hits) + 1
         /\ hits' = Append(hits, <<kind, pos + 1>>)
         /\ hits' # <<>> /\ (hits = <<>> => hits'[1] = <<kind, pos + 1>>)
         /\ link' = link /\ msg' = msg /\ frame' = frame /\ clean' = clean /\ lost' = lost
<1>1. pos + 1 \in Nat /\ hits \in Seq(Kinds \X Nat)
  BY DEF Typed
<1>2. hits' = Append(hits, <<kind, pos + 1>>) /\ <<kind, pos + 1>> \in Kinds \X Nat
  BY <1>1 DEF Disturb
<1>3. /\ hits' \in Seq(Kinds \X Nat) /\ Len(hits') = Len(hits) + 1 /\ hits' # <<>>
      /\ hits'[Len(hits) + 1] = <<kind, pos + 1>>
  BY <1>1, <1>2, AppendProperties
<1>4. hits = <<>> => hits'[1] = <<kind, pos + 1>>
  BY <1>2
<1>5. faults' \in 0 .. MaxFaults
  BY WireAssumption DEF Disturb, Typed
<1>6. QED
  BY <1>2, <1>3, <1>4, <1>5 DEF Disturb

LEMMA ChangeTyped ==
  ASSUME Typed, NEW b \in Noise, ChangeByte(b)
  PROVE  Typed'
<1>1. Disturb("changed") /\ pos' = pos + 1 /\ ProtoFeedByte(b) /\ b \in Bytes /\ "changed" \in Kinds
  BY WireAssumption DEF ChangeByte, Kinds
<1>2. /\ ~ FrameEnded /\ faults' \in 0 .. MaxFaults /\ hits' \in Seq(Kinds \X Nat)
      /\ link' = link /\ msg' = msg /\ frame' = frame /\ clean' = clean /\ lost' = lost
  BY <1>1, DisturbIs
<1>3. pos + 1 \in 0 .. Len(frame)
  BY <1>2, NextByte
<1>4. /\ got' \in Seq(Frames) /\ ParserOK'
      /\ (Left \in 0 .. HeaderLen + MaxData + 1)' /\ (rx_state # "WAIT_SOF" => Left >= 1)'
  BY <1>1, <1>2, FeedTyped
<1>5. QED
  BY <1>1, <1>2, <1>3, <1>4 DEF Typed

LEMMA InsertTyped ==
  ASSUME Typed, NEW b \in Noise, InsertByte(b)
  PROVE  Typed'
<1>1. Disturb("inserted") /\ pos' = pos /\ ProtoFeedByte(b) /\ b \in Bytes /\ "inserted" \in Kinds
  BY WireAssumption DEF InsertByte, Kinds
<1>2. /\ faults' \in 0 .. MaxFaults /\ hits' \in Seq(Kinds \X Nat)
      /\ link' = link /\ msg' = msg /\ frame' = frame /\ clean' = clean /\ lost' = lost
  BY <1>1, DisturbIs
<1>3. /\ got' \in Seq(Frames) /\ ParserOK'
      /\ (Left \in 0 .. HeaderLen + MaxData + 1)' /\ (rx_state # "WAIT_SOF" => Left >= 1)'
  BY <1>1, <1>2, FeedTyped
<1>4. QED
  BY <1>1, <1>2, <1>3 DEF Typed

\* A step that leaves the parser and the direction alone.
LEMMA QuietKeeps ==
  ASSUME Typed, link' = link, UNCHANGED parser
  PROVE  /\ got' \in Seq(Frames) /\ ParserOK' /\ Left' = Left
         /\ (Left \in 0 .. HeaderLen + MaxData + 1)' /\ (rx_state # "WAIT_SOF" => Left >= 1)'
<1>1. rx_state' = rx_state /\ rx_body' = rx_body /\ got' = got /\ HeaderLen' = HeaderLen
  BY DEF parser, HeaderLen
<1>2. (ParserOK' <=> ParserOK) /\ Left' = Left
  BY <1>1 DEF ParserOK, StateFollowsBytes, Left, HeaderLen
<1>3. QED
  BY <1>1, <1>2 DEF Typed

LEMMA LoseTyped ==
  ASSUME Typed, LoseByte
  PROVE  Typed'
<1>1. Disturb("lost") /\ pos' = pos + 1 /\ UNCHANGED parser /\ "lost" \in Kinds
  BY DEF LoseByte, Kinds
<1>2. /\ ~ FrameEnded /\ faults' \in 0 .. MaxFaults /\ hits' \in Seq(Kinds \X Nat)
      /\ link' = link /\ msg' = msg /\ frame' = frame /\ clean' = clean /\ lost' = lost
  BY <1>1, DisturbIs
<1>3. pos + 1 \in 0 .. Len(frame)
  BY <1>2, NextByte
<1>4. QED
  BY <1>1, <1>2, <1>3, QuietKeeps DEF Typed

LEMMA StutterTyped ==
  ASSUME Typed, UNCHANGED vars
  PROVE  Typed'
<1>1. link' = link /\ UNCHANGED parser
  BY DEF vars, parser
<1>2. QED
  BY <1>1, QuietKeeps DEF Typed, vars

LEMMA NextTyped ==
  ASSUME Typed, [Next]_vars
  PROVE  Typed'
  BY SendTyped, DeliverTyped, ChangeTyped, InsertTyped, LoseTyped, StutterTyped DEF Next

LEMMA AlwaysTyped == Spec => []Typed
<1>1. Init => Typed
  BY InitTyped
<1>2. Typed /\ [Next]_vars => Typed'
  BY NextTyped
<1>3. QED
  BY <1>1, <1>2, PTL DEF Spec

\* proto_feed_byte never stores a byte past data[PROTO_MAX_DATA], and the state
\* of the parser is the one its bytes call for, whatever arrives.
THEOREM FrameTypes == Spec => []FrameTypeOK
<1>1. Typed => FrameTypeOK
  BY StateSays DEF Typed, FrameTypeOK, ParserOK
<1>2. QED
  BY <1>1, AlwaysTyped, PTL

-----------------------------------------------------------------------------
(* The frame on the wire *)

\* The frame is the whole message, built for a link that carries it.
FrameIs == frame = <<>> \/ (frame = Whole(msg) /\ (link.seq \/ msg.seq = 0))

LEMMA OnTheWire ==
  ASSUME Typed, FrameIs, frame # <<>>
  PROVE  LET B == Body(msg, link) IN
         /\ link.seq \/ msg.seq = 0
         /\ IsBody(B) /\ Len(B) \in Nat /\ Len(B) >= 3 /\ Len(frame) = Len(B) + 2
         /\ Len(B) <= 4 + Len(msg.data)
         /\ frame[Len(B) + 1] = Crc(B) /\ frame[Len(B) + 2] = EOF
         /\ \A i \in 1 .. Len(B) : frame[i] = B[i]
<1>1. link \in Links /\ msg \in Messages /\ frame = Whole(msg) /\ (link.seq \/ msg.seq = 0)
  BY DEF Typed, FrameIs
<1>2. HeaderLen \in {3, 4}
  BY <1>1, HeaderLenIs
<1>3. Len(Body(msg, link)) = HeaderLen + Len(msg.data) /\ Len(msg.data) \in Nat
  BY <1>1, BodyIs
<1>4. Len(Body(msg, link)) \in Nat /\ Len(Body(msg, link)) >= 3 /\ Len(Body(msg, link)) <= 4 + Len(msg.data)
  BY <1>2, <1>3
<1>5. IsBody(Body(msg, link))
  BY <1>1, BodyIsBody
<1>6. QED
  BY <1>1, <1>4, <1>5, WholeIs

LEMMA FrameIsKept ==
  ASSUME IndexHolds, Typed, FrameIs, [Next]_vars
  PROVE  FrameIs'
<1>1. ASSUME NEW m \in Messages, NEW silence \in BOOLEAN, SendFrame(m, silence)
      PROVE  FrameIs'
  <2>1. frame' = BuildFrame(m) /\ msg' = m /\ link' = link /\ (link.seq \/ m.seq = 0)
    BY <1>1 DEF SendFrame
  <2>2. BuildFrame(m) = Whole(m)
    BY BuildFrameIs DEF Typed
  <2>3. Whole(msg)' = Whole(m)
    BY <2>1 DEF Whole
  <2>4. QED
    BY <2>1, <2>2, <2>3 DEF FrameIs
<1>2. ASSUME link' = link, msg' = msg, frame' = frame
      PROVE  FrameIs'
  <2>1. Whole(msg)' = Whole(msg)
    BY <1>2 DEF Whole
  <2>2. QED
    BY <1>2, <2>1 DEF FrameIs
<1>3. QED
  BY <1>1, <1>2 DEF Next, Deliver, LoseByte, ChangeByte, InsertByte, Disturb, vars

\* One byte of the frame, delivered to a parser in step with it.
LEMMA FeedInStep ==
  ASSUME Typed, FrameIs, ~ FrameEnded, Tracks(Body(msg, link), pos),
         pos' = pos + 1, link' = link, msg' = msg, frame' = frame, ProtoFeedByte(frame[pos + 1])
  PROVE  /\ ~ FrameEnded' => got' = got /\ Tracks(Body(msg, link), pos)'
         /\ FrameEnded' => rx_state' = "WAIT_SOF" /\ got' = Append(got, msg)
<1> DEFINE B == Body(msg, link)
           n == Len(B)
<1>1. pos \in Nat /\ pos < Len(frame) /\ frame # <<>> /\ ParserOK /\ link \in Links /\ msg \in Messages
  <2>1. pos \in Nat /\ pos < Len(frame)
    BY NextByte
  <2>2. frame # <<>>
    BY <2>1
  <2>3. QED
    BY <2>1, <2>2 DEF Typed
<1>2. /\ link.seq \/ msg.seq = 0
      /\ IsBody(B) /\ n \in Nat /\ n >= 3 /\ Len(frame) = n + 2
      /\ frame[n + 1] = Crc(B) /\ frame[n + 2] = EOF
      /\ \A i \in 1 .. n : frame[i] = B[i]
  BY <1>1, OnTheWire
<1>3. B' = B
  OBVIOUS
<1> HIDE DEF B
<1>4. Tracks(B, pos)
  BY DEF B
<1>5. CASE pos < n
  <2>1. Reads(B, pos)
    BY <1>1, <1>2, <1>4, <1>5 DEF Tracks
  <2>2. frame[pos + 1] = B[pos + 1]
    BY <1>1, <1>2, <1>5
  <2>3. /\ Len(rx_body') = pos + 1 /\ (\A i \in 1 .. pos + 1 : rx_body'[i] = B[i])
        /\ rx_state' # "WAIT_EOF" /\ got' = got
    BY <1>1, <1>2, <1>5, <2>1, <2>2, FeedBody
  <2>4. Reads(B, pos)'
    BY <1>3, <2>3 DEF Reads
  <2>5. pos' < Len(frame') /\ ~ (pos' = n + 1)
    BY <1>1, <1>2, <1>5
  <2>6. Tracks(B, pos)'
    BY <1>3, <2>4, <2>5 DEF Tracks
  <2>7. ~ FrameEnded'
    BY <1>1, <2>5 DEF FrameEnded
  <2>8. QED
    BY <2>3, <2>6, <2>7 DEF B
<1>6. CASE pos = n
  <2>1. Reads(B, n)
    BY <1>1, <1>2, <1>4, <1>6 DEF Tracks
  <2>2. rx_state' = "WAIT_EOF" /\ rx_body' = B /\ got' = got
    BY <1>1, <1>2, <1>6, <2>1, FeedCrc
  <2>3. ~ (pos' <= n) /\ pos' # Len(frame')
    BY <1>1, <1>2, <1>6
  <2>4. Tracks(B, pos)'
    BY <1>3, <2>2, <2>3 DEF Tracks
  <2>5. QED
    BY <2>2, <2>3, <2>4 DEF B, FrameEnded
<1>7. CASE pos = n + 1
  <2>1. rx_state = "WAIT_EOF" /\ rx_body = B
    BY <1>1, <1>2, <1>4, <1>7 DEF Tracks
  <2>2. frame[pos + 1] = EOF
    <3>1. pos + 1 = n + 2
      BY <1>2, <1>7
    <3>2. QED
      BY <1>2, <3>1
  <2>3. rx_state' = "WAIT_SOF" /\ got' = Append(got, Received)
    BY <2>1, <2>2, FeedEof
  <2>4. Received = msg
    BY <1>1, <1>2, <2>1, ReceivedIs DEF B
  <2>5. FrameEnded'
    BY <1>2, <1>7 DEF FrameEnded
  <2>6. QED
    BY <2>3, <2>4, <2>5
<1>8. QED
  BY <1>1, <1>2, <1>5, <1>6, <1>7

\* A new frame finds an empty parser in step with it.
LEMMA StartInStep ==
  ASSUME IndexHolds, Typed, NEW m \in Messages, NEW silence \in BOOLEAN, SendFrame(m, silence),
         rx_state' = "WAIT_SOF"
  PROVE  ~ FrameEnded' /\ Tracks(Body(msg, link), pos)'
<1>1. msg' = m /\ frame' = BuildFrame(m) /\ pos' = 0 /\ link' = link /\ BuildFrame(m) = Whole(m)
      /\ link \in Links
  BY BuildFrameIs DEF SendFrame, Typed
<1>2. Len(frame') = Len(Body(m, link)) + 2 /\ Len(Body(m, link)) \in Nat
  BY <1>1, WholeIs, BodyIs
<1>3. Len(rx_body') = 0
  <2>1. Typed'
    BY SendTyped
  <2>2. (rx_state' = "WAIT_SOF") <=> (Len(rx_body') = 0)
    BY <2>1 DEF Typed, ParserOK, StateFollowsBytes
  <2>3. QED
    BY <2>2
<1>4. ~ FrameEnded'
  BY <1>1, <1>2 DEF FrameEnded
<1>5. Reads(Body(msg, link), pos)'
  BY <1>1, <1>3 DEF Reads
<1>6. ~ (pos' = Len(Body(m, link)) + 1)
  BY <1>1, <1>2
<1>7. Tracks(Body(msg, link), pos)'
  BY <1>1, <1>5, <1>6 DEF Tracks
<1>8. QED
  BY <1>4, <1>7

-----------------------------------------------------------------------------
(* A link on which nothing, or one byte of the frame, has gone wrong *)

CleanInv == CleanTracked /\ CleanSpoiled

\* Where the spoiled byte is, and that the spoiled body is as long as the true one.
LEMMA SpoiledIs ==
  ASSUME Typed, FrameIs, frame # <<>>, NEW h \in Nat, h > 2, h <= Len(Body(msg, link)), NEW c \in Bytes
  PROVE  /\ IsBody(Spoiled(h, c)) /\ Len(Spoiled(h, c)) = Len(Body(msg, link))
         /\ \A i \in 1 .. Len(Body(msg, link)) :
              Spoiled(h, c)[i] = IF i = h THEN c ELSE Body(msg, link)[i]
         /\ c # Body(msg, link)[h] => Crc(Spoiled(h, c)) # Crc(Body(msg, link))
<1> DEFINE B == Body(msg, link)
<1>1. link \in Links /\ msg \in Messages /\ h \in 3 .. Len(B)
  <2>1. Len(B) \in Nat
    BY OnTheWire
  <2>2. QED
    BY <2>1 DEF Typed
<1>2. B \in Seq(Bytes) /\ Len(B) \in Nat
  BY <1>1, BodyIs
<1>3. IsBody(Spoiled(h, c))
  BY <1>1, BodyIsBody DEF Spoiled
<1>4. c # B[h] => Crc(Spoiled(h, c)) # Crc(B)
  BY <1>1, CrcOneByteAssumption DEF Spoiled
<1>5. Len([B EXCEPT ![h] = c]) = Len(B) /\ \A i \in 1 .. Len(B) : [B EXCEPT ![h] = c][i] = IF i = h THEN c ELSE B[i]
  <2> HIDE DEF B
  <2>1. QED
    BY <1>1, <1>2
<1>6. QED
  BY <1>3, <1>4, <1>5 DEF Spoiled

\* The byte with another value.
LEMMA FeedSpoiledByte ==
  ASSUME Typed, FrameIs, ~ FrameEnded, Tracks(Body(msg, link), pos), pos >= 2,
         NEW b \in Bytes, b # frame[pos + 1], ProtoFeedByte(b),
         NEW h \in Nat, h = pos + 1, pos' = h, link' = link, msg' = msg, frame' = frame
  PROVE  got' = got /\ SpoiledAt(h, h)'
<1> DEFINE B == Body(msg, link)
           n == Len(B)
<1>1. pos \in Nat /\ pos < Len(frame) /\ frame # <<>> /\ ParserOK /\ link \in Links
  <2>1. pos \in Nat /\ pos < Len(frame)
    BY NextByte
  <2>2. frame # <<>>
    BY <2>1
  <2>3. QED
    BY <2>1, <2>2 DEF Typed
<1>2. /\ IsBody(B) /\ n \in Nat /\ n >= 3 /\ Len(frame) = n + 2
      /\ frame[n + 1] = Crc(B) /\ frame[n + 2] = EOF
      /\ \A i \in 1 .. n : frame[i] = B[i]
  BY <1>1, OnTheWire
<1>3. B' = B
  OBVIOUS
<1>4. h = pos + 1
  OBVIOUS
<1>5. CASE pos < n
  <2>1. h > 2 /\ h <= n /\ h \in 1 .. n /\ frame[h] = B[h]
    BY <1>1, <1>2, <1>4, <1>5
  <2> DEFINE C == Spoiled(h, b)
  <2>2. IsBody(C) /\ Len(C) = n /\ \A i \in 1 .. n : C[i] = IF i = h THEN b ELSE B[i]
    BY <1>1, <2>1, SpoiledIs
  <2>3. C' = C
    BY DEF Spoiled
  <2> HIDE DEF B, C
  <2>4. Reads(B, pos)
    BY <1>1, <1>2, <1>5 DEF Tracks, B
  <2>5. Reads(C, pos)
    BY <1>1, <1>2, <1>4, <1>5, <2>2, <2>4 DEF Reads
  <2>6. C[pos + 1] = b
    BY <1>4, <2>1, <2>2
  <2>7. /\ Len(rx_body') = pos + 1 /\ (\A i \in 1 .. pos + 1 : rx_body'[i] = C[i])
        /\ rx_state' # "WAIT_EOF" /\ got' = got
    BY <1>1, <1>5, <1>2, <2>2, <2>5, <2>6, FeedBody
  <2>8. Reads(C, h)'
    BY <1>4, <2>3, <2>7 DEF Reads
  <2>9. b \in Bytes \ {B[h]} /\ h <= n
    BY <1>4, <2>1
  <2>10. SpoiledAt(h, h)'
    <3>1. (Bytes \ {B[h]})' = Bytes \ {B[h]}
      BY <1>3, <1>4
    <3>2. Reads(Spoiled(h, b), h)'
      BY <2>8 DEF C
    <3>3. QED
      BY <1>3, <2>9, <3>1, <3>2 DEF SpoiledAt, B
  <2>11. QED
    BY <1>4, <2>7, <2>10
<1>6. CASE pos = n
  <2>1. Reads(B, n)
    BY <1>1, <1>2, <1>6 DEF Tracks
  <2>2. b # Crc(B)
    BY <1>2, <1>6
  <2>3. rx_state' = "WAIT_SOF" /\ got' = got
    BY <1>1, <1>2, <2>1, <2>2, FeedCrc
  <2>4. ~ (h <= n)
    BY <1>2, <1>4, <1>6
  <2>5. SpoiledAt(h, h)'
    BY <2>3, <2>4 DEF SpoiledAt
  <2>6. QED
    BY <1>4, <2>3, <2>5
<1>7. CASE pos = n + 1
  <2>1. rx_state = "WAIT_EOF"
    BY <1>7 DEF Tracks
  <2>2. b # EOF
    <3>1. pos + 1 = n + 2
      BY <1>2, <1>7
    <3>2. QED
      BY <1>2, <3>1
  <2>3. rx_state' = "WAIT_SOF" /\ got' = got
    BY <2>1, <2>2, FeedEof
  <2>4. ~ (h <= n)
    BY <1>2, <1>4, <1>7
  <2>5. SpoiledAt(h, h)'
    BY <2>3, <2>4 DEF SpoiledAt
  <2>6. QED
    BY <1>4, <2>3, <2>5
<1>8. QED
  BY <1>1, <1>2, <1>5, <1>6, <1>7

\* The bytes after it.
LEMMA FeedAfterSpoiled ==
  ASSUME Typed, FrameIs, ~ FrameEnded, NEW h \in Nat, h > 2, h <= pos, SpoiledAt(h, pos),
         ProtoFeedByte(frame[pos + 1]),
         NEW q \in Nat, q = pos + 1, pos' = q, link' = link, msg' = msg, frame' = frame
  PROVE  got' = got /\ SpoiledAt(h, q)'
<1> DEFINE B == Body(msg, link)
           n == Len(B)
<1>1. pos \in Nat /\ pos < Len(frame) /\ frame # <<>> /\ ParserOK /\ link \in Links
  <2>1. pos \in Nat /\ pos < Len(frame)
    BY NextByte
  <2>2. frame # <<>>
    BY <2>1
  <2>3. QED
    BY <2>1, <2>2 DEF Typed
<1>2. /\ IsBody(B) /\ n \in Nat /\ n >= 3 /\ Len(frame) = n + 2
      /\ frame[n + 1] = Crc(B) /\ frame[n + 2] = EOF
      /\ \A i \in 1 .. n : frame[i] = B[i]
  BY <1>1, OnTheWire
<1>3. B' = B
  OBVIOUS
<1>4. q = pos + 1
  OBVIOUS
<1>5. CASE pos <= n
  <2>1. PICK c \in Bytes \ {B[h]} : Reads(Spoiled(h, c), pos)
    BY <1>5 DEF SpoiledAt
  <2>2. h <= n
    BY <1>1, <1>2, <1>5
  <2> DEFINE C == Spoiled(h, c)
  <2>3. /\ IsBody(C) /\ Len(C) = n /\ Crc(C) # Crc(B)
        /\ \A i \in 1 .. n : C[i] = IF i = h THEN c ELSE B[i]
    BY <1>1, <2>1, <2>2, SpoiledIs
  <2>4. C' = C
    BY DEF Spoiled
  <2>5. Reads(C, pos)
    BY <2>1
  <2> HIDE DEF B, C
  <2>6. CASE pos < n
    <3>1. q \in 1 .. n /\ q # h /\ frame[q] = B[q]
      BY <1>1, <1>2, <1>4, <2>6
    <3>2. frame[pos + 1] = C[pos + 1]
      BY <1>4, <2>3, <3>1
    <3>3. /\ Len(rx_body') = pos + 1 /\ (\A i \in 1 .. pos + 1 : rx_body'[i] = C[i])
          /\ rx_state' # "WAIT_EOF" /\ got' = got
      BY <1>1, <1>2, <2>3, <2>5, <2>6, <3>2, FeedBody
    <3>4. Reads(C, q)'
      BY <1>4, <2>4, <3>3 DEF Reads
    <3>5. SpoiledAt(h, q)'
      <4>1. c \in (Bytes \ {B[h]})' /\ q <= n
        BY <1>3, <2>1, <3>1
      <4>2. Reads(Spoiled(h, c), q)'
        BY <3>4 DEF C
      <4>3. QED
        BY <1>3, <4>1, <4>2 DEF SpoiledAt, B
    <3>6. QED
      BY <1>4, <3>3, <3>5
  <2>7. CASE pos = n
    <3>1. Reads(C, Len(C)) /\ frame[pos + 1] # Crc(C)
      BY <1>2, <2>3, <2>5, <2>7
    <3>2. rx_state' = "WAIT_SOF" /\ got' = got
      BY <1>1, <2>3, <3>1, FeedCrc
    <3>3. ~ (q <= n)
      BY <1>2, <1>4, <2>7
    <3>4. SpoiledAt(h, q)'
      BY <1>3, <3>2, <3>3 DEF SpoiledAt, B
    <3>5. QED
      BY <1>4, <3>2, <3>4
  <2>8. QED
    BY <1>1, <1>2, <1>5, <2>6, <2>7
<1>6. CASE ~ (pos <= n)
  <2>1. rx_state = "WAIT_SOF"
    BY <1>6 DEF SpoiledAt
  <2>2. pos = n + 1
    BY <1>1, <1>2, <1>6
  <2>3. frame[pos + 1] = EOF
    <3>1. pos + 1 = n + 2
      BY <1>2, <2>2
    <3>2. QED
      BY <1>2, <3>1
  <2>4. rx_state' = "WAIT_SOF" /\ got' = got
    BY <2>1, <2>3, FeedIdle, LinkNumbers
  <2>5. ~ (q <= n)
    BY <1>1, <1>2, <1>4, <1>6
  <2>6. SpoiledAt(h, q)'
    BY <2>4, <2>5 DEF SpoiledAt
  <2>7. QED
    BY <1>4, <2>4, <2>6
<1>7. QED
  BY <1>5, <1>6

LEMMA CleanSend ==
  ASSUME IndexHolds, Typed, FrameIs, CleanInv,
         NEW m \in Messages, NEW silence \in BOOLEAN, SendFrame(m, silence)
  PROVE  CleanInv'
<1>1. /\ FrameEnded /\ hits' = <<>> /\ got' = <<>> /\ link' = link
      /\ clean' = (Undisturbed \/ (silence /\ link.idle)) /\ ProtoResetRx(silence)
  BY DEF SendFrame
<1>2. Undisturbed => rx_state = "WAIT_SOF"
  <2>1. CASE clean /\ Intact
    BY <1>1, <2>1 DEF CleanInv, CleanTracked
  <2>2. CASE clean /\ OneByteChanged
    <3>1. frame # <<>> /\ SpoiledAt(hits[1][2], pos)
      BY <2>2 DEF CleanInv, CleanSpoiled
    <3>2. Len(frame) = Len(Body(msg, link)) + 2 /\ Len(Body(msg, link)) \in Nat
      BY <3>1, OnTheWire
    <3>3. ~ (pos <= Len(Body(msg, link)))
      BY <1>1, <3>2 DEF FrameEnded
    <3>5. QED
      BY <3>1, <3>3 DEF SpoiledAt
  <2>3. QED
    BY <2>1, <2>2 DEF Undisturbed
<1>3. clean' => rx_state' = "WAIT_SOF"
  BY <1>1, <1>2, ResetKeeps
<1>4. clean' => ~ FrameEnded' /\ Tracks(Body(msg, link), pos)'
  BY <1>3, StartInStep
<1>5. ~ OneByteChanged'
  BY <1>1 DEF OneByteChanged
<1>6. QED
  BY <1>1, <1>4, <1>5 DEF CleanInv, CleanTracked, CleanSpoiled

LEMMA CleanDeliver ==
  ASSUME Typed, FrameIs, CleanInv, Deliver
  PROVE  CleanInv'
<1>1. /\ ~ FrameEnded /\ pos' = pos + 1 /\ ProtoFeedByte(frame[pos + 1])
      /\ link' = link /\ msg' = msg /\ frame' = frame /\ hits' = hits /\ clean' = clean
  BY DEF Deliver
<1>2. CleanTracked'
  <2>1. SUFFICES ASSUME clean, Intact
                 PROVE  IF FrameEnded' THEN rx_state' = "WAIT_SOF" /\ got' = <<msg>>
                        ELSE got' = <<>> /\ Tracks(Body(msg, link), pos)'
    BY <1>1 DEF CleanTracked, Intact
  <2>2. got = <<>> /\ Tracks(Body(msg, link), pos)
    BY <1>1, <2>1 DEF CleanInv, CleanTracked
  <2>3. /\ ~ FrameEnded' => got' = got /\ Tracks(Body(msg, link), pos)'
        /\ FrameEnded' => rx_state' = "WAIT_SOF" /\ got' = Append(got, msg)
    BY <1>1, <2>2, FeedInStep
  <2>4. Append(got, msg) = <<msg>>
    BY <2>2
  <2>5. QED
    BY <2>2, <2>3, <2>4
<1>3. CleanSpoiled'
  <2>1. SUFFICES ASSUME clean, OneByteChanged
                 PROVE  frame # <<>> /\ got' = <<>> /\ hits[1][2] <= pos' /\ SpoiledAt(hits[1][2], pos)'
    BY <1>1 DEF CleanSpoiled, OneByteChanged
  <2>2. frame # <<>> /\ got = <<>> /\ hits[1][2] <= pos /\ SpoiledAt(hits[1][2], pos) /\ hits[1][2] > 2
    BY <2>1 DEF CleanInv, CleanSpoiled, OneByteChanged
  <2>3. hits[1][2] \in Nat
    <3>1. 1 \in 1 .. Len(hits) /\ hits \in Seq(Kinds \X Nat)
      BY <2>1 DEF OneByteChanged, Typed
    <3>2. hits[1] \in Kinds \X Nat
      BY <3>1, ElementOfSeq
    <3>3. QED
      BY <3>2
  <2>4. PICK h \in Nat : h = hits[1][2]
    BY <2>3
  <2>5. pos \in Nat
    BY <1>1, NextByte
  <2>6. PICK q \in Nat : q = pos + 1
    BY <2>5
  <2>7. got' = got /\ SpoiledAt(h, q)'
    BY <1>1, <2>2, <2>4, <2>6, FeedAfterSpoiled
  <2>8. SpoiledAt(hits[1][2], pos)'
    BY <1>1, <2>4, <2>6, <2>7
  <2>9. h <= pos'
    BY <1>1, <2>2, <2>4, <2>5
  <2>10. QED
    BY <2>2, <2>4, <2>7, <2>8, <2>9
<1>4. QED
  BY <1>2, <1>3 DEF CleanInv

LEMMA CleanChange ==
  ASSUME Typed, FrameIs, CleanInv, NEW b \in Noise, ChangeByte(b)
  PROVE  CleanInv'
<1>1. Disturb("changed") /\ pos' = pos + 1 /\ ProtoFeedByte(b) /\ b \in Bytes /\ "changed" \in Kinds
      /\ b # frame[pos + 1]
  BY WireAssumption DEF ChangeByte, Kinds
<1>2. /\ ~ FrameEnded /\ Len(hits') = Len(hits) + 1 /\ hits' # <<>>
      /\ hits = <<>> => hits'[1] = <<"changed", pos + 1>>
      /\ link' = link /\ msg' = msg /\ frame' = frame /\ clean' = clean
  BY <1>1, DisturbIs
<1>3. CleanTracked'
  BY <1>2 DEF CleanTracked, Intact
<1>4. CleanSpoiled'
  <2>1. SUFFICES ASSUME clean, OneByteChanged'
                 PROVE  frame # <<>> /\ got' = <<>> /\ hits'[1][2] <= pos' /\ SpoiledAt(hits[1][2], pos)'
    BY <1>2 DEF CleanSpoiled
  <2>2. hits = <<>>
    <3>1. hits \in Seq(Kinds \X Nat)
      BY DEF Typed
    <3>2. Len(hits') = 1
      BY <2>1 DEF OneByteChanged
    <3>3. Len(hits) \in Nat /\ Len(hits') = Len(hits) + 1
      BY <1>2, <3>1, LenProperties
    <3>4. Len(hits) = 0
      BY <3>2, <3>3
    <3>5. QED
      BY <3>1, <3>4, EmptySeq
  <2>3. hits'[1][2] = pos + 1 /\ pos + 1 > 2 /\ pos \in Nat /\ pos < Len(frame)
    BY <1>2, <2>1, <2>2, NextByte DEF OneByteChanged
  <2>4. got = <<>> /\ Tracks(Body(msg, link), pos)
    BY <1>2, <2>1, <2>2 DEF CleanInv, CleanTracked, Intact
  <2>5. PICK h \in Nat : h = pos + 1
    BY <2>3
  <2>6. pos >= 2 /\ h <= pos' /\ frame # <<>> /\ pos' = h
    BY <1>1, <2>3, <2>5
  <2>7. got' = got /\ SpoiledAt(h, h)'
    BY <1>1, <1>2, <2>4, <2>5, <2>6, FeedSpoiledByte
  <2>8. SpoiledAt(hits[1][2], pos)'
    BY <2>3, <2>5, <2>6, <2>7
  <2>9. QED
    BY <2>3, <2>4, <2>5, <2>6, <2>7, <2>8
<1>5. QED
  BY <1>3, <1>4 DEF CleanInv

\* After any other disturbance the frame is neither intact nor one byte wrong.
LEMMA CleanOther ==
  ASSUME Typed, NEW kind \in {"lost", "inserted"}, Disturb(kind)
  PROVE  CleanInv'
<1>1. kind \in Kinds /\ kind # "changed"
  BY DEF Kinds
<1>2. /\ Len(hits') = Len(hits) + 1 /\ hits' # <<>>
      /\ hits = <<>> => hits'[1] = <<kind, pos + 1>>
  BY <1>1, DisturbIs
<1>3. ~ Intact'
  BY <1>2 DEF Intact
<1>4. ~ OneByteChanged'
  <2>1. ASSUME OneByteChanged'
        PROVE  FALSE
    <3>1. hits = <<>>
      <4>1. hits \in Seq(Kinds \X Nat)
        BY DEF Typed
      <4>2. Len(hits') = 1
        BY <2>1 DEF OneByteChanged
      <4>3. Len(hits) \in Nat /\ Len(hits') = Len(hits) + 1
        BY <1>2, <4>1, LenProperties
      <4>4. Len(hits) = 0
        BY <4>2, <4>3
      <4>5. QED
        BY <4>1, <4>4, EmptySeq
    <3>2. QED
      BY <1>1, <1>2, <2>1, <3>1 DEF OneByteChanged
  <2>2. QED
    BY <2>1
<1>5. QED
  BY <1>3, <1>4 DEF CleanInv, CleanTracked, CleanSpoiled

LEMMA CleanStutter ==
  ASSUME CleanInv, UNCHANGED vars
  PROVE  CleanInv'
  BY DEF CleanInv, CleanTracked, CleanSpoiled, SpoiledAt, Spoiled, Tracks, Reads, Intact,
         OneByteChanged, FrameEnded, HeaderLen, vars

LEMMA CleanKept ==
  ASSUME IndexHolds, Typed, FrameIs, CleanInv, [Next]_vars
  PROVE  CleanInv'
  BY CleanSend, CleanDeliver, CleanChange, CleanOther, CleanStutter DEF Next, LoseByte, InsertByte

LEMMA AlwaysFrameIs ==
  ASSUME IndexHolds
  PROVE  Spec => []FrameIs
<1>1. Init => FrameIs
  BY DEF Init, FrameIs
<1>2. Typed /\ FrameIs /\ [Next]_vars => FrameIs'
  BY FrameIsKept
<1>3. QED
  BY <1>1, <1>2, AlwaysTyped, PTL DEF Spec

LEMMA AlwaysClean ==
  ASSUME IndexHolds
  PROVE  Spec => []CleanInv
<1>1. Init => CleanInv
  BY DEF Init, CleanInv, CleanTracked, CleanSpoiled, Intact, OneByteChanged, FrameEnded
<1>2. Typed /\ FrameIs /\ CleanInv /\ [Next]_vars => CleanInv'
  BY CleanKept
<1>3. QED
  BY <1>1, <1>2, AlwaysTyped, AlwaysFrameIs, PTL DEF Spec

\* An undisturbed frame arrives once, with its content, whatever the message
\* and the direction: proto_feed_byte inverts proto_build_frame, and no frame
\* leaves the parser in a state that spoils the next one.
THEOREM SyncedArrive ==
  ASSUME IndexHolds
  PROVE  Spec => []SyncedFramesArrive
<1>1. CleanInv => SyncedFramesArrive
  BY DEF CleanInv, CleanTracked, SyncedFramesArrive
<1>2. QED
  BY <1>1, AlwaysClean, PTL

\* One byte after LEN with another value, be it a field, the data, the CRC
\* byte or EOF, never makes proto_feed_byte return a frame.
THEOREM OneBadByteRejected ==
  ASSUME IndexHolds
  PROVE  Spec => []OneBadByteIsRejected
<1>1. CleanInv => OneBadByteIsRejected
  BY DEF CleanInv, CleanSpoiled, OneBadByteIsRejected
<1>2. QED
  BY <1>1, AlwaysClean, PTL

-----------------------------------------------------------------------------
(* A parser that looks for the next frame *)

\* Every non-empty set of natural numbers has a least element.
LEMMA LeastNumber ==
  ASSUME NEW T \in SUBSET Nat, T # {}
  PROVE  \E x \in T : \A y \in T : x <= y
<1>1. IsWellFoundedOn(OpToRel(<, Nat), Nat)
  BY NatLessThanWellFounded
<1>2. PICK x \in T : \A y \in T : ~ (<<y, x>> \in OpToRel(<, Nat))
  BY <1>1, WFMin
<1>3. ASSUME NEW y \in T
      PROVE  x <= y
  <2>1. ~ (<<y, x>> \in {ss \in Nat \X Nat : ss[1] < ss[2]})
    BY <1>2 DEF OpToRel
  <2>2. QED
    BY <2>1
<1>4. QED
  BY <1>3

\* There is a longest message, and no message is longer.
LEMMA LongestIs ==
  ASSUME NEW m \in Messages
  PROVE  LongestFrame \in Nat /\ Len(m.data) \in Nat /\ Len(m.data) + 6 <= LongestFrame
<1> DEFINE L == {Len(k.data) : k \in Messages}
           T == {j \in Nat : \A k \in L : k <= j}
<1>1. L \in SUBSET Nat /\ Len(m.data) \in L /\ MaxData \in T
  <2>1. \A k \in Messages : Len(k.data) \in Nat /\ Len(k.data) <= MaxData
    BY MessageAssumption
  <2>2. QED
    BY <2>1, LinkNumbers
<1> HIDE DEF L
<1>2. PICK x \in T : \A y \in T : x <= y
  <2>1. T \in SUBSET Nat /\ T # {}
    BY <1>1
  <2>2. QED
    BY <2>1, LeastNumber
<1>3. x \in L
  <2>1. SUFFICES ASSUME x \notin L PROVE FALSE
    OBVIOUS
  <2>2. \A k \in L : k \in Nat /\ k < x
    BY <1>1, <1>2, <2>1
  <2>3. x >= 1 /\ x \in Nat
    BY <1>1, <1>2, <2>2
  <2>4. PICK y \in Nat : y = x - 1
    BY <2>3
  <2>5. \A k \in L : k <= y
    BY <2>2, <2>3, <2>4
  <2>6. y \in T
    BY <2>5
  <2>7. QED
    BY <1>2, <2>3, <2>4, <2>6
<1>4. \E n \in L : \A k \in L : k <= n
  BY <1>2, <1>3
<1>5. PICK top : top = CHOOSE n \in L : \A k \in L : k <= n
  OBVIOUS
<1>6. top \in L /\ \A k \in L : k <= top
  BY <1>4, <1>5
<1>7. LongestFrame = 6 + top
  BY <1>5 DEF LongestFrame, L
<1>8. top \in Nat /\ Len(m.data) \in Nat /\ Len(m.data) <= top
  BY <1>1, <1>6
<1>9. QED
  BY <1>7, <1>8

\* The numbers the argument counts with.
LEMMA LossNumbers ==
  ASSUME Typed, FrameIs
  PROVE  /\ Held \in Nat /\ LongestFrame \in Nat /\ LongestFrame >= 6 /\ MostLost = Held + LongestFrame - 1
         /\ Len(frame) \in Nat /\ Len(frame) <= LongestFrame
         /\ lost \in Nat /\ pos \in Nat /\ Left \in Nat /\ Left <= Held
         /\ rx_state # "WAIT_SOF" => Left >= 1
<1>1. link \in Links /\ msg \in Messages /\ lost \in Nat /\ Len(frame) \in Nat /\ pos \in Nat
      /\ Left \in 0 .. HeaderLen + MaxData + 1 /\ (rx_state # "WAIT_SOF" => Left >= 1)
  BY DEF Typed
<1>2. HeaderLen \in {3, 4} /\ MaxData \in Nat
  BY <1>1, HeaderLenIs, LinkNumbers
<1>3. LongestFrame \in Nat /\ Len(msg.data) \in Nat /\ Len(msg.data) + 6 <= LongestFrame
  BY <1>1, LongestIs
<1>4. Len(frame) <= LongestFrame
  <2>1. CASE frame = <<>>
    <3>1. Len(frame) = 0
      BY <2>1
    <3>2. QED
      BY <1>3, <3>1
  <2>2. CASE frame # <<>>
    <3>1. Len(Body(msg, link)) \in Nat /\ Len(frame) = Len(Body(msg, link)) + 2
          /\ Len(Body(msg, link)) <= 4 + Len(msg.data)
      BY <2>2, OnTheWire
    <3>2. QED
      BY <1>3, <3>1
  <2>3. QED
    BY <2>1, <2>2
<1>5. Left \in Nat /\ Left <= Held /\ Held \in Nat
  BY <1>1, <1>2 DEF Held
<1>6. QED
  BY <1>1, <1>3, <1>4, <1>5 DEF MostLost

LEMMA LossSend ==
  ASSUME IndexHolds, Typed, FrameIs, LossCounted,
         NEW m \in Messages, NEW silence \in BOOLEAN, SendFrame(m, silence)
  PROVE  LossCounted'
<1>1. /\ FrameEnded /\ hits' = <<>> /\ link' = link /\ pos' = 0 /\ ProtoResetRx(silence)
      /\ lost' = IF msg \in Returned \/ ~ Intact \/ HasInnerSof \/ (silence /\ link.idle)
                 THEN 0 ELSE lost + Len(frame)
  BY DEF SendFrame, Returned
<1>2. /\ Held \in Nat /\ LongestFrame \in Nat /\ LongestFrame >= 6 /\ MostLost = Held + LongestFrame - 1
      /\ Len(frame) \in Nat /\ Len(frame) <= LongestFrame
      /\ lost \in Nat /\ pos \in Nat /\ Left \in Nat /\ Left <= Held
      /\ rx_state # "WAIT_SOF" => Left >= 1
  BY LossNumbers
<1>3. pos = Len(frame)
  BY <1>1 DEF FrameEnded
<1>4. (rx_state' = rx_state /\ Left' = Left) \/ rx_state' = "WAIT_SOF"
  BY <1>1, ResetKeeps
<1>5. MostLost' = MostLost /\ Held' = Held
  BY DEF MostLost, Held, LongestFrame
<1>6. rx_state' = "WAIT_SOF" => InStep'
  BY StartInStep DEF InStep
<1>7. CASE lost' = 0
  <2>1. lost' <= MostLost
    BY <1>2, <1>7
  <2>2. rx_state' # "WAIT_SOF" => InFalseFrame'
    <3>1. SUFFICES ASSUME rx_state' # "WAIT_SOF" PROVE lost' + pos' + Left' <= Held
      BY <1>5 DEF InFalseFrame
    <3>2. Left' = Left
      BY <1>4, <3>1
    <3>3. QED
      BY <1>1, <1>2, <1>7, <3>2
  <2>3. QED
    BY <1>5, <1>6, <2>1, <2>2 DEF LossCounted
<1>8. CASE lost' # 0
  <2>1. msg \notin Returned /\ Intact /\ ~ HasInnerSof /\ lost' = lost + Len(frame)
    BY <1>1, <1>8
  <2>2. PastSof \/ InFalseFrame
    BY <1>1, <2>1 DEF LossCounted, InStep
  <2>3. CASE PastSof
    <3>1. lost' <= MostLost /\ rx_state' = "WAIT_SOF"
      BY <1>4, <2>1, <2>3 DEF PastSof
    <3>2. QED
      BY <1>5, <1>6, <3>1 DEF LossCounted
  <2>4. CASE InFalseFrame
    <3>1. lost + pos + Left <= Held
      BY <2>4 DEF InFalseFrame
    <3>2. lost' <= MostLost
      BY <1>2, <1>3, <2>1, <3>1
    <3>3. rx_state' # "WAIT_SOF" => InFalseFrame'
      <4>1. SUFFICES ASSUME rx_state' # "WAIT_SOF" PROVE lost' + pos' + Left' <= Held
        BY <1>5 DEF InFalseFrame
      <4>2. Left' = Left
        BY <1>4, <4>1
      <4>3. QED
        BY <1>1, <1>2, <1>3, <2>1, <3>1, <4>2
    <3>4. QED
      BY <1>5, <1>6, <3>2, <3>3 DEF LossCounted
  <2>5. QED
    BY <2>2, <2>3, <2>4
<1>9. QED
  BY <1>7, <1>8

LEMMA LossDeliver ==
  ASSUME Typed, FrameIs, LossCounted, Deliver
  PROVE  LossCounted'
<1>1. /\ ~ FrameEnded /\ pos' = pos + 1 /\ ProtoFeedByte(frame[pos + 1])
      /\ link' = link /\ msg' = msg /\ frame' = frame /\ hits' = hits /\ lost' = lost
  BY DEF Deliver
<1>2. /\ Held \in Nat /\ LongestFrame \in Nat /\ LongestFrame >= 6 /\ MostLost = Held + LongestFrame - 1
      /\ Len(frame) \in Nat /\ Len(frame) <= LongestFrame
      /\ lost \in Nat /\ pos \in Nat /\ Left \in Nat /\ Left <= Held
      /\ rx_state # "WAIT_SOF" => Left >= 1
  BY LossNumbers
<1>3. MostLost' = MostLost /\ Held' = Held
  BY DEF MostLost, Held, LongestFrame
<1>4. frame[pos + 1] \in Bytes /\ pos < Len(frame)
  BY <1>1, NextByte
<1>5. lost' <= MostLost
  BY <1>1 DEF LossCounted
<1>6. SUFFICES ASSUME Intact, ~ HasInnerSof
               PROVE  (InStep \/ PastSof \/ InFalseFrame)'
  BY <1>1, <1>3, <1>5 DEF LossCounted, Intact, HasInnerSof
<1>7. CASE InStep
  <2>1. Tracks(Body(msg, link), pos)
    BY <1>1, <1>7 DEF InStep
  <2>2. /\ ~ FrameEnded' => Tracks(Body(msg, link), pos)'
        /\ FrameEnded' => got' = Append(got, msg)
    BY <1>1, <2>1, FeedInStep
  <2>3. got' = Append(got, msg) => msg' \in Returned'
    <3>1. SUFFICES ASSUME got' = Append(got, msg) PROVE \E i \in 1 .. Len(got') : got'[i] = msg
      BY <1>1 DEF Returned
    <3>2. got \in Seq(Frames) /\ msg \in Frames
      BY MessagesAreFrames DEF Typed
    <3>3. Len(got') = Len(got) + 1 /\ got'[Len(got) + 1] = msg /\ Len(got) \in Nat
      BY <3>1, <3>2, AppendProperties, LenProperties
    <3>4. PICK i \in Nat : i = Len(got) + 1
      BY <3>3
    <3>5. i \in 1 .. Len(got') /\ got'[i] = msg
      BY <3>3, <3>4
    <3>6. QED
      BY <3>5
  <2>4. InStep'
    BY <2>2, <2>3 DEF InStep
  <2>5. QED
    BY <2>4
<1>8. CASE PastSof
  <2>1. rx_state = "WAIT_SOF" /\ pos >= 1 /\ lost + Len(frame) <= MostLost
    BY <1>8 DEF PastSof
  <2>2. PICK q \in Nat : q = pos + 1
    BY <1>2
  <2>3. q \in 2 .. Len(frame)
    BY <1>2, <1>4, <2>1, <2>2
  <2>4. frame[pos + 1] # SOF
    BY <1>6, <2>2, <2>3 DEF HasInnerSof
  <2>5. rx_state' = "WAIT_SOF"
    BY <1>1, <2>1, <2>4, FeedIdle
  <2>6. PastSof'
    BY <1>1, <1>2, <1>3, <2>1, <2>5 DEF PastSof
  <2>7. QED
    BY <2>6
<1>9. CASE InFalseFrame
  <2>1. rx_state # "WAIT_SOF" /\ lost + pos + Left <= Held
    BY <1>9 DEF InFalseFrame
  <2>2. Left' <= Left - 1 /\ Left' \in Int
    <3>1. (Left \in 0 .. HeaderLen + MaxData + 1)'
      BY <1>1, <1>4, FeedTyped
    <3>2. Left' <= Left - 1
      BY <1>1, <1>4, <2>1, FeedTyped
    <3>3. QED
      BY <3>1, <3>2
  <2>3. CASE rx_state' = "WAIT_SOF"
    <3>1. lost + Len(frame) <= MostLost
      BY <1>2, <2>1
    <3>2. PastSof'
      BY <1>1, <1>2, <1>3, <2>3, <3>1 DEF PastSof
    <3>3. QED
      BY <3>2
  <2>4. CASE rx_state' # "WAIT_SOF"
    <3>1. lost + (pos + 1) + Left' <= Held
      <4>1. PICK k \in Int : k = Left'
        BY <2>2
      <4>2. PICK j \in Int : j = Left
        BY <1>2
      <4>3. k <= j - 1
        BY <2>2, <4>1, <4>2
      <4>4. lost + pos + j <= Held
        BY <2>1, <4>2
      <4>5. lost + (pos + 1) + k <= Held
        BY <1>2, <4>3, <4>4
      <4>6. QED
        BY <4>1, <4>5
    <3>2. InFalseFrame'
      BY <1>1, <1>3, <2>4, <3>1 DEF InFalseFrame
    <3>3. QED
      BY <3>2
  <2>5. QED
    BY <2>3, <2>4
<1>10. QED
  BY <1>6, <1>7, <1>8, <1>9 DEF LossCounted

\* A frame that was disturbed does not count.
LEMMA LossDisturb ==
  ASSUME Typed, LossCounted, NEW kind \in Kinds, Disturb(kind)
  PROVE  LossCounted'
<1>1. hits' # <<>> /\ lost' = lost
  BY DisturbIs
<1>2. MostLost' = MostLost
  BY DEF MostLost, Held, LongestFrame
<1>3. QED
  BY <1>1, <1>2 DEF LossCounted, Intact

LEMMA LossStutter ==
  ASSUME LossCounted, UNCHANGED vars
  PROVE  LossCounted'
  BY DEF LossCounted, InStep, PastSof, InFalseFrame, Tracks, Reads, Returned, Intact, HasInnerSof,
         FrameEnded, HeaderLen, Left, MostLost, Held, LongestFrame, vars

LEMMA LossKept ==
  ASSUME IndexHolds, Typed, FrameIs, LossCounted, [Next]_vars
  PROVE  LossCounted'
<1>1. "lost" \in Kinds /\ "changed" \in Kinds /\ "inserted" \in Kinds
  BY DEF Kinds
<1>2. QED
  BY <1>1, LossSend, LossDeliver, LossDisturb, LossStutter DEF Next, LoseByte, ChangeByte, InsertByte

LEMMA LossInit ==
  ASSUME Init
  PROVE  LossCounted
<1>1. /\ got = <<msg>> /\ frame = <<>> /\ pos = 0 /\ lost = 0
  BY DEF Init
<1>2. Typed /\ FrameIs
  BY <1>1, InitTyped DEF FrameIs
<1>3. lost <= MostLost
  BY <1>1, <1>2, LossNumbers
<1>4. InStep
  <2>1. Len(got) = 1 /\ got[1] = msg /\ 1 \in 1 .. 1
    BY <1>1
  <2>2. msg \in Returned
    BY <2>1 DEF Returned
  <2>3. FrameEnded
    BY <1>1 DEF FrameEnded
  <2>4. QED
    BY <2>2, <2>3 DEF InStep
<1>5. QED
  BY <1>3, <1>4 DEF LossCounted

LEMMA AlwaysCounted ==
  ASSUME IndexHolds
  PROVE  Spec => []LossCounted
<1>1. Init => LossCounted
  BY LossInit
<1>2. Typed /\ FrameIs /\ LossCounted /\ [Next]_vars => LossCounted'
  BY LossKept
<1>3. QED
  BY <1>1, <1>2, AlwaysTyped, AlwaysFrameIs, PTL DEF Spec

\* Of consecutive intact frames with no SOF inside a receiver without a timer
\* misses no more bytes than one false frame and one frame it entered in the
\* middle, whatever came before them and however long the messages are.
THEOREM LossIsBounded ==
  ASSUME IndexHolds
  PROVE  Spec => []BoundedLoss
<1>1. Typed /\ FrameIs /\ LossCounted => BoundedLoss
  <2>1. SUFFICES ASSUME Typed, FrameIs, LossCounted
                 PROVE  BoundedLoss
    OBVIOUS
  <2>2. /\ Held \in Nat /\ LongestFrame \in Nat /\ LongestFrame >= 6 /\ MostLost = Held + LongestFrame - 1
        /\ Len(frame) \in Nat /\ lost \in Nat /\ Left \in Nat /\ lost <= MostLost
    BY <2>1, LossNumbers DEF LossCounted
  <2>3. ASSUME FrameEnded, Intact, ~ HasInnerSof, msg \notin Returned
        PROVE  lost + Len(frame) <= MostLost
    <3>1. PastSof \/ InFalseFrame
      BY <2>1, <2>3 DEF LossCounted, InStep
    <3>2. CASE PastSof
      BY <3>2 DEF PastSof
    <3>3. CASE InFalseFrame
      <4>1. lost + Len(frame) + Left <= Held
        BY <2>3, <3>3 DEF InFalseFrame, FrameEnded
      <4>2. QED
        BY <2>2, <4>1
    <3>4. QED
      BY <3>1, <3>2, <3>3
  <2>4. QED
    BY <2>2, <2>3 DEF BoundedLoss, Returned, MostLost, Held
<1>2. QED
  BY <1>1, AlwaysTyped, AlwaysFrameIs, AlwaysCounted, PTL

=============================================================================
