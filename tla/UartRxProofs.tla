---------------------------- MODULE UartRxProofs ----------------------------
(***************************************************************************)
(* Reception on a USART for a ring of any size and indices that wrap at    *)
(* any multiple of it: the types, that the receiver listens after every    *)
(* byte, and that every step of the handler and of the task is one of the  *)
(* byte queue or changes nothing the queue shows.                          *)
(***************************************************************************)
EXTENDS UartRx, TLAPS, SequenceTheorems

-----------------------------------------------------------------------------
(* Arithmetic of the ring: a counter that wraps at a multiple of Size *)

\* The numbers among the constants.
LEMMA Numbers ==
  /\ Size \in Int /\ Size > 1 /\ HeadWide \in Nat /\ TailWide \in Nat
  /\ HeadWide > 0 /\ TailWide > 0
  BY RingAssumption

\* A number is a multiple of Size and a place in the ring.
LEMMA DivMod ==
  ASSUME NEW x \in Int
  PROVE  /\ x % Size \in 0 .. Size - 1
         /\ \E q \in Int : x = q * Size + (x % Size)
<1> DEFINE d == x \div Size
           m == x % Size
<1>1. m \in 0 .. Size - 1
  BY Numbers, Z3
<1>2. x = Size * d + m
  BY Numbers, Z3
<1>3. d \in Int
  BY Numbers
<1> HIDE DEF d, m
<1>4. x = d * Size + m
  BY <1>1, <1>2, <1>3, Numbers
<1>5. QED
  BY <1>1, <1>3, <1>4 DEF m

\* The place is the only one.
LEMMA Unique ==
  ASSUME NEW x \in Int, NEW q \in Int, NEW r \in 0 .. Size - 1, x = q * Size + r
  PROVE  x % Size = r
<1> DEFINE m == x % Size
<1>1. PICK p \in Int : x = p * Size + m
  BY DivMod
<1>2. m \in 0 .. Size - 1
  BY DivMod
<1> HIDE DEF m
<1>3. (p - q) * Size = r - m
  BY <1>1, <1>2, Numbers
<1>4. ASSUME p - q >= 1 PROVE (p - q) * Size >= Size
  BY <1>4, Numbers
<1>5. ASSUME p - q <= 0 - 1 PROVE (p - q) * Size <= 0 - Size
  BY <1>5, Numbers
<1>6. m = r
  BY <1>1, <1>2, <1>3, <1>4, <1>5, Numbers
<1>7. QED
  BY <1>6 DEF m

\* The next place.
Succ(a) == IF a + 1 = Size THEN 0 ELSE a + 1

\* A counter's next value is at the next place, also where the counter wraps.
LEMMA NextPlace ==
  ASSUME NEW W \in Nat, NEW k \in Int, W = k * Size, NEW h \in 0 .. W - 1
  PROVE  /\ (h + 1) % W \in 0 .. W - 1
         /\ ((h + 1) % W) % Size = Succ(h % Size)
<1> DEFINE a == h % Size
<1>1. PICK q \in Int : h = q * Size + a
  BY DivMod
<1>2. a \in 0 .. Size - 1
  BY DivMod
<1> HIDE DEF a
<1>3. (h + 1) % Size = Succ(a)
  <2>1. CASE a + 1 = Size
    <3>1. h + 1 = (q + 1) * Size + 0
      BY <1>1, <1>2, <2>1, Numbers
    <3>2. QED
      BY <2>1, <3>1, Unique, Numbers DEF Succ
  <2>2. CASE a + 1 # Size
    <3>1. h + 1 = q * Size + (a + 1) /\ a + 1 \in 0 .. Size - 1
      BY <1>1, <1>2, <2>2, Numbers
    <3>2. QED
      BY SMTT(30), <2>2, <3>1, Unique, Numbers DEF Succ
  <2>3. QED
    BY <2>1, <2>2
<1>4. CASE h + 1 < W
  <2>1. (h + 1) % W = h + 1
    BY <1>4, Z3
  <2>2. QED
    BY <1>3, <1>4, <2>1 DEF a
<1>5. CASE h + 1 = W
  <2>1. (h + 1) % W = 0
    BY <1>5, Z3
  <2>2. W % Size = 0
    <3>1. W = k * Size + 0
      BY Numbers
    <3>2. QED
      BY <3>1, Unique, Numbers
  <2>3. 0 % Size = 0
    BY Numbers
  <2>4. QED
    BY <1>3, <1>5, <2>1, <2>2, <2>3 DEF a
<1>6. QED
  BY <1>4, <1>5

\* The number of places between two counters.
LEMMA Distance ==
  ASSUME NEW h \in Nat, NEW t \in Nat
  PROVE  (h - t) % Size = IF h % Size >= t % Size
                          THEN (h % Size) - (t % Size) ELSE (h % Size) - (t % Size) + Size
<1> DEFINE a == h % Size
           b == t % Size
<1>1. PICK p \in Int : h = p * Size + a
  BY DivMod
<1>2. PICK q \in Int : t = q * Size + b
  BY DivMod
<1>3. a \in 0 .. Size - 1 /\ b \in 0 .. Size - 1
  BY DivMod
<1> HIDE DEF a, b
<1>4. h - t = (p - q) * Size + (a - b)
  BY <1>1, <1>2, <1>3, Numbers
<1>5. h - t = (p - q - 1) * Size + (a - b + Size)
  BY <1>1, <1>2, <1>3, Numbers
<1>6. CASE a >= b
  <2>1. a - b \in 0 .. Size - 1
    BY <1>3, <1>6, Numbers
  <2>2. (h - t) % Size = a - b
    BY <1>4, <2>1, Unique
  <2>3. QED
    BY <1>6, <2>2 DEF a, b
<1>7. CASE ~ (a >= b)
  <2>1. a - b + Size \in 0 .. Size - 1
    BY <1>3, <1>7, Numbers
  <2>2. (h - t) % Size = a - b + Size
    BY <1>5, <2>1, Unique
  <2>3. QED
    BY <1>7, <2>2 DEF a, b
<1>8. QED
  BY <1>6, <1>7

\* The place so many after a counter's.
LEMMA Place ==
  ASSUME NEW t \in Nat, NEW j \in 0 .. Size - 1
  PROVE  (t + j) % Size = IF (t % Size) + j < Size
                          THEN (t % Size) + j ELSE (t % Size) + j - Size
<1> DEFINE b == t % Size
<1>1. PICK q \in Int : t = q * Size + b
  BY DivMod
<1>2. b \in 0 .. Size - 1
  BY DivMod
<1> HIDE DEF b
<1>3. CASE b + j < Size
  <2>1. t + j = q * Size + (b + j) /\ b + j \in 0 .. Size - 1
    BY <1>1, <1>2, <1>3, Numbers
  <2>2. (t + j) % Size = b + j
    BY <2>1, Unique
  <2>3. QED
    BY <1>3, <2>2 DEF b
<1>4. CASE ~ (b + j < Size)
  <2>1. t + j = (q + 1) * Size + (b + j - Size) /\ b + j - Size \in 0 .. Size - 1
    BY <1>1, <1>2, <1>4, Numbers
  <2>2. (t + j) % Size = b + j - Size
    BY <2>1, Unique
  <2>3. QED
    BY <1>4, <2>2 DEF b
<1>5. QED
  BY <1>3, <1>4

-----------------------------------------------------------------------------
(* The bytes that wait *)

\* Stated of any two indices h and t and any cells, so that they can be used of
\* a state and of the next one.
Count(h, t) == (h - t) % Size
Cells == [0 .. Size - 1 -> Bytes]
Between(h, t, buf) == [i \in 1 .. Count(h, t) |-> buf[(t + i - 1) % Size]]
Cell(t, j) == IF (t % Size) + j < Size THEN (t % Size) + j ELSE (t % Size) + j - Size

\* Two places and the number of bytes between them.
LEMMA Places ==
  ASSUME NEW h \in Nat, NEW t \in Nat
  PROVE  /\ h % Size \in 0 .. Size - 1 /\ t % Size \in 0 .. Size - 1
         /\ Count(h, t) = IF h % Size >= t % Size THEN (h % Size) - (t % Size)
                          ELSE (h % Size) - (t % Size) + Size
         /\ Count(h, t) \in 0 .. Size - 1
<1> DEFINE a == h % Size
           b == t % Size
<1>1. a \in 0 .. Size - 1 /\ b \in 0 .. Size - 1
  BY DivMod
<1>2. Count(h, t) = IF a >= b THEN a - b ELSE a - b + Size
  BY Distance DEF Count
<1> HIDE DEF a, b
<1>3. Count(h, t) \in 0 .. Size - 1
  BY <1>1, <1>2, Numbers
<1>4. QED
  BY <1>1, <1>2, <1>3 DEF a, b

\* The bytes between them are a sequence, found in their cells.
LEMMA Contents ==
  ASSUME NEW h \in Nat, NEW t \in Nat, NEW buf \in Cells
  PROVE  /\ Between(h, t, buf) \in Seq(Bytes) /\ Len(Between(h, t, buf)) = Count(h, t)
         /\ \A i \in 1 .. Count(h, t) : /\ Between(h, t, buf)[i] = buf[Cell(t, i - 1)]
                                        /\ Cell(t, i - 1) \in 0 .. Size - 1
<1> DEFINE n == Count(h, t)
           s == Between(h, t, buf)
<1>1. n \in 0 .. Size - 1 /\ t % Size \in 0 .. Size - 1
  BY Places
<1>2. ASSUME NEW i \in 1 .. n
      PROVE  (t + i - 1) % Size = Cell(t, i - 1) /\ Cell(t, i - 1) \in 0 .. Size - 1
  <2>1. i - 1 \in 0 .. Size - 1 /\ t + i - 1 = t + (i - 1)
    BY <1>1, Numbers
  <2>2. (t + (i - 1)) % Size = Cell(t, i - 1)
    BY <2>1, Place DEF Cell
  <2>3. Cell(t, i - 1) \in 0 .. Size - 1
    BY <1>1, <2>1, Numbers DEF Cell
  <2>4. QED
    BY <2>1, <2>2, <2>3
<1>3. s = [i \in 1 .. n |-> buf[(t + i - 1) % Size]]
  BY DEF Between
<1> HIDE DEF n, s
<1>4. s \in [1 .. n -> Bytes] /\ \A i \in 1 .. n : s[i] = buf[Cell(t, i - 1)]
  BY <1>2, <1>3 DEF Cells
<1>5. s \in Seq(Bytes)
  BY <1>1, <1>4, SeqDef
<1>6. Len(s) = n
  <2>1. DOMAIN s = 1 .. Len(s) /\ Len(s) \in Nat
    BY <1>5, LenProperties
  <2>2. DOMAIN s = 1 .. n /\ n \in Nat
    BY <1>1, <1>4
  <2>3. \A x \in Int : x \in DOMAIN s <=> 1 <= x /\ x <= Len(s)
    BY <2>1
  <2>4. \A x \in Int : x \in DOMAIN s <=> 1 <= x /\ x <= n
    BY <2>2
  <2>5. \A x \in Int : (1 <= x /\ x <= Len(s)) <=> (1 <= x /\ x <= n)
    BY <2>3, <2>4
  <2>6. Len(s) \in Nat /\ n \in Nat
    BY <2>1, <2>2
  <2>7. QED
    BY <2>5, <2>6
<1>7. QED
  BY <1>2, <1>4, <1>5, <1>6 DEF n, s

\* A byte written behind the last one is appended.
LEMMA Pushed ==
  ASSUME NEW h \in 0 .. HeadWide - 1, NEW t \in Nat, NEW buf \in Cells, NEW b \in Bytes,
         Count(h, t) < Size - 1
  PROVE  LET new == [buf EXCEPT ![h % Size] = b] IN
         /\ new \in Cells
         /\ Between(After(h), t, new) = Append(Between(h, t, buf), b)
<1> DEFINE new == [buf EXCEPT ![h % Size] = b]
           next == After(h)
           n == Count(h, t)
<1>0. h \in Nat /\ next \in Nat /\ next % Size = Succ(h % Size)
  <2>1. PICK k \in Int : HeadWide = k * Size
    BY RingAssumption
  <2>2. /\ (h + 1) % HeadWide \in 0 .. HeadWide - 1
        /\ ((h + 1) % HeadWide) % Size = Succ(h % Size)
    BY <2>1, Numbers, NextPlace
  <2>3. QED
    BY <2>2 DEF After
<1>1. /\ h % Size \in 0 .. Size - 1 /\ t % Size \in 0 .. Size - 1
      /\ n = IF h % Size >= t % Size THEN (h % Size) - (t % Size)
             ELSE (h % Size) - (t % Size) + Size
      /\ n \in 0 .. Size - 1
  BY <1>0, Places
<1>2. new \in Cells /\ new[h % Size] = b
      /\ \A c \in 0 .. Size - 1 : c # h % Size => new[c] = buf[c]
  BY <1>1 DEF Cells
<1> HIDE DEF new, next, n
<1>3. Count(next, t) = n + 1
  <2>1. Count(next, t) = IF next % Size >= t % Size THEN (next % Size) - (t % Size)
                         ELSE (next % Size) - (t % Size) + Size
    BY <1>0, Places
  <2>2. n < Size - 1
    BY DEF n
  <2>3. QED
    BY <1>0, <1>1, <2>1, <2>2, Numbers DEF Succ
<1>4. ASSUME NEW i \in 1 .. n
      PROVE  Between(next, t, new)[i] = Between(h, t, buf)[i]
  <2>1. Cell(t, i - 1) # h % Size
    BY <1>1, Numbers DEF Cell, n
  <2>2. Cell(t, i - 1) \in 0 .. Size - 1 /\ Between(h, t, buf)[i] = buf[Cell(t, i - 1)]
    BY <1>0, Contents DEF n
  <2>3. Between(next, t, new)[i] = new[Cell(t, i - 1)]
    <3>1. i \in 1 .. Count(next, t)
      BY <1>1, <1>3
    <3>2. QED
      BY <1>0, <1>2, <3>1, Contents
  <2>4. QED
    BY <1>2, <2>1, <2>2, <2>3
<1>5. Between(next, t, new)[n + 1] = b
  <2>1. Cell(t, n) = h % Size
    BY <1>1, Numbers DEF Cell, n
  <2>2. n + 1 \in 1 .. Count(next, t) /\ (n + 1) - 1 = n
    BY <1>1, <1>3
  <2>3. Between(next, t, new)[n + 1] = new[Cell(t, (n + 1) - 1)]
    BY <1>0, <1>2, <2>2, Contents
  <2>4. QED
    BY <1>2, <2>1, <2>2, <2>3
<1>6. /\ Between(h, t, buf) \in Seq(Bytes) /\ Len(Between(h, t, buf)) = n
      /\ Between(next, t, new) \in Seq(Bytes) /\ Len(Between(next, t, new)) = n + 1
  BY <1>0, <1>2, <1>3, Contents DEF n
<1>7. Between(next, t, new) = Append(Between(h, t, buf), b)
  <2>1. /\ Append(Between(h, t, buf), b) \in Seq(Bytes)
        /\ Len(Append(Between(h, t, buf), b)) = n + 1
        /\ \A i \in 1 .. n : Append(Between(h, t, buf), b)[i] = Between(h, t, buf)[i]
        /\ Append(Between(h, t, buf), b)[n + 1] = b
    BY <1>6, AppendProperties
  <2>2. \A i \in 1 .. n + 1 : Between(next, t, new)[i] = Append(Between(h, t, buf), b)[i]
    BY <1>1, <1>4, <1>5, <2>1
  <2>3. QED
    BY <1>6, <2>1, <2>2, SeqEqual
<1>8. QED
  BY <1>2, <1>7 DEF new, next

\* A tail that advances takes the first byte away.
LEMMA Taken ==
  ASSUME NEW h \in Nat, NEW t \in 0 .. TailWide - 1, NEW buf \in Cells, Count(h, t) > 0
  PROVE  LET next == (t + 1) % TailWide IN
         /\ Between(h, t, buf) # <<>>
         /\ Head(Between(h, t, buf)) = buf[t % Size]
         /\ Between(h, next, buf) = Tail(Between(h, t, buf))
<1> DEFINE next == (t + 1) % TailWide
           n == Count(h, t)
           s == Between(h, t, buf)
<1>0. t \in Nat /\ next \in Nat /\ next % Size = Succ(t % Size)
  <2>1. PICK k \in Int : TailWide = k * Size
    BY RingAssumption
  <2>2. /\ (t + 1) % TailWide \in 0 .. TailWide - 1
        /\ ((t + 1) % TailWide) % Size = Succ(t % Size)
    BY <2>1, Numbers, NextPlace
  <2>3. QED
    BY <2>2
<1>1. /\ h % Size \in 0 .. Size - 1 /\ t % Size \in 0 .. Size - 1
      /\ n = IF h % Size >= t % Size THEN (h % Size) - (t % Size)
             ELSE (h % Size) - (t % Size) + Size
      /\ n \in 1 .. Size - 1
  BY <1>0, Places
<1>2. /\ s \in Seq(Bytes) /\ Len(s) = n
      /\ \A i \in 1 .. n : s[i] = buf[Cell(t, i - 1)]
  BY <1>0, Contents
<1> HIDE DEF next, n, s
<1>3. Count(h, next) = n - 1
  <2>1. Count(h, next) = IF h % Size >= next % Size THEN (h % Size) - (next % Size)
                         ELSE (h % Size) - (next % Size) + Size
    BY <1>0, Places
  <2>2. QED
    BY <1>0, <1>1, <2>1, Numbers DEF Succ
<1>4. s # <<>> /\ Head(s) = s[1]
  BY <1>1, <1>2
<1>5. s[1] = buf[t % Size]
  <2>1. 1 \in 1 .. n /\ 1 - 1 = 0 /\ Cell(t, 0) = t % Size
    BY <1>1, Numbers DEF Cell
  <2>2. QED
    BY <1>2, <2>1
<1>6. /\ Tail(s) \in Seq(Bytes) /\ Len(Tail(s)) = n - 1
      /\ \A i \in 1 .. n - 1 : Tail(s)[i] = s[i + 1]
  BY <1>2, <1>4, HeadTailProperties
<1>7. /\ Between(h, next, buf) \in Seq(Bytes) /\ Len(Between(h, next, buf)) = n - 1
      /\ \A i \in 1 .. n - 1 : Between(h, next, buf)[i] = buf[Cell(next, i - 1)]
  BY <1>0, <1>3, Contents
<1>8. ASSUME NEW i \in 1 .. n - 1
      PROVE  Between(h, next, buf)[i] = Tail(s)[i]
  <2>1. i + 1 \in 1 .. n /\ (i + 1) - 1 = i
    BY <1>1
  <2>2. Cell(next, i - 1) = Cell(t, i)
    BY <1>0, <1>1, Numbers DEF Cell, Succ
  <2>3. s[i + 1] = buf[Cell(t, i)]
    BY <1>2, <2>1
  <2>4. QED
    BY <1>6, <1>7, <2>2, <2>3
<1>9. Between(h, next, buf) = Tail(s)
  BY <1>6, <1>7, <1>8, SeqEqual
<1>10. QED
  BY <1>4, <1>5, <1>9 DEF next, s

-----------------------------------------------------------------------------
(* The invariant *)

\* The callback, which clears the recorded overrun, runs before the handler
\* looks for one.
ListenInv ==
  /\ isr \in {"idle", "errors"} /\ sr.rxne => armed
  /\ isr = "errors" /\ sr.rxne => ~ error

\* The byte that was there at the loop's test is still there when it is read.
TaskInv ==
  /\ task \in {"read", "advance"} => Available > 0
  /\ task = "advance" => got = rx_buf[rx_tail % Size]

IInv == RxTypeOK /\ ListenInv /\ TaskInv

\* The operators above, of this state.
LEMMA Now ==
  ASSUME RxTypeOK
  PROVE  /\ rx_head \in Nat /\ rx_tail \in Nat /\ rx_buf \in Cells
         /\ rx_head \in 0 .. HeadWide - 1 /\ rx_tail \in 0 .. TailWide - 1
         /\ Available = Count(rx_head, rx_tail)
         /\ Available \in 0 .. Size - 1
         /\ rx_tail % Size \in 0 .. Size - 1
         /\ Content = Between(rx_head, rx_tail, rx_buf)
<1>1. /\ rx_head \in 0 .. HeadWide - 1 /\ rx_tail \in 0 .. TailWide - 1
      /\ rx_buf \in Cells
  BY DEF RxTypeOK, Cells
<1>2. rx_head \in Nat /\ rx_tail \in Nat
  BY <1>1, Numbers
<1>3. Available = Count(rx_head, rx_tail)
  BY DEF Available, Count
<1>4. Content = Between(rx_head, rx_tail, rx_buf)
  BY <1>3 DEF Content, Between
<1>5. QED
  BY <1>1, <1>2, <1>3, <1>4, Places

\* What the callback does to the ring.
LEMMA PushDoes ==
  ASSUME RxTypeOK, NEW b \in Bytes, Push(b), rx_tail' = rx_tail
  PROVE  /\ rx_buf' \in Cells /\ rx_head' \in 0 .. HeadWide - 1
         /\ Content' = IF Len(Content) < Size - 1 THEN Append(Content, b) ELSE Content
         /\ Available > 0 => /\ Available' > 0
                             /\ rx_buf'[rx_tail % Size] = rx_buf[rx_tail % Size]
<1>1. /\ rx_head % Size \in 0 .. Size - 1 /\ rx_tail % Size \in 0 .. Size - 1
      /\ Available = IF rx_head % Size >= rx_tail % Size
                     THEN (rx_head % Size) - (rx_tail % Size)
                     ELSE (rx_head % Size) - (rx_tail % Size) + Size
  BY Now, Places
<1>2. After(rx_head) \in 0 .. HeadWide - 1 /\ After(rx_head) % Size = Succ(rx_head % Size)
  <2>1. PICK k \in Int : HeadWide = k * Size
    BY RingAssumption
  <2>2. /\ (rx_head + 1) % HeadWide \in 0 .. HeadWide - 1
        /\ ((rx_head + 1) % HeadWide) % Size = Succ(rx_head % Size)
    BY <2>1, Now, Numbers, NextPlace
  <2>3. QED
    BY <2>2 DEF After
<1>3. After(rx_head) % Size # rx_tail % Size <=> Available < Size - 1
  BY <1>1, <1>2, Numbers DEF Succ
<1>4. Len(Content) = Available
  BY Now, Contents
<1>5. Available' = Count(rx_head', rx_tail) /\ Content' = Between(rx_head', rx_tail, rx_buf')
  BY DEF Available, Count, Content, Between
<1>6. CASE Available < Size - 1
  <2>1. rx_buf' = [rx_buf EXCEPT ![rx_head % Size] = b] /\ rx_head' = After(rx_head)
    BY <1>3, <1>6 DEF Push
  <2>2. /\ rx_buf' \in Cells
        /\ Between(After(rx_head), rx_tail, rx_buf') = Append(Content, b)
    <3>1. Count(rx_head, rx_tail) < Size - 1
      BY <1>6, Now
    <3>2. /\ [rx_buf EXCEPT ![rx_head % Size] = b] \in Cells
          /\ Between(After(rx_head), rx_tail, [rx_buf EXCEPT ![rx_head % Size] = b])
               = Append(Between(rx_head, rx_tail, rx_buf), b)
      BY <3>1, Now, Pushed
    <3>3. QED
      BY <2>1, <3>2, Now
  <2>3. Available > 0 => Available' > 0
    <3>1. After(rx_head) \in Nat
      BY <1>2, Numbers
    <3>2. Available' = IF After(rx_head) % Size >= rx_tail % Size
                       THEN (After(rx_head) % Size) - (rx_tail % Size)
                       ELSE (After(rx_head) % Size) - (rx_tail % Size) + Size
      BY <1>5, <2>1, <3>1, Now, Places
    <3>3. QED
      BY <1>1, <1>2, <1>6, <3>2, Numbers DEF Succ
  <2>4. Available > 0 => rx_buf'[rx_tail % Size] = rx_buf[rx_tail % Size]
    <3>1. Available > 0 => rx_tail % Size # rx_head % Size
      BY <1>1, Numbers
    <3>2. QED
      BY <1>1, <2>1, <3>1, Now DEF Cells
  <2>5. QED
    BY <1>2, <1>4, <1>5, <1>6, <2>1, <2>2, <2>3, <2>4
<1>7. CASE ~ (Available < Size - 1)
  <2>1. rx_buf' = rx_buf /\ rx_head' = rx_head
    BY <1>3, <1>7 DEF Push
  <2>2. Available' = Available /\ Content' = Content
    BY <1>5, <2>1, Now
  <2>3. QED
    BY <1>4, <1>7, <2>1, <2>2, Now
<1>8. QED
  BY <1>6, <1>7

\* What the increment of the tail does to it.
LEMMA AdvanceDoes ==
  ASSUME RxTypeOK, Available > 0, rx_tail' = (rx_tail + 1) % TailWide,
         rx_head' = rx_head, rx_buf' = rx_buf
  PROVE  /\ rx_tail' \in 0 .. TailWide - 1
         /\ Content # <<>> /\ Head(Content) = rx_buf[rx_tail % Size]
         /\ Content' = Tail(Content)
<1>1. rx_tail' \in 0 .. TailWide - 1
  BY Now, Numbers, Z3
<1>2. Content' = Between(rx_head, rx_tail', rx_buf)
  BY DEF Content, Between, Available, Count
<1>3. /\ Content # <<>> /\ Head(Content) = rx_buf[rx_tail % Size]
      /\ Between(rx_head, (rx_tail + 1) % TailWide, rx_buf) = Tail(Content)
  BY Now, Taken
<1>4. QED
  BY <1>1, <1>2, <1>3

-----------------------------------------------------------------------------
(* The steps *)

LEMMA InitHolds == RxInit => IInv
<1> SUFFICES ASSUME RxInit PROVE IInv
  OBVIOUS
<1>1. /\ {dr, rx_byte, got, fed} \subseteq Bytes
      /\ {rxne, ore, armed, error, turn} \subseteq BOOLEAN
      /\ isr = "idle" /\ sr \in Status /\ sr.rxne = FALSE
      /\ rx_buf \in [0 .. (Size - 1) -> Bytes]
      /\ task = "check"
  BY DEF RxInit, Status
<1>2. rx_head \in 0 .. (HeadWide - 1) /\ rx_tail \in 0 .. (TailWide - 1)
  BY Numbers DEF RxInit
<1>3. QED
  BY <1>1, <1>2 DEF IInv, RxTypeOK, ListenInv, TaskInv

\* The receiver hardware, and the parts of the handler that leave the ring.
LEMMA LineSteps ==
  ASSUME IInv, NEW b \in Bytes, ByteArrives(b) \/ IsrEnter \/ IsrNothing \/ IsrErrors
  PROVE  IInv' /\ UNCHANGED <<Content, rx_byte, reader>>
<1> USE DEF IInv
<1>1. UNCHANGED <<rx_byte, rx_buf, rx_head, rx_tail, task, got, fed, turn>>
  BY DEF ByteArrives, IsrEnter, IsrNothing, IsrErrors, handler, reader
<1>2. Content' = Content /\ Available' = Available
  BY <1>1 DEF Content, Available
<1>3. TaskInv'
  BY <1>1, <1>2 DEF TaskInv
<1>4. CASE ByteArrives(b)
  <2>1. /\ UNCHANGED <<armed, error, isr, sr>>
        /\ dr' \in Bytes /\ rxne' \in BOOLEAN /\ ore' \in BOOLEAN
    BY <1>4 DEF ByteArrives, handler, RxTypeOK
  <2>2. RxTypeOK'
    BY <1>1, <2>1 DEF RxTypeOK
  <2>3. ListenInv'
    BY <2>1 DEF ListenInv
  <2>4. QED
    BY <1>1, <1>2, <1>3, <2>2, <2>3 DEF reader
<1>5. CASE IsrEnter
  <2>1. /\ isr' = "read" /\ sr' \in Status /\ UNCHANGED <<dr, rxne, ore, armed>>
        /\ error' \in BOOLEAN
    BY <1>5 DEF IsrEnter, hardware, RxTypeOK, Status
  <2>2. RxTypeOK' /\ ListenInv'
    BY <1>1, <2>1 DEF RxTypeOK, ListenInv
  <2>3. QED
    BY <1>1, <1>2, <1>3, <2>2 DEF reader
<1>6. CASE IsrNothing
  <2>1. /\ isr' = "errors" /\ ~ sr.rxne
        /\ UNCHANGED <<dr, rxne, ore, armed, error, sr>>
    BY <1>6 DEF IsrNothing, hardware
  <2>2. RxTypeOK' /\ ListenInv'
    BY <1>1, <2>1 DEF RxTypeOK, ListenInv
  <2>3. QED
    BY <1>1, <1>2, <1>3, <2>2 DEF reader
<1>7. CASE IsrErrors
  <2>1. /\ isr' = "idle" /\ armed' = (armed /\ ~ error) /\ isr = "errors"
        /\ UNCHANGED <<dr, rxne, ore, error, sr>>
    BY <1>7 DEF IsrErrors, hardware
  <2>2. RxTypeOK'
    BY <1>1, <2>1 DEF RxTypeOK
  <2>3. ListenInv'
    BY <2>1 DEF ListenInv
  <2>4. QED
    BY <1>1, <1>2, <1>3, <2>2, <2>3 DEF reader
<1>8. QED
  BY <1>1, <1>2, <1>4, <1>5, <1>6, <1>7 DEF reader

\* The byte taken from the data register.
LEMMA ReceiveStep ==
  ASSUME IInv, IsrReceive
  PROVE  /\ IInv' /\ UNCHANGED reader /\ rx_byte' = dr /\ dr \in Bytes
         /\ Content' = IF Len(Content) < Size - 1 THEN Append(Content, dr) ELSE Content
<1> USE DEF IInv
<1>1. /\ Push(dr) /\ rx_byte' = dr /\ dr' = dr /\ sr' = sr
      /\ UNCHANGED <<rx_tail, task, got, fed, turn>>
      /\ isr' \in {"idle", "read", "errors"}
      /\ rxne' = FALSE /\ armed' = TRUE /\ error' = FALSE
      /\ ore' \in BOOLEAN
  BY DEF IsrReceive, Rearm, reader
<1>2. dr \in Bytes
  BY DEF RxTypeOK
<1>3. /\ rx_buf' \in Cells /\ rx_head' \in 0 .. HeadWide - 1
      /\ Content' = IF Len(Content) < Size - 1 THEN Append(Content, dr) ELSE Content
      /\ Available > 0 => /\ Available' > 0
                          /\ rx_buf'[rx_tail % Size] = rx_buf[rx_tail % Size]
  BY <1>1, <1>2, PushDoes
<1>4. RxTypeOK'
  BY <1>1, <1>2, <1>3 DEF RxTypeOK, Cells
<1>5. ListenInv'
  BY <1>1 DEF ListenInv
<1>6. TaskInv'
  BY <1>1, <1>3 DEF TaskInv
<1>7. QED
  BY <1>1, <1>2, <1>3, <1>4, <1>5, <1>6 DEF reader

\* The task's loop.
LEMMA TaskSteps ==
  ASSUME IInv, Task
  PROVE  /\ IInv' /\ rx_byte' = rx_byte
         /\ \/ UNCHANGED Content /\ task # "advance" /\ task' # "feed" /\ task # "feed"
               /\ UNCHANGED <<fed, turn>>
            \/ UNCHANGED Content /\ task = "feed" /\ task' = "check"
               /\ fed' = got /\ turn' = ~turn
            \/ /\ Content # <<>> /\ got = Head(Content) /\ Content' = Tail(Content)
               /\ task = "advance" /\ task' = "feed" /\ UNCHANGED <<got, fed, turn>>
<1> USE DEF IInv
<1>1. /\ UNCHANGED <<dr, rxne, ore, armed, error, isr, sr, rx_byte, rx_buf, rx_head>>
      /\ rx_byte' = rx_byte
  BY DEF Task, TaskCheck, TaskRead, TaskAdvance, TaskFeed, hardware, handler
<1>2. ListenInv'
  BY <1>1 DEF ListenInv
<1>3. CASE TaskCheck
  <2>1. /\ task = "check" /\ task' = "read" /\ Available > 0
        /\ UNCHANGED <<rx_tail, got, fed, turn>>
    BY <1>3 DEF TaskCheck
  <2>2. Available' = Available /\ Content' = Content
    BY <1>1, <2>1 DEF Available, Content
  <2>3. RxTypeOK' /\ TaskInv'
    BY <1>1, <2>1, <2>2 DEF RxTypeOK, TaskInv
  <2>4. QED
    BY <1>1, <1>2, <2>1, <2>2, <2>3
<1>4. CASE TaskRead
  <2>1. task = "read" /\ Available > 0
    BY <1>4 DEF TaskRead, TaskInv
  <2>2. rx_head # rx_tail
    BY <2>1, Now, Numbers DEF Available
  <2>3. /\ task' = "advance" /\ got' = rx_buf[rx_tail % Size]
        /\ UNCHANGED <<rx_tail, fed, turn>>
    BY <1>4, <2>2 DEF TaskRead
  <2>4. Available' = Available /\ Content' = Content
    BY <1>1, <2>3 DEF Available, Content
  <2>5. got' \in Bytes
    BY <2>3, Now DEF Cells
  <2>6. RxTypeOK' /\ TaskInv'
    BY <1>1, <2>1, <2>3, <2>4, <2>5 DEF RxTypeOK, TaskInv
  <2>7. QED
    BY <1>1, <1>2, <2>1, <2>3, <2>4, <2>6
<1>5. CASE TaskAdvance
  <2>1. /\ task = "advance" /\ task' = "feed" /\ rx_tail' = (rx_tail + 1) % TailWide
        /\ UNCHANGED <<got, fed, turn>> /\ Available > 0 /\ got = rx_buf[rx_tail % Size]
    BY <1>5 DEF TaskAdvance, TaskInv
  <2>2. /\ rx_tail' \in 0 .. TailWide - 1
        /\ Content # <<>> /\ Head(Content) = rx_buf[rx_tail % Size]
        /\ Content' = Tail(Content)
    BY <1>1, <2>1, AdvanceDoes
  <2>3. RxTypeOK' /\ TaskInv'
    BY <1>1, <2>1, <2>2 DEF RxTypeOK, TaskInv
  <2>4. QED
    BY <1>1, <1>2, <2>1, <2>2, <2>3
<1>6. CASE TaskFeed
  <2>1. /\ task = "feed" /\ task' = "check" /\ fed' = got /\ turn' = ~ turn
        /\ UNCHANGED <<rx_tail, got>>
    BY <1>6 DEF TaskFeed
  <2>2. Content' = Content
    BY <1>1, <2>1 DEF Available, Content
  <2>3. RxTypeOK' /\ TaskInv'
    BY <1>1, <2>1 DEF RxTypeOK, TaskInv
  <2>4. QED
    BY <1>1, <1>2, <2>1, <2>2, <2>3
<1>7. QED
  BY <1>3, <1>4, <1>5, <1>6 DEF Task

-----------------------------------------------------------------------------
(* Theorems *)

\* Every step keeps the invariant, and is one of the queue or hidden from it.
LEMMA StepHolds ==
  ASSUME IInv, [RxNext]_rxVars
  PROVE  IInv' /\ [Queue!QueueNext]_(Queue!queueVars)
<1>1. CASE UNCHANGED rxVars
  <2>1. UNCHANGED <<dr, rxne, ore, armed, error, isr, sr, rx_byte, rx_buf, rx_head,
                    rx_tail, task, got, fed, turn>>
    BY <1>1 DEF rxVars, hardware, handler, reader
  <2>2. Content' = Content /\ Available' = Available
    BY <2>1 DEF Content, Available
  <2>3. IInv'
    BY <2>1, <2>2 DEF IInv, RxTypeOK, ListenInv, TaskInv
  <2>4. QED
    BY <2>1, <2>2, <2>3 DEF Queue!queueVars
<1>2. ASSUME NEW b \in Bytes, ByteArrives(b) \/ IsrEnter \/ IsrNothing \/ IsrErrors
      PROVE  IInv' /\ [Queue!QueueNext]_(Queue!queueVars)
  <2>1. IInv' /\ UNCHANGED <<Content, rx_byte, task, got, fed, turn>>
    BY <1>2, LineSteps DEF reader
  <2>2. QED
    BY <2>1 DEF Queue!queueVars
<1>3. CASE IsrReceive
  <2>1. /\ IInv' /\ UNCHANGED <<task, got, fed, turn>> /\ rx_byte' = dr /\ dr \in Bytes
        /\ Content' = IF Len(Content) < Size - 1 THEN Append(Content, dr) ELSE Content
    BY <1>3, ReceiveStep DEF reader
  <2>2. Queue!Offer(dr)
    BY <2>1 DEF Queue!Offer
  <2>3. QED
    BY <2>1, <2>2 DEF Queue!QueueNext
<1>4. CASE Task
  <2>1. IInv' /\ rx_byte' = rx_byte
    BY <1>4, TaskSteps
  <2>2. CASE UNCHANGED Content /\ task # "advance" /\ task' # "feed" /\ task # "feed"
             /\ UNCHANGED <<fed, turn>>
    BY <2>1, <2>2 DEF Queue!queueVars
  <2>3. CASE UNCHANGED Content /\ task = "feed" /\ task' = "check"
             /\ fed' = got /\ turn' = ~ turn
    BY <2>1, <2>3 DEF Queue!queueVars
  <2>4. CASE /\ Content # <<>> /\ got = Head(Content) /\ Content' = Tail(Content)
             /\ task = "advance" /\ task' = "feed" /\ UNCHANGED <<got, fed, turn>>
    <3>1. Queue!Get
      BY <2>1, <2>4 DEF Queue!Get
    <3>2. QED
      BY <2>1, <3>1 DEF Queue!QueueNext
  <2>5. QED
    BY <1>4, TaskSteps, <2>2, <2>3, <2>4
<1>5. \E b \in Bytes : TRUE
  BY RingAssumption
<1>6. QED
  BY <1>1, <1>2, <1>3, <1>4, <1>5 DEF RxNext, Isr

LEMMA Invariant == RxSpec => []IInv
<1>1. IInv /\ [RxNext]_rxVars => IInv'
  BY StepHolds
<1>2. QED
  BY InitHolds, <1>1, PTL DEF RxSpec

\* Every variable keeps its type, the indices in the range of their casts.
THEOREM RxTypes == RxSpec => []RxTypeOK
<1>1. IInv => RxTypeOK
  BY DEF IInv
<1>2. QED
  BY <1>1, Invariant, PTL

\* The receiver listens after every interrupt that took a byte.
THEOREM ReceiverListens == RxSpec => []ListensAfterByte
<1>1. IInv => ListensAfterByte
  BY DEF IInv, ListenInv, ListensAfterByte
<1>2. QED
  BY <1>1, Invariant, PTL

\* The safety part of Delivers, for a ring of any size: the driver, its ring
\* and the task's loop implement the byte queue, step by step.
THEOREM ImplementsQueue ==
  RxSpec => Queue!QueueInit /\ [][Queue!QueueNext]_(Queue!queueVars)
<1>1. RxInit => Queue!QueueInit
  <2> SUFFICES ASSUME RxInit PROVE Queue!QueueInit
    OBVIOUS
  <2>1. RxTypeOK
    BY InitHolds DEF IInv
  <2>2. rx_head = 0 /\ rx_tail = 0 /\ task = "check" /\ turn = FALSE
        /\ rx_byte \in Bytes /\ fed \in Bytes
    BY DEF RxInit
  <2>3. Available = 0
    BY <2>2, Numbers DEF Available
  <2>4. Content = <<>>
    BY <2>1, <2>3, Now, Contents, EmptySeq
  <2>5. QED
    BY <2>2, <2>4 DEF Queue!QueueInit
<1>2. IInv /\ [RxNext]_rxVars => [Queue!QueueNext]_(Queue!queueVars)
  BY StepHolds
<1>3. QED
  BY <1>1, <1>2, Invariant, PTL DEF RxSpec

=============================================================================
