---------------------------- MODULE GatewayProofs ----------------------------
(***************************************************************************)
(* The gateway for any number of messages, of synchronisations and of keys,*)
(* any size of the numbers and so any number of their wraps, any retries   *)
(* and any sizes of its table and queues: the types, that two pending      *)
(* commands have one number only when it has come round, and that an       *)
(* answer is taken for a command only when one of its number was received, *)
(* number 0 and frames built at the same time apart.                       *)
(***************************************************************************)
EXTENDS Gateway, TLAPS, SequenceTheorems

Servers == {"web", "tcp"}
Labels == {"idle", "polling", "number", "head", "data", "copy", "track",
           "reply", "retry", "write", "events", "broadcast"}
Builds == {"head", "data", "copy", "write"}
Counted == {"head", "data", "copy", "track"}
Held == Counted \cup {"number"}
Total == WebMsgs + TcpMsgs

Whats == Places \cup {Time, Ack, Nothing}
OwnFrames == [cmd : Whats, seq : Numbers]
Sents == [cmd : Whats, seq : Numbers, data : Whats]
Buffers == [cmd : Whats, seq : Numbers, data : Whats, crc : Whats \X Numbers \X Whats]
Commands == [cmd : Places, seq : Numbers]
Entries == [id : Places, seq : Numbers, retry : 0 .. MaxRetry, late : BOOLEAN]

TypeInv ==
  /\ pc \in [Threads -> Labels] /\ own \in [Threads -> OwnFrames] /\ txBuf \in Buffers
  /\ txQueue \in Seq(Sents) /\ Len(txQueue) <= TxMax
  /\ pending \in Seq(Entries) /\ Len(pending) <= PendingMax
  /\ seq \in Numbers /\ events \in 0 .. EventMax
  /\ json \in {"free", "web", "tcp"} /\ client \in {"free", "tcp"}
  /\ left \in [Threads -> Nat] /\ left["web"] + left["tcp"] <= Total
  /\ up \subseteq Numbers /\ raced \subseteq Numbers
  /\ delivered \subseteq Commands /\ answered \subseteq Commands

\* The number of the command that came at a place.
Numbered(c, n) == \E w \in Nat : c = Modulus * w + n

\* json_mutex covers everything between reading the number and making the
\* command pending, so that the numbers are those of the places.
NumberInv ==
  /\ \A t \in Servers : pc[t] \in Held =>
       json = t /\ own[t].cmd \in Places /\ own[t].cmd = Came - 1
       /\ Numbered(own[t].cmd, own[t].seq)
  /\ \A t \in Servers : pc[t] = "number" => own[t].seq = seq
  /\ (\A t \in Servers : pc[t] # "number") => Numbered(Came, seq)

\* Pending commands came before the next one, and before the one about to be
\* made pending; none is in the table twice.
Known(p, n) == \A i \in 1 .. Len(p) : Numbered(p[i].id, p[i].seq) /\ p[i].id < n
Distinct(p) == \A i, j \in 1 .. Len(p) : p[i].id = p[j].id => i = j
PendingInv ==
  /\ Known(pending, Came) /\ Distinct(pending)
  /\ \A t \in Servers : pc[t] \in Held => Known(pending, Came - 1)

\* A frame that is what one thread built.
Genuine(f) == /\ f.cmd # Nothing /\ (f.cmd = Time => f.seq = 0)
              /\ (f.cmd \in Places => Numbered(f.cmd, f.seq))

\* The buffer holds what the one thread that builds put there, as far as it has
\* got; of two threads that build at once both numbers are marked.
BuildInv ==
  /\ \A t \in Threads : pc[t] \in Builds => Genuine(own[t])
  /\ \A t, u \in Threads : t # u /\ pc[t] \in Builds /\ pc[u] \in Builds => own[t].seq \in raced
  /\ \A t \in Threads : pc[t] \in Builds \ {"head"} => txBuf.seq = own[t].seq \/ txBuf.seq \in raced
  /\ \A t \in Threads : pc[t] \in Builds /\ own[t].seq \notin raced =>
       txBuf.cmd = own[t].cmd /\ (pc[t] \in {"copy", "write"} => txBuf.data = own[t].cmd)

\* Frames on their way are empty, marked or genuine; the numbers that come back
\* are those of what was received.
Good(f) == f.cmd = Nothing \/ f.seq \in raced \/ (f.data = f.cmd /\ Genuine(f))
Heard(n) == n \in raced \cup {0} \/ \E d \in delivered : d.seq = n /\ Numbered(d.cmd, n)
LineInv ==
  /\ \A i \in 1 .. Len(txQueue) : Good(txQueue[i])
  /\ \A n \in up : Heard(n)
  /\ \A a \in answered : Numbered(a.cmd, a.seq) /\ Heard(a.seq)

IInv == TypeInv /\ NumberInv /\ PendingInv /\ BuildInv /\ LineInv

-----------------------------------------------------------------------------
(* The constants and the numbers *)

LEMMA Constants ==
  /\ Modulus \in Nat /\ Modulus > 0 /\ MaxRetry \in Nat
  /\ PendingMax \in Nat /\ TxMax \in Nat /\ EventMax \in Nat
  /\ PendingMax > 0 /\ TxMax > 0 /\ EventMax > 0
  /\ WebMsgs \in Nat /\ TcpMsgs \in Nat /\ Total \in Nat /\ Syncs \in Nat /\ Keys \in Nat
  /\ Numbers \subseteq Nat /\ 0 \in Numbers /\ Places \subseteq Nat
  /\ \A n \in Nat : n \in Places <=> n < Total
  BY GatewayAssumption DEF Total, Numbers, Places

\* A frame that is no command is none of the messages.
LEMMA Others ==
  /\ Time \notin Places /\ Ack \notin Places /\ Nothing \notin Places
  /\ Time # Ack /\ Time # Nothing /\ Ack # Nothing
  BY Constants, GatewayAssumption

LEMMA FirstNumber == Numbered(0, 0)
<1>1. 0 = Modulus * 0 + 0
  BY Constants
<1>2. QED
  BY <1>1 DEF Numbered

\* Counting on agrees with the places, the wrap included.
LEMMA NextNumber ==
  ASSUME NEW c \in Nat, NEW n \in Numbers, Numbered(c, n)
  PROVE  /\ (IF n + 1 < Modulus THEN n + 1 ELSE 0) \in Numbers
         /\ Numbered(c + 1, IF n + 1 < Modulus THEN n + 1 ELSE 0)
<1>1. PICK w \in Nat : c = Modulus * w + n
  BY DEF Numbered
<1>2. n \in Nat /\ n < Modulus /\ Modulus \in Nat
  BY Constants DEF Numbers
<1>3. PICK m \in Nat : m = Modulus * w
  BY <1>2
<1>4. CASE n + 1 < Modulus
  <2>1. c + 1 = Modulus * w + (n + 1)
    BY <1>1, <1>2, <1>3
  <2>2. QED
    BY <1>2, <1>4, <2>1 DEF Numbered, Numbers
<1>5. CASE ~ (n + 1 < Modulus)
  <2>1. Modulus * (w + 1) = Modulus * w + Modulus
    BY <1>2
  <2>2. Modulus = n + 1
    BY <1>2, <1>5
  <2>3. c + 1 = Modulus * (w + 1) + 0 /\ w + 1 \in Nat
    BY <1>1, <1>2, <1>3, <2>1, <2>2
  <2>4. Numbered(c + 1, 0)
    BY <2>3 DEF Numbered
  <2>5. QED
    BY <1>5, <2>4, Constants
<1>6. QED
  BY <1>4, <1>5

\* Two places of one number: the numbers have come round between them.
LEMMA RoundBetween ==
  ASSUME NEW c \in Nat, NEW d \in Nat, NEW n \in Nat, Numbered(c, n), Numbered(d, n)
  PROVE  c = d \/ CameRound(c, d)
<1>1. PICK v \in Nat : c = Modulus * v + n
  BY DEF Numbered
<1>2. PICK w \in Nat : d = Modulus * w + n
  BY DEF Numbered
<1>3. ASSUME NEW x \in Nat, NEW y \in Nat, x < y
      PROVE  Modulus * x + n + Modulus <= Modulus * y + n
  <2>1. PICK k \in Nat : y = (x + 1) + k
    <3>1. y - (x + 1) \in Nat /\ y = (x + 1) + (y - (x + 1))
      BY <1>3
    <3>2. QED
      BY <3>1
  <2>2. Modulus * y = (Modulus * x + Modulus) + Modulus * k
    BY <2>1, Constants
  <2>3. Modulus * k \in Nat /\ Modulus * x \in Nat
    BY Constants
  <2>4. ASSUME NEW a \in Nat, NEW b \in Nat, NEW e \in Nat, e = (a + Modulus) + b
        PROVE  a + n + Modulus <= e + n
    BY <2>4, Constants
  <2>5. Modulus * y \in Nat
    BY Constants
  <2>6. QED
    BY <2>2, <2>3, <2>4, <2>5
<1>4. v = w \/ v < w \/ w < v
  OBVIOUS
<1>5. QED
  BY <1>1, <1>2, <1>3, <1>4 DEF CameRound

\* A command's place is below the count of messages that came.
LEMMA CameType ==
  ASSUME TypeInv
  PROVE  Came \in Nat /\ Came <= Total /\ left["web"] \in Nat /\ left["tcp"] \in Nat
<1>1. left["web"] \in Nat /\ left["tcp"] \in Nat /\ left["web"] + left["tcp"] <= Total
  BY DEF TypeInv, Threads
<1>2. QED
  BY <1>1, Constants DEF Came, Total

-----------------------------------------------------------------------------
(* The table and the queue *)

\* A full queue takes no frame.
LEMMA QueueKeeps ==
  ASSUME NEW q \in Seq(Sents), Len(q) <= TxMax, NEW f \in Sents
  PROVE  /\ Queued(q, f) \in Seq(Sents) /\ Len(Queued(q, f)) <= TxMax
         /\ \A i \in 1 .. Len(Queued(q, f)) :
              Queued(q, f)[i] = f \/ (i \in 1 .. Len(q) /\ Queued(q, f)[i] = q[i])
<1>1. Len(q) \in Nat
  BY LenProperties
<1>2. /\ Append(q, f) \in Seq(Sents) /\ Len(Append(q, f)) = Len(q) + 1
      /\ \A i \in 1 .. Len(q) : Append(q, f)[i] = q[i]
      /\ Append(q, f)[Len(q) + 1] = f
  BY AppendProperties
<1>3. \A i \in 1 .. Len(q) + 1 : i = Len(q) + 1 \/ i \in 1 .. Len(q)
  BY <1>1
<1>4. QED
  BY <1>1, <1>2, <1>3, Constants DEF Queued

\* The table without one command.
LEMMA WithoutKeeps ==
  ASSUME NEW p \in Seq(Entries), NEW i \in 1 .. Len(p)
  PROVE  /\ Without(p, i) \in Seq(Entries) /\ Len(Without(p, i)) = Len(p) - 1
         /\ Distinct(p) => Distinct(Without(p, i))
         /\ \A n \in Int : Known(p, n) => Known(Without(p, i), n)
<1> DEFINE w == Without(p, i)
           m == Len(p) - 1
           From(k) == IF k < i THEN k ELSE k + 1
<1>1. Len(p) \in Nat /\ m \in Nat
  BY LenProperties
<1>2. w = [k \in 1 .. m |-> IF k < i THEN p[k] ELSE p[k + 1]]
  BY DEF Without
<1>3. \A k \in 1 .. m : From(k) \in 1 .. Len(p) /\ w[k] = p[From(k)]
  BY <1>1, <1>2
<1> HIDE DEF w, m
<1>4. \A k \in 1 .. Len(p) : p[k] \in Entries
  BY ElementOfSeq
<1>5. w \in [1 .. m -> Entries]
  BY <1>2, <1>3, <1>4
<1>6. w \in Seq(Entries)
  BY <1>1, <1>5, SeqDef
<1>7. Len(w) = m
  <2>1. DOMAIN w = 1 .. Len(w) /\ Len(w) \in Nat
    BY <1>6, LenProperties
  <2>2. \A x \in Int : x \in DOMAIN w <=> 1 <= x /\ x <= Len(w)
    BY <2>1
  <2>3. \A x \in Int : x \in DOMAIN w <=> 1 <= x /\ x <= m
    BY <1>5
  <2>4. \A x \in Int : (1 <= x /\ x <= Len(w)) <=> (1 <= x /\ x <= m)
    BY <2>2, <2>3
  <2>5. Len(w) \in Nat
    BY <2>1
  <2>6. QED
    BY <1>1, <2>4, <2>5
<1>8. Distinct(p) => Distinct(w)
  <2>1. \A k, l \in 1 .. m : From(k) = From(l) => k = l
    BY <1>1
  <2>2. QED
    BY <1>3, <1>7, <2>1 DEF Distinct
<1>9. \A n \in Int : Known(p, n) => Known(w, n)
  BY <1>3, <1>7 DEF Known
<1>10. QED
  BY <1>6, <1>7, <1>8, <1>9 DEF w, m

\* The table with one command's retries or lateness changed.
LEMMA MarkKeeps ==
  ASSUME NEW p \in Seq(Entries), NEW i \in 1 .. Len(p), NEW e \in Entries,
         e.seq = p[i].seq, e.id = p[i].id
  PROVE  LET q == [p EXCEPT ![i] = e] IN
         /\ q \in Seq(Entries) /\ Len(q) = Len(p)
         /\ Distinct(p) => Distinct(q)
         /\ \A n \in Int : Known(p, n) => Known(q, n)
<1> DEFINE q == [p EXCEPT ![i] = e]
<1>1. /\ q \in Seq(Entries) /\ Len(q) = Len(p)
      /\ \A j \in 1 .. Len(p) : q[j] = IF j = i THEN e ELSE p[j]
  BY ExceptSeq
<1>2. \A j \in 1 .. Len(p) : q[j].seq = p[j].seq /\ q[j].id = p[j].id
  BY <1>1
<1> HIDE DEF q
<1>3. QED
  BY <1>1, <1>2 DEF Distinct, Known, q

-----------------------------------------------------------------------------
(* What a step disturbs *)

\* A server stays inside or outside the code the lock covers.
Stays(u) == \/ pc'[u] = pc[u] /\ own'[u] = own[u]
            \/ pc[u] \in Counted /\ pc'[u] \in Counted /\ own'[u] = own[u]
            \/ pc[u] \notin Held /\ pc'[u] \notin Held

\* A step that counts nothing, keeps the servers inside or outside the code the
\* lock covers, and adds no command to the table.
LEMMA OtherSteps ==
  ASSUME TypeInv, NumberInv, PendingInv, seq' = seq, json' = json,
         left'["web"] = left["web"], left'["tcp"] = left["tcp"],
         \A u \in Servers : Stays(u),
         Distinct(pending'),
         \A n \in Int : Known(pending, n) => Known(pending', n)
  PROVE  NumberInv' /\ PendingInv'
<1>1. Came' = Came /\ Came \in Nat
  BY CameType DEF Came
<1>2. \A u \in Servers : /\ pc'[u] \in Held => pc[u] \in Held /\ own'[u] = own[u]
                         /\ pc'[u] = "number" <=> pc[u] = "number"
  BY DEF Held, Counted, Stays
<1>3. \A u \in Servers : pc[u] = "number" => pc[u] \in Held
  BY DEF Held
<1>4. NumberInv'
  BY <1>1, <1>2, <1>3 DEF NumberInv
<1>5. PendingInv'
  BY <1>1, <1>2 DEF PendingInv
<1>6. QED
  BY <1>4, <1>5

\* A step in which nobody builds.
LEMMA NoBuilding ==
  ASSUME BuildInv, txBuf' = txBuf, raced' = raced,
         \A t \in Threads : pc'[t] \in Builds => pc'[t] = pc[t] /\ own'[t] = own[t]
  PROVE  BuildInv'
<1>1. \A t \in Threads : pc'[t] \in Builds =>
        pc[t] \in Builds /\ pc'[t] = pc[t] /\ own'[t] = own[t]
  OBVIOUS
<1>2. \A t \in Threads : pc'[t] \in Builds => Genuine(own'[t])
  BY <1>1 DEF BuildInv
<1>3. \A t, u \in Threads : t # u /\ pc'[t] \in Builds /\ pc'[u] \in Builds => own'[t].seq \in raced'
  BY <1>1 DEF BuildInv
<1>4. \A t \in Threads : pc'[t] \in Builds \ {"head"} => txBuf'.seq = own'[t].seq \/ txBuf'.seq \in raced'
  BY <1>1 DEF BuildInv
<1>5. \A t \in Threads : pc'[t] \in Builds /\ own'[t].seq \notin raced' =>
        txBuf'.cmd = own'[t].cmd /\ (pc'[t] \in {"copy", "write"} => txBuf'.data = own'[t].cmd)
  BY <1>1 DEF BuildInv
<1>6. QED
  BY <1>2, <1>3, <1>4, <1>5 DEF BuildInv, Genuine

\* A step in which nothing moves on the line.
LEMMA LineRests ==
  ASSUME LineInv, raced \subseteq raced', UNCHANGED <<txQueue, up, delivered, answered>>
  PROVE  LineInv'
  BY DEF LineInv, Good, Heard

\* A thread begins a frame: of two that build both numbers are marked.
LEMMA BeginBuilds ==
  ASSUME TypeInv, BuildInv, NEW t \in Threads, NEW f \in OwnFrames, Genuine(f),
         pc[t] \notin Builds, Begin(t, f)
  PROVE  /\ BuildInv' /\ raced \subseteq raced' /\ raced' \subseteq Numbers
         /\ pc' \in [Threads -> Labels] /\ pc'[t] = "head"
         /\ own' \in [Threads -> OwnFrames] /\ own'[t] = f /\ txBuf' \in Buffers
         /\ \A u \in Threads : u # t => pc'[u] = pc[u] /\ own'[u] = own[u]
<1>1. /\ own' = [own EXCEPT ![t] = f] /\ txBuf' = [txBuf EXCEPT !.cmd = f.cmd]
      /\ pc' = [pc EXCEPT ![t] = "head"]
      /\ raced' = IF Building = {} THEN raced
                  ELSE raced \cup {f.seq} \cup {own[u].seq : u \in Building}
  BY DEF Begin, Goto
<1>2. "head" \in Labels /\ "head" \in Builds
  BY DEF Labels, Builds
<1>3. /\ pc' \in [Threads -> Labels] /\ pc'[t] = "head"
      /\ own' \in [Threads -> OwnFrames] /\ own'[t] = f
      /\ \A u \in Threads : u # t => pc'[u] = pc[u] /\ own'[u] = own[u]
  BY <1>1, <1>2 DEF TypeInv
<1>4. /\ txBuf' \in Buffers /\ txBuf'.cmd = f.cmd
      /\ txBuf'.seq = txBuf.seq /\ txBuf'.data = txBuf.data
  BY <1>1 DEF TypeInv, Buffers, OwnFrames
<1>5. Building = {u \in Threads : pc[u] \in Builds}
  BY DEF Building, Builds
<1>6. raced \subseteq raced' /\ raced' \subseteq Numbers
  <2>1. \A u \in Threads : own[u].seq \in Numbers
    BY DEF TypeInv, OwnFrames
  <2>2. f.seq \in Numbers
    BY DEF OwnFrames
  <2>3. QED
    BY <1>1, <1>5, <2>1, <2>2 DEF TypeInv
<1>7. \A u \in Threads : pc[u] \in Builds => f.seq \in raced' /\ own[u].seq \in raced'
  BY <1>1, <1>5
<1>8. BuildInv'
  <2>1. \A u \in Threads : pc'[u] \in Builds => Genuine(own'[u])
    BY <1>3 DEF BuildInv
  <2>2. \A u, v \in Threads : u # v /\ pc'[u] \in Builds /\ pc'[v] \in Builds => own'[u].seq \in raced'
    BY <1>3, <1>7
  <2>3. \A u \in Threads : pc'[u] \in Builds \ {"head"} => txBuf'.seq = own'[u].seq \/ txBuf'.seq \in raced'
    BY <1>3, <1>4, <1>6 DEF BuildInv
  <2>4. \A u \in Threads : pc'[u] \in Builds /\ own'[u].seq \notin raced' =>
          txBuf'.cmd = own'[u].cmd /\ (pc'[u] \in {"copy", "write"} => txBuf'.data = own'[u].cmd)
    BY <1>3, <1>4, <1>7
  <2>5. QED
    BY <2>1, <2>2, <2>3, <2>4 DEF BuildInv, Genuine
<1>9. QED
  BY <1>3, <1>4, <1>6, <1>8

\* The device receives and answers some of what is written.
LEMMA DeviceKeeps ==
  ASSUME TypeInv, LineInv, NEW sent \in SUBSET Sents, \A f \in sent : Good(f), Device(sent),
         raced' = raced, answered' = answered,
         \A i \in 1 .. Len(txQueue') : Good(txQueue'[i])
  PROVE  LineInv' /\ delivered' \subseteq Commands /\ up' \subseteq Numbers
<1>1. PICK got \in SUBSET {f \in sent : f.cmd \notin {Ack, Nothing}} :
        /\ delivered' = delivered \cup
             {Frame(f.cmd, f.seq) : f \in {g \in got : g.cmd # Time /\ g.data = g.cmd}}
        /\ \E replies \in SUBSET {f.seq : f \in got} : up' = up \cup replies
  BY DEF Device
<1>2. \A f \in got : f \in Sents /\ Good(f) /\ f.cmd \in Places \cup {Time}
  BY DEF Sents, Whats
<1>3. delivered \subseteq delivered' /\ delivered' \subseteq Commands
  <2>1. ASSUME NEW f \in got, f.cmd # Time PROVE Frame(f.cmd, f.seq) \in Commands
    BY <1>2, <2>1 DEF Frame, Commands, Sents
  <2>2. QED
    BY <1>1, <2>1 DEF TypeInv
<1>4. \A f \in got : Heard(f.seq)'
  <2> SUFFICES ASSUME NEW f \in got, f.seq \notin raced, f.seq # 0 PROVE Heard(f.seq)'
    BY DEF Heard
  <2>1. f.cmd # Nothing /\ f.data = f.cmd /\ Genuine(f)
    BY <1>2, Others DEF Good
  <2>2. f.cmd \in Places /\ f.cmd # Time /\ Numbered(f.cmd, f.seq)
    BY <1>2, <2>1, Others DEF Genuine
  <2>3. Frame(f.cmd, f.seq) \in delivered'
    BY <1>1, <2>1, <2>2
  <2>4. QED
    BY <2>2, <2>3 DEF Heard, Frame
<1>5. \A n : Heard(n) => Heard(n)'
  BY <1>3 DEF Heard
<1>6. \A n \in up' : Heard(n)'
  BY <1>1, <1>4, <1>5 DEF LineInv
<1>7. up' \subseteq Numbers
  BY <1>1, <1>2 DEF TypeInv, Sents
<1>8. LineInv'
  BY <1>5, <1>6 DEF LineInv, Good
<1>9. QED
  BY <1>3, <1>7, <1>8

-----------------------------------------------------------------------------
(* Initial states *)

LEMMA InitHolds == Init => IInv
<1> SUFFICES ASSUME Init PROVE IInv
  OBVIOUS
<1>1. left \in [Threads -> Nat] /\ left["web"] = WebMsgs /\ left["tcp"] = TcpMsgs
  BY Constants DEF Init, Threads
<1>2. /\ txQueue \in Seq(Sents) /\ Len(txQueue) = 0
      /\ pending \in Seq(Entries) /\ Len(pending) = 0
  BY EmptySeq DEF Init
<1>3. own \in [Threads -> OwnFrames] /\ txBuf \in Buffers
  BY Constants DEF Init, None, Frame, Buffer, OwnFrames, Buffers, Whats
<1>4. TypeInv
  BY <1>1, <1>2, <1>3, Constants DEF Init, TypeInv, Labels, Total
<1>5. Came = 0
  BY <1>1, Constants DEF Came
<1>6. NumberInv /\ BuildInv
  BY <1>5, FirstNumber DEF Init, NumberInv, BuildInv, Servers, Threads, Held, Counted, Builds
<1>7. PendingInv
  BY <1>2 DEF Init, PendingInv, Known, Distinct, Servers, Threads, Held, Counted
<1>8. LineInv
  BY <1>2 DEF Init, LineInv
<1>9. QED
  BY <1>4, <1>6, <1>7, <1>8 DEF IInv

-----------------------------------------------------------------------------
(* The servers: a message becomes a command *)

\* A message comes: json_mutex was free, so nobody else is counting.
LEMMA MessageHolds ==
  ASSUME IInv, NEW t \in Servers, Message(t) PROVE IInv'
<1> USE DEF IInv
<1>0. t \in Threads /\ Servers \subseteq Threads /\ left[t] \in Nat /\ left[t] > 0
      /\ "number" \in Labels /\ "number" \notin Builds /\ "number" \in Held
      /\ \A u \in Servers : u # json => pc[u] \notin Held
  BY DEF Servers, Threads, TypeInv, Message, NumberInv, Labels, Builds, Held
<1>1. /\ json = "free" /\ json' = t /\ left' = [left EXCEPT ![t] = left[t] - 1]
      /\ own' = [own EXCEPT ![t] = Frame(Came, seq)]
      /\ pc' = [pc EXCEPT ![t] = "number"]
      /\ UNCHANGED <<txBuf, txQueue, pending, seq, events, client, up, delivered, answered, raced>>
  BY DEF Message, JsonFree, Goto, line
<1>2. \A u \in Servers : pc[u] \notin Held
  BY <1>0, <1>1 DEF Servers
<1>3. /\ Came \in Nat /\ Came <= Total
      /\ left["web"] \in Nat /\ left["tcp"] \in Nat /\ left["web"] + left["tcp"] <= Total
  BY CameType DEF TypeInv
<1>4. /\ left' \in [Threads -> Nat] /\ left'["web"] + left'["tcp"] <= Total
      /\ left'["web"] + left'["tcp"] = left["web"] + left["tcp"] - 1
  <2>1. left' \in [Threads -> Nat]
    BY <1>0, <1>1 DEF TypeInv
  <2>2. CASE t = "web"
    BY <1>0, <1>1, <1>3, <2>2, Constants DEF TypeInv, Threads
  <2>3. CASE t = "tcp"
    BY <1>0, <1>1, <1>3, <2>3, Constants DEF TypeInv, Threads
  <2>4. QED
    BY <2>1, <2>2, <2>3 DEF Servers
<1>5. Came' = Came + 1 /\ Came' <= Total
  <2>1. left'["web"] \in Nat /\ left'["tcp"] \in Nat
    BY <1>4 DEF Threads
  <2>2. QED
    BY <1>3, <1>4, <2>1, Constants DEF Came, Total
<1>6. Came \in Places /\ Frame(Came, seq) \in OwnFrames
  BY <1>3, <1>5, Constants DEF Frame, OwnFrames, Whats, TypeInv
<1>7. TypeInv'
  <2>1. json' \in {"free", "web", "tcp"}
    BY <1>1 DEF Servers
  <2>2. pc' \in [Threads -> Labels] /\ own' \in [Threads -> OwnFrames]
    BY <1>0, <1>1, <1>6 DEF TypeInv
  <2>3. QED
    BY <1>1, <1>4, <2>1, <2>2 DEF TypeInv
<1>8. \A u \in Threads : /\ u # t => pc'[u] = pc[u] /\ own'[u] = own[u]
                         /\ u = t => pc'[u] = "number" /\ own'[u] = Frame(Came, seq)
  BY <1>0, <1>1 DEF TypeInv
<1>9. NumberInv'
  <2>1. Numbered(Came, seq)
    BY <1>2 DEF NumberInv, Held
  <2>2. \A u \in Servers : pc'[u] \in Held => u = t
    BY <1>0, <1>2, <1>8
  <2>3. own'[t].cmd = Came /\ own'[t].seq = seq /\ pc'[t] = "number" /\ json' = t
    BY <1>0, <1>1, <1>8 DEF Frame
  <2>4. Came = Came' - 1
    BY <1>3, <1>5
  <2>5. \A u \in Servers : pc'[u] \in Held =>
          json' = u /\ own'[u].cmd \in Places /\ own'[u].cmd = Came' - 1
          /\ Numbered(own'[u].cmd, own'[u].seq)
    BY <1>6, <2>1, <2>2, <2>3, <2>4
  <2>6. \A u \in Servers : pc'[u] = "number" => own'[u].seq = seq'
    BY <1>1, <2>2, <2>3 DEF Held
  <2>7. QED
    BY <2>3, <2>5, <2>6 DEF NumberInv
<1>10. PendingInv'
  <2>1. \A i \in 1 .. Len(pending) : pending[i].id \in Nat
    <3>1. \A i \in 1 .. Len(pending) : pending[i] \in Entries
      BY ElementOfSeq DEF TypeInv
    <3>2. QED
      BY <3>1, Constants DEF Entries
  <2>2. Known(pending, Came + 1)
    BY <1>3, <2>1 DEF PendingInv, Known
  <2>3. Came' - 1 = Came
    BY <1>3, <1>5
  <2>4. QED
    BY <1>1, <1>5, <2>2, <2>3 DEF PendingInv
<1>11. BuildInv'
  BY <1>0, <1>1, <1>8, NoBuilding
<1>12. LineInv'
  BY <1>1, LineRests
<1>13. QED
  BY <1>7, <1>9, <1>10, <1>11, <1>12

\* The number is counted on, and the frame begun.
LEMMA NumberHolds ==
  ASSUME IInv, NEW t \in Servers, Number(t) PROVE IInv'
<1> USE DEF IInv
<1>0. t \in Threads /\ Servers \subseteq Threads /\ pc[t] = "number" /\ pc[t] \in Held
      /\ pc[t] \notin Builds
  BY DEF Servers, Threads, Number, Held, Builds
<1>1. /\ seq' = (IF own[t].seq + 1 < Modulus THEN own[t].seq + 1 ELSE 0)
      /\ Begin(t, own[t])
      /\ UNCHANGED <<txQueue, pending, events, json, client, left, up, delivered, answered>>
  BY DEF Number, line
<1>2. /\ json = t /\ own[t].cmd \in Places /\ own[t].cmd = Came - 1
      /\ Numbered(own[t].cmd, own[t].seq) /\ own[t].seq = seq
      /\ \A u \in Servers : u # t => pc[u] \notin Held
  BY <1>0 DEF NumberInv
<1>3. own[t] \in OwnFrames /\ Genuine(own[t])
  BY <1>0, <1>2, Others DEF TypeInv, Genuine
<1>4. /\ BuildInv' /\ raced \subseteq raced' /\ raced' \subseteq Numbers
      /\ pc' \in [Threads -> Labels] /\ pc'[t] = "head"
      /\ own' \in [Threads -> OwnFrames] /\ own'[t] = own[t] /\ txBuf' \in Buffers
      /\ \A u \in Threads : u # t => pc'[u] = pc[u] /\ own'[u] = own[u]
  BY <1>0, <1>1, <1>3, BeginBuilds
<1>5. Came' = Came /\ Came \in Nat
  BY <1>1, CameType DEF Came
<1>6. seq' \in Numbers /\ Numbered(Came, seq')
  <2>1. PICK c \in Nat : c = Came - 1
    BY <1>2, Constants
  <2>2. Came = c + 1
    BY <1>5, <2>1
  <2>3. QED
    BY <1>1, <1>2, <2>1, <2>2, NextNumber DEF TypeInv
<1>7. TypeInv'
  BY <1>1, <1>4, <1>6 DEF TypeInv
<1>8. \A u \in Servers : /\ u # t => pc'[u] \notin Held
                         /\ u = t => pc'[u] = "head" /\ own'[u] = own[t]
  BY <1>0, <1>2, <1>4
<1>9. NumberInv'
  <2>1. \A u \in Servers : pc'[u] # "number"
    BY <1>8 DEF Held
  <2>2. QED
    BY <1>1, <1>2, <1>5, <1>6, <1>8, <2>1 DEF NumberInv
<1>10. PendingInv'
  BY <1>0, <1>1, <1>5 DEF PendingInv
<1>11. LineInv'
  BY <1>1, <1>4, LineRests
<1>12. QED
  BY <1>4, <1>7, <1>9, <1>10, <1>11

\* It becomes pending, unless the table is full, and the lock is given back.
LEMMA TrackHolds ==
  ASSUME IInv, NEW t \in Servers, Track(t) PROVE IInv'
<1> USE DEF IInv
<1> DEFINE e == [id |-> own[t].cmd, seq |-> own[t].seq, retry |-> 0, late |-> FALSE]
<1>0. t \in Threads /\ Servers \subseteq Threads /\ pc[t] = "track" /\ pc[t] \in Held
  BY DEF Servers, Threads, Track, Held, Counted
<1>1. /\ pending' = IF Room(pending) THEN Append(pending, e) ELSE pending
      /\ json' = "free" /\ own' = [own EXCEPT ![t] = None]
      /\ \E l \in {"reply", "idle"} : pc' = [pc EXCEPT ![t] = l]
      /\ UNCHANGED <<txBuf, txQueue, seq, events, client, left, up, delivered, answered, raced>>
  BY DEF Track, Goto, line
<1>2. /\ own[t].cmd \in Places /\ own[t].cmd = Came - 1 /\ own[t].cmd \in Nat
      /\ Numbered(own[t].cmd, own[t].seq) /\ own[t].seq \in Numbers
      /\ json = t /\ \A u \in Servers : u # t => pc[u] \notin Held
  BY <1>0, Constants DEF NumberInv, TypeInv, OwnFrames
<1>3. e \in Entries /\ e.id = Came - 1 /\ e.id \in Nat /\ Numbered(e.id, e.seq)
  BY <1>2, Constants DEF Entries
<1>4. Known(pending, e.id) /\ Came' = Came /\ Came \in Nat
  BY <1>0, <1>1, <1>2, CameType DEF PendingInv, Came
<1> HIDE DEF e
<1>5. /\ pending' \in Seq(Entries) /\ Len(pending') <= PendingMax
      /\ Known(pending', Came) /\ Distinct(pending')
  <2>1. CASE Room(pending)
    <3>1. /\ Append(pending, e) \in Seq(Entries)
          /\ Len(Append(pending, e)) = Len(pending) + 1
          /\ \A i \in 1 .. Len(pending) : Append(pending, e)[i] = pending[i]
          /\ Append(pending, e)[Len(pending) + 1] = e
      BY <1>3, AppendProperties DEF TypeInv
    <3>2. Len(pending) \in Nat /\ Len(pending) < PendingMax
      BY <2>1, LenProperties DEF Room, TypeInv
    <3>3. \A i \in 1 .. Len(pending) + 1 :
            Append(pending, e)[i] = IF i = Len(pending) + 1 THEN e ELSE pending[i]
      BY <3>1, <3>2
    <3>4. \A i \in 1 .. Len(pending) + 1 : i = Len(pending) + 1 \/ i \in 1 .. Len(pending)
      BY <3>2
    <3>5. \A i \in 1 .. Len(pending) : /\ pending[i].id \in Nat /\ pending[i].id < e.id
                                       /\ Numbered(pending[i].id, pending[i].seq)
      <4>1. \A i \in 1 .. Len(pending) : pending[i] \in Entries
        BY ElementOfSeq DEF TypeInv
      <4>2. QED
        BY <1>4, <4>1, Constants DEF Known, Entries
    <3>6. Known(Append(pending, e), Came)
      BY <1>3, <1>4, <3>1, <3>3, <3>4, <3>5 DEF Known
    <3>7. Distinct(Append(pending, e))
      BY <1>3, <3>1, <3>2, <3>3, <3>4, <3>5 DEF PendingInv, Distinct
    <3>8. QED
      BY <1>1, <2>1, <3>1, <3>2, <3>6, <3>7, Constants
  <2>2. CASE ~ Room(pending)
    BY <1>1, <2>2 DEF TypeInv, PendingInv
  <2>3. QED
    BY <2>1, <2>2
<1>6. None \in OwnFrames
  BY Constants DEF None, Frame, OwnFrames, Whats
<1>7. TypeInv'
  <2>1. pc' \in [Threads -> Labels] /\ own' \in [Threads -> OwnFrames]
    BY <1>0, <1>1, <1>6 DEF TypeInv, Labels
  <2>2. QED
    BY <1>1, <1>5, <2>1 DEF TypeInv
<1>8. /\ pc'[t] \in {"reply", "idle"}
      /\ \A u \in Threads : u # t => pc'[u] = pc[u] /\ own'[u] = own[u]
  BY <1>0, <1>1 DEF TypeInv
<1>9. \A u \in Servers : pc'[u] \notin Held
  BY <1>0, <1>2, <1>8 DEF Held, Counted
<1>10. NumberInv' /\ PendingInv'
  <2>1. Numbered(Came, seq)
    BY <1>0, <1>2 DEF NumberInv, Held
  <2>2. "number" \in Held /\ seq' = seq
    BY <1>1 DEF Held
  <2>3. NumberInv'
    BY <1>4, <1>9, <2>1, <2>2 DEF NumberInv
  <2>4. PendingInv'
    BY <1>4, <1>5, <1>9 DEF PendingInv
  <2>5. QED
    BY <2>3, <2>4
<1>11. BuildInv'
  BY <1>1, <1>8, NoBuilding DEF Builds
<1>12. LineInv'
  BY <1>1, LineRests
<1>13. QED
  BY <1>7, <1>10, <1>11, <1>12

-----------------------------------------------------------------------------
(* A frame is built, copied and written *)

\* The number, and then the rest, go into the buffer: of a thread alone there,
\* what it puts in stays; of others the numbers are marked.
LEMMA BuildHolds ==
  ASSUME IInv, NEW t \in Threads, BuildSeq(t) \/ BuildRest(t) PROVE IInv'
<1> USE DEF IInv
<1>1. /\ pc[t] \in {"head", "data"}
      /\ \E l \in {"data", "copy", "write"} :
           pc' = [pc EXCEPT ![t] = l] /\ (l = "write" => t = "main")
           /\ (pc[t] = "head" => l = "data") /\ (pc[t] = "data" => l # "data")
      /\ \/ pc[t] = "head" /\ txBuf' = [txBuf EXCEPT !.seq = own[t].seq]
         \/ pc[t] = "data" /\ txBuf' = [txBuf EXCEPT !.data = own[t].cmd,
                                           !.crc = <<txBuf.cmd, txBuf.seq, own[t].cmd>>]
      /\ UNCHANGED <<own, txQueue, pending, seq, events, json, client, left, up, delivered,
                     answered, raced>>
  BY DEF BuildSeq, BuildRest, Goto, line
<1>2. /\ pc[t] \in Builds /\ pc'[t] \in Builds \ {"head"}
      /\ (pc'[t] = "write" => t = "main") /\ (pc[t] = "head" => pc'[t] = "data")
      /\ \A u \in Threads : u # t => pc'[u] = pc[u]
      /\ pc' \in [Threads -> Labels]
  BY <1>1 DEF TypeInv, Labels, Builds
<1>3. own[t] \in OwnFrames /\ own[t].cmd \in Whats /\ own[t].seq \in Numbers
  BY DEF TypeInv, OwnFrames
<1>4. /\ txBuf' \in Buffers /\ txBuf'.cmd = txBuf.cmd
      /\ (pc[t] = "head" => txBuf'.seq = own[t].seq /\ txBuf'.data = txBuf.data)
      /\ (pc[t] = "data" => txBuf'.seq = txBuf.seq /\ txBuf'.data = own[t].cmd)
  <2>1. txBuf \in Buffers /\ txBuf.cmd \in Whats /\ txBuf.seq \in Numbers
    BY DEF TypeInv, Buffers
  <2>2. CASE pc[t] = "head"
    <3>1. txBuf' = [txBuf EXCEPT !.seq = own[t].seq]
      BY <1>1, <2>2
    <3>2. QED
      BY <1>3, <2>1, <2>2, <3>1 DEF Buffers
  <2>3. CASE pc[t] = "data"
    <3>1. txBuf' = [txBuf EXCEPT !.data = own[t].cmd,
                                 !.crc = <<txBuf.cmd, txBuf.seq, own[t].cmd>>]
      BY <1>1, <2>3
    <3>2. <<txBuf.cmd, txBuf.seq, own[t].cmd>> \in Whats \X Numbers \X Whats
      BY <1>3, <2>1
    <3>3. QED
      BY <1>3, <2>1, <2>3, <3>1, <3>2 DEF Buffers
  <2>4. QED
    BY <1>1, <2>2, <2>3
<1>5. TypeInv'
  BY <1>1, <1>2, <1>4 DEF TypeInv
<1>6. NumberInv' /\ PendingInv'
  <2>1. \A u \in Servers : Stays(u)
    <3>1. Servers \subseteq Threads /\ "main" \notin Servers
      BY DEF Servers, Threads
    <3>2. t \in Servers => pc[t] \in Counted /\ pc'[t] \in Counted
      BY <1>1, <1>2, <3>1 DEF Counted, Builds
    <3>3. QED
      BY <1>1, <1>2, <3>1, <3>2 DEF Stays
  <2>2. Distinct(pending') /\ \A n \in Int : Known(pending, n) => Known(pending', n)
    BY <1>1 DEF PendingInv
  <2>3. seq' = seq /\ json' = json /\ left' = left
    BY <1>1
  <2>4. TypeInv /\ NumberInv /\ PendingInv
    OBVIOUS
  <2>5. QED
    BY <2>1, <2>2, <2>3, <2>4, OtherSteps
<1>7. \A u \in Threads : u # t /\ pc[u] \in Builds => own[u].seq \in raced /\ own[t].seq \in raced
  BY <1>2 DEF BuildInv
<1>8. BuildInv'
  <2>1. \A u \in Threads : pc'[u] \in Builds => pc[u] \in Builds /\ own'[u] = own[u]
    BY <1>1, <1>2
  <2>2. \A u \in Threads : pc'[u] \in Builds => Genuine(own'[u])
    BY <2>1 DEF BuildInv
  <2>3. \A u, v \in Threads : u # v /\ pc'[u] \in Builds /\ pc'[v] \in Builds => own'[u].seq \in raced'
    BY <1>1, <2>1 DEF BuildInv
  <2>4. txBuf'.seq = own[t].seq \/ txBuf'.seq \in raced
    BY <1>1, <1>2, <1>4 DEF BuildInv
  <2>5. \A u \in Threads : pc'[u] \in Builds \ {"head"} => txBuf'.seq = own'[u].seq \/ txBuf'.seq \in raced'
    BY <1>1, <1>7, <2>1, <2>4
  <2>6. ASSUME NEW u \in Threads, pc'[u] \in Builds, own'[u].seq \notin raced'
        PROVE  txBuf'.cmd = own'[u].cmd /\ (pc'[u] \in {"copy", "write"} => txBuf'.data = own'[u].cmd)
    <3>1. u = t /\ own'[u] = own[t] /\ own[t].seq \notin raced
      BY <1>1, <1>7, <2>1, <2>6
    <3>2. txBuf.cmd = own[t].cmd
      BY <1>2, <3>1 DEF BuildInv
    <3>3. pc'[t] \in {"copy", "write"} => pc[t] = "data"
      BY <1>1, <1>2
    <3>4. QED
      BY <1>4, <3>1, <3>2, <3>3
  <2>7. QED
    BY <2>2, <2>3, <2>5, <2>6 DEF BuildInv, Genuine
<1>9. LineInv'
  BY <1>1, LineRests
<1>10. QED
  BY <1>5, <1>6, <1>8, <1>9

\* What the device makes of a finished buffer.
LEMMA Receives ==
  ASSUME TypeInv, BuildInv, NEW t \in Threads, pc[t] \in {"copy", "write"}
  PROVE  Received \in Sents /\ Good(Received)
<1>1. CASE txBuf.crc = <<txBuf.cmd, txBuf.seq, txBuf.data>> /\ (txBuf.cmd = Ack <=> txBuf.data = Ack)
  <2>1. Received = [cmd |-> txBuf.cmd, seq |-> txBuf.seq, data |-> txBuf.data]
    BY <1>1 DEF Received
  <2>2. Received \in Sents
    BY <2>1 DEF TypeInv, Buffers, Sents
  <2>3. pc[t] \in Builds \ {"head"} /\ own[t] \in OwnFrames
    BY DEF Builds, TypeInv
  <2>4. txBuf.seq = own[t].seq \/ txBuf.seq \in raced
    BY <2>3 DEF BuildInv
  <2>5. CASE own[t].seq \in raced
    BY <2>1, <2>2, <2>4, <2>5 DEF Good
  <2>6. CASE own[t].seq \notin raced /\ txBuf.seq \notin raced
    <3>1. txBuf.cmd = own[t].cmd /\ txBuf.data = own[t].cmd /\ txBuf.seq = own[t].seq
      BY <2>3, <2>4, <2>6 DEF BuildInv
    <3>2. Genuine(own[t])
      BY <2>3 DEF BuildInv
    <3>3. QED
      BY <2>1, <2>2, <3>1, <3>2 DEF Good, Genuine
  <2>7. CASE txBuf.seq \in raced
    BY <2>1, <2>7, <2>2 DEF Good
  <2>8. QED
    BY <2>2, <2>5, <2>6, <2>7
<1>2. CASE ~ (txBuf.crc = <<txBuf.cmd, txBuf.seq, txBuf.data>> /\ (txBuf.cmd = Ack <=> txBuf.data = Ack))
  <2>1. Received = [cmd |-> Nothing, seq |-> 0, data |-> Nothing]
    BY <1>2 DEF Received
  <2>2. QED
    BY <2>1, Constants DEF Sents, Whats, Good
<1>3. QED
  BY <1>1, <1>2

\* The buffer is copied to the queue.
LEMMA CopyHolds ==
  ASSUME IInv, NEW t \in Threads, Copy(t) PROVE IInv'
<1> USE DEF IInv
<1>1. /\ pc[t] = "copy" /\ txQueue' = Queued(txQueue, Received)
      /\ pc' = [pc EXCEPT ![t] = After(t)]
      /\ own' = IF After(t) = "track" THEN own ELSE [own EXCEPT ![t] = None]
      /\ UNCHANGED <<txBuf, pending, seq, events, json, client, left, up, delivered, answered, raced>>
  BY DEF Copy, Goto, line
<1>2. Received \in Sents /\ Good(Received)
  BY <1>1, Receives
<1>3. /\ txQueue' \in Seq(Sents) /\ Len(txQueue') <= TxMax
      /\ \A i \in 1 .. Len(txQueue') :
           txQueue'[i] = Received \/ (i \in 1 .. Len(txQueue) /\ txQueue'[i] = txQueue[i])
  BY <1>1, <1>2, QueueKeeps DEF TypeInv
<1>4. /\ After(t) \in {"track", "idle"} /\ (t \in Servers => After(t) = "track")
      /\ "copy" \in Counted /\ "track" \in Counted
      /\ Servers \subseteq Threads
  BY DEF After, Servers, Counted, Threads
<1>5. None \in OwnFrames
  BY Constants DEF None, Frame, OwnFrames, Whats
<1>6. /\ pc' \in [Threads -> Labels] /\ pc'[t] = After(t)
      /\ own' \in [Threads -> OwnFrames]
      /\ (t \in Servers => own' = own)
      /\ \A u \in Threads : u # t => pc'[u] = pc[u] /\ own'[u] = own[u]
  BY <1>1, <1>4, <1>5 DEF TypeInv, Labels
<1>7. TypeInv'
  BY <1>1, <1>3, <1>6 DEF TypeInv
<1>8. NumberInv' /\ PendingInv'
  <2>1. \A u \in Servers : Stays(u)
    BY <1>1, <1>4, <1>6 DEF Stays
  <2>2. Distinct(pending') /\ \A n \in Int : Known(pending, n) => Known(pending', n)
    BY <1>1 DEF PendingInv
  <2>3. seq' = seq /\ json' = json /\ left' = left
    BY <1>1
  <2>4. TypeInv /\ NumberInv /\ PendingInv
    OBVIOUS
  <2>5. QED
    BY <2>1, <2>2, <2>3, <2>4, OtherSteps
<1>9. BuildInv'
  <2>1. \A u \in Threads : pc'[u] \in Builds => pc'[u] = pc[u] /\ own'[u] = own[u]
    BY <1>4, <1>6 DEF Builds
  <2>2. QED
    BY <1>1, <2>1, NoBuilding
<1>10. LineInv'
  <2>1. \A i \in 1 .. Len(txQueue') : Good(txQueue'[i])
    BY <1>2, <1>3 DEF LineInv
  <2>2. QED
    BY <1>1, <2>1 DEF LineInv, Good, Heard
<1>11. QED
  BY <1>7, <1>8, <1>9, <1>10

-----------------------------------------------------------------------------
(* The other threads *)

\* What a step does to the table: it may take a command off or mark one.
Kept == /\ pending' \in Seq(Entries) /\ Len(pending') <= PendingMax /\ Distinct(pending')
        /\ \A n \in Int : Known(pending, n) => Known(pending', n)

LEMMA SameTable == ASSUME IInv, pending' = pending PROVE Kept
  BY DEF IInv, TypeInv, PendingInv, Kept

LEMMA OneLess ==
  ASSUME IInv, NEW i \in 1 .. Len(pending), pending' = Without(pending, i)
  PROVE  Kept
<1>1. Len(pending) \in Nat
  BY LenProperties DEF IInv, TypeInv
<1>2. /\ pending' \in Seq(Entries) /\ Len(pending') = Len(pending) - 1 /\ Distinct(pending')
      /\ \A n \in Int : Known(pending, n) => Known(pending', n)
  BY WithoutKeeps DEF IInv, TypeInv, PendingInv
<1>3. Len(pending') <= PendingMax
  BY <1>1, <1>2, Constants DEF IInv, TypeInv
<1>4. QED
  BY <1>2, <1>3 DEF Kept

LEMMA OneMarked ==
  ASSUME IInv, NEW i \in 1 .. Len(pending), NEW e \in Entries,
         e.seq = pending[i].seq, e.id = pending[i].id,
         pending' = [pending EXCEPT ![i] = e]
  PROVE  Kept
<1>1. LET q == [pending EXCEPT ![i] = e] IN
      /\ q \in Seq(Entries) /\ Len(q) = Len(pending)
      /\ Distinct(pending) => Distinct(q)
      /\ \A n \in Int : Known(pending, n) => Known(q, n)
  BY MarkKeeps DEF IInv, TypeInv
<1>2. Distinct(pending) /\ Len(pending) <= PendingMax
  BY DEF IInv, TypeInv, PendingInv
<1>3. QED
  BY <1>1, <1>2 DEF Kept

\* A thread that is no server begins a frame.
LEMMA BeginHolds ==
  ASSUME IInv, NEW t \in Threads \ Servers, NEW f \in OwnFrames, Genuine(f),
         pc[t] \notin Builds, Begin(t, f), Kept,
         UNCHANGED <<txQueue, seq, json, client, up, delivered, answered>>,
         events' \in 0 .. EventMax, left' \in [Threads -> Nat],
         left'["web"] = left["web"], left'["tcp"] = left["tcp"]
  PROVE  IInv'
<1> USE DEF IInv
<1>1. /\ BuildInv' /\ raced \subseteq raced' /\ raced' \subseteq Numbers
      /\ pc' \in [Threads -> Labels] /\ own' \in [Threads -> OwnFrames] /\ txBuf' \in Buffers
      /\ \A u \in Threads : u # t => pc'[u] = pc[u] /\ own'[u] = own[u]
  BY BeginBuilds
<1>2. TypeInv'
  BY <1>1 DEF TypeInv, Kept
<1>3. \A u \in Servers : Stays(u)
  BY <1>1 DEF Stays, Servers, Threads
<1>4. NumberInv' /\ PendingInv'
  <2>1. Distinct(pending') /\ \A n \in Int : Known(pending, n) => Known(pending', n)
    BY DEF Kept
  <2>2. seq' = seq /\ json' = json
    OBVIOUS
  <2>3. TypeInv /\ NumberInv /\ PendingInv
    OBVIOUS
  <2>4. QED
    BY <1>3, <2>1, <2>2, <2>3, OtherSteps
<1>5. LineInv'
  BY <1>1, LineRests
<1>6. QED
  BY <1>1, <1>2, <1>4, <1>5

\* A step that builds nothing and counts nothing.
LEMMA QuietHolds ==
  ASSUME IInv, Kept, LineInv',
         NEW t \in Threads, NEW l \in Labels \ (Builds \cup Held), pc' = [pc EXCEPT ![t] = l],
         pc[t] \notin Held \/ t \notin Servers,
         own' \in [Threads -> OwnFrames], \A u \in Threads : u # t => own'[u] = own[u],
         UNCHANGED <<txBuf, raced, seq, json, left>>,
         client' \in {"free", "tcp"}, events' \in 0 .. EventMax,
         txQueue' \in Seq(Sents), Len(txQueue') <= TxMax,
         up' \subseteq Numbers, delivered' \subseteq Commands, answered' \subseteq Commands
  PROVE  IInv'
<1> USE DEF IInv
<1>1. /\ pc' \in [Threads -> Labels] /\ pc'[t] = l
      /\ \A u \in Threads : u # t => pc'[u] = pc[u]
  BY DEF TypeInv
<1>2. TypeInv'
  BY <1>1 DEF TypeInv, Kept
<1>3. \A u \in Servers : Stays(u)
  BY <1>1 DEF Stays, Servers, Threads
<1>4. NumberInv' /\ PendingInv'
  <2>1. Distinct(pending') /\ \A n \in Int : Known(pending, n) => Known(pending', n)
    BY DEF Kept
  <2>2. seq' = seq /\ json' = json /\ left' = left
    OBVIOUS
  <2>3. TypeInv /\ NumberInv /\ PendingInv
    OBVIOUS
  <2>4. QED
    BY <1>3, <2>1, <2>2, <2>3, OtherSteps
<1>5. BuildInv'
  <2>1. \A u \in Threads : pc'[u] \in Builds => pc'[u] = pc[u] /\ own'[u] = own[u]
    BY <1>1
  <2>2. txBuf' = txBuf /\ raced' = raced /\ BuildInv
    OBVIOUS
  <2>3. QED
    BY <2>1, <2>2, NoBuilding
<1>6. QED
  BY <1>2, <1>4, <1>5

\* The locks of the clients, and the main loop between its passes.
LEMMA LocksHold ==
  ASSUME IInv, TcpPoll \/ TcpDone \/ MainPassed \/ MainEvent
               \/ (\E t \in {"tcp", "web", "main"} : WithClients(t))
  PROVE  IInv'
<1> USE DEF IInv
<1>1. \E t \in {"tcp", "web", "main"}, l \in {"idle", "polling", "events", "broadcast"} :
        /\ pc' = [pc EXCEPT ![t] = l]
        /\ pc[t] \in {"idle", "polling", "reply", "broadcast", "retry", "events"}
  BY DEF TcpPoll, TcpDone, WithClients, MainPassed, MainEvent, Goto
<1>2. UNCHANGED <<own, txBuf, raced, txQueue, pending, seq, json, left, up, delivered, answered>>
  BY DEF TcpPoll, TcpDone, WithClients, MainPassed, MainEvent, line
<1>3. client' \in {"free", "tcp"} /\ events' \in 0 .. EventMax
  <2>1. client' \in {"free", "tcp"}
    BY DEF TcpPoll, TcpDone, WithClients, MainPassed, MainEvent, TypeInv
  <2>2. events' = events \/ (events' = events - 1 /\ events > 0)
    BY DEF TcpPoll, TcpDone, WithClients, MainPassed, MainEvent
  <2>3. QED
    BY <2>1, <2>2, Constants DEF TypeInv
<1>4. Kept /\ LineInv'
  BY <1>2, SameTable, LineRests
<1>5. PICK t \in Threads, l \in Labels \ (Builds \cup Held) :
        pc' = [pc EXCEPT ![t] = l] /\ pc[t] \notin Held
  BY <1>1 DEF Threads, Labels, Builds, Held, Counted
<1>6. /\ own' \in [Threads -> OwnFrames] /\ \A u \in Threads : u # t => own'[u] = own[u]
      /\ txQueue' \in Seq(Sents) /\ Len(txQueue') <= TxMax
      /\ up' \subseteq Numbers /\ delivered' \subseteq Commands /\ answered' \subseteq Commands
  BY <1>2 DEF TypeInv
<1>7. QED
  BY <1>2, <1>3, <1>4, <1>5, <1>6, QuietHolds

\* Once a second the time is sent, or not.
LEMMA SyncHolds == ASSUME IInv, MainSync PROVE IInv'
<1> USE DEF IInv
<1>0. /\ "main" \in Threads \ Servers /\ pc["main"] \notin Builds /\ pc["main"] \notin Held
      /\ left["main"] \in Nat /\ "idle" \in Labels \ (Builds \cup Held)
  BY DEF MainSync, Threads, Servers, Builds, Held, Counted, TypeInv, Labels
<1>1. UNCHANGED <<txQueue, pending, seq, events, json, client, up, delivered, answered>>
  BY DEF MainSync, line
<1>2. Kept /\ events' \in 0 .. EventMax
  BY <1>1, SameTable DEF TypeInv
<1>3. CASE left["main"] > 0 /\ left' = [left EXCEPT !["main"] = left["main"] - 1]
           /\ Begin("main", Frame(Time, 0))
  <2>1. /\ left' \in [Threads -> Nat] /\ left'["web"] = left["web"] /\ left'["tcp"] = left["tcp"]
    BY <1>0, <1>3 DEF TypeInv, Threads
  <2>2. Frame(Time, 0) \in OwnFrames /\ Genuine(Frame(Time, 0))
    BY Constants, Others DEF Frame, OwnFrames, Whats, Genuine
  <2>3. QED
    BY <1>0, <1>1, <1>2, <1>3, <2>1, <2>2, BeginHolds
<1>4. CASE Goto("main", "idle") /\ UNCHANGED <<own, txBuf, left, raced>>
  <2>1. LineInv' /\ pc' = [pc EXCEPT !["main"] = "idle"]
    BY <1>1, <1>4, LineRests DEF Goto
  <2>2. /\ own' \in [Threads -> OwnFrames] /\ \A u \in Threads : u # "main" => own'[u] = own[u]
        /\ txQueue' \in Seq(Sents) /\ Len(txQueue') <= TxMax /\ client' \in {"free", "tcp"}
        /\ up' \subseteq Numbers /\ delivered' \subseteq Commands /\ answered' \subseteq Commands
    BY <1>1, <1>4 DEF TypeInv
  <2>3. QED
    BY <1>0, <1>1, <1>2, <1>4, <2>1, <2>2, QuietHolds
<1>5. QED
  BY <1>3, <1>4 DEF MainSync

\* The reader: an answer takes a command off the table, a key event is
\* acknowledged.
LEMMA ReaderHolds == ASSUME IInv, RxAnswer \/ RxKey PROVE IInv'
<1> USE DEF IInv
<1>0. Raised \in 0 .. EventMax
  BY Constants DEF Raised, TypeInv
<1>1. "reader" \in Threads \ Servers /\ left["reader"] \in Nat
  BY DEF Threads, Servers, TypeInv
<1>2. CASE RxAnswer
  <2>1. PICK n \in up :
          /\ up' = up \ {n} /\ events' = Raised
          /\ \/ UNCHANGED <<pending, answered>>
             \/ \E i \in First(Answered(pending, n)) :
                  /\ pending' = Without(pending, i)
                  /\ answered' = answered \cup {Frame(pending[i].id, pending[i].seq)}
    BY <1>2 DEF RxAnswer
  <2>2. UNCHANGED <<pc, own, txBuf, txQueue, seq, json, client, left, delivered, raced>>
    BY <1>2 DEF RxAnswer
  <2>3. pc["reader"] = "idle" /\ pc' = [pc EXCEPT !["reader"] = "idle"]
        /\ "idle" \in Labels \ (Builds \cup Held)
    BY <1>1, <1>2, <2>2 DEF RxAnswer, TypeInv, Labels, Builds, Held, Counted
  <2>4. Kept /\ answered' \subseteq Commands
        /\ \A a \in answered' \ answered : Numbered(a.cmd, a.seq) /\ Heard(a.seq)
    <3>1. CASE UNCHANGED <<pending, answered>>
      BY <3>1, SameTable DEF TypeInv
    <3>2. ASSUME NEW i \in First(Answered(pending, n)), pending' = Without(pending, i),
                 answered' = answered \cup {Frame(pending[i].id, pending[i].seq)}
          PROVE  Kept /\ answered' \subseteq Commands
                 /\ \A a \in answered' \ answered : Numbered(a.cmd, a.seq) /\ Heard(a.seq)
      <4>1. DOMAIN pending = 1 .. Len(pending)
        BY LenProperties DEF TypeInv
      <4>2. i \in 1 .. Len(pending) /\ pending[i].seq = n
        BY <3>2, <4>1 DEF First, Answered
      <4>3. pending[i] \in Entries /\ Numbered(pending[i].id, pending[i].seq)
        BY <4>2, ElementOfSeq DEF TypeInv, PendingInv, Known
      <4>4. Frame(pending[i].id, pending[i].seq) \in Commands
        BY <4>3 DEF Frame, Commands, Entries
      <4>5. Kept
        BY <3>2, <4>2, OneLess
      <4>6. Heard(n)
        BY <2>1 DEF LineInv
      <4>7. QED
        BY <3>2, <4>2, <4>3, <4>4, <4>5, <4>6 DEF TypeInv, Frame
    <3>3. QED
      BY <2>1, <3>1, <3>2
  <2>5. LineInv'
    BY <2>1, <2>2, <2>4 DEF LineInv, Good, Heard
  <2>6. /\ own' \in [Threads -> OwnFrames] /\ \A u \in Threads : u # "reader" => own'[u] = own[u]
        /\ txQueue' \in Seq(Sents) /\ Len(txQueue') <= TxMax /\ client' \in {"free", "tcp"}
        /\ up' \subseteq Numbers /\ delivered' \subseteq Commands /\ events' \in 0 .. EventMax
    BY <1>0, <2>1, <2>2 DEF TypeInv
  <2>7. QED
    BY <1>1, <2>2, <2>3, <2>4, <2>5, <2>6, QuietHolds
<1>3. CASE RxKey
  <2>1. PICK s \in 0 .. Modulus - 1 : Begin("reader", Frame(Ack, s))
    BY <1>3 DEF RxKey
  <2>2. /\ pc["reader"] = "idle" /\ left["reader"] > 0
        /\ left' = [left EXCEPT !["reader"] = left["reader"] - 1] /\ events' = Raised
        /\ UNCHANGED <<txQueue, pending, seq, json, client, up, delivered, answered>>
    BY <1>3 DEF RxKey, line
  <2>3. /\ left' \in [Threads -> Nat] /\ left'["web"] = left["web"] /\ left'["tcp"] = left["tcp"]
    BY <1>1, <2>2 DEF TypeInv, Threads
  <2>4. Frame(Ack, s) \in OwnFrames /\ Genuine(Frame(Ack, s))
    BY <2>1, Others DEF Frame, OwnFrames, Whats, Genuine, Numbers
  <2>5. Kept /\ pc["reader"] \notin Builds
    BY <2>2, SameTable DEF Builds
  <2>6. QED
    BY <1>0, <1>1, <2>1, <2>2, <2>3, <2>4, <2>5, BeginHolds
<1>4. QED
  BY <1>2, <1>3

\* The main loop writes what is queued, or one frame again.
LEMMA WriteHolds == ASSUME IInv, MainDrain \/ MainWrite PROVE IInv'
<1> USE DEF IInv
<1>0. /\ "main" \in Threads \ Servers /\ "retry" \in Labels \ (Builds \cup Held)
      /\ None \in OwnFrames
  BY Constants DEF Threads, Servers, Labels, Builds, Held, Counted, None, Frame, OwnFrames, Whats
<1>1. /\ pc' = [pc EXCEPT !["main"] = "retry"]
      /\ UNCHANGED <<txBuf, pending, seq, events, json, client, left, answered, raced>>
  BY DEF MainDrain, MainWrite, Goto
<1>2. /\ Kept /\ client' \in {"free", "tcp"} /\ events' \in 0 .. EventMax
      /\ answered' \subseteq Commands
  BY <1>1, SameTable DEF TypeInv
<1>3. CASE MainDrain
  <2>1. Device(ToSet(txQueue)) /\ txQueue' = <<>> /\ own' = own
    BY <1>3 DEF MainDrain
  <2>2. ToSet(txQueue) \subseteq Sents /\ \A f \in ToSet(txQueue) : Good(f)
    <3>1. DOMAIN txQueue = 1 .. Len(txQueue)
      BY LenProperties DEF TypeInv
    <3>2. QED
      BY <3>1, ElementOfSeq DEF TypeInv, ToSet, LineInv
  <2>3. /\ txQueue' \in Seq(Sents) /\ Len(txQueue') = 0 /\ Len(txQueue') <= TxMax
        /\ \A i \in 1 .. Len(txQueue') : Good(txQueue'[i])
    BY <2>1, EmptySeq, Constants
  <2>4. LineInv' /\ delivered' \subseteq Commands /\ up' \subseteq Numbers
    BY <1>1, <2>1, <2>2, <2>3, DeviceKeeps
  <2>5. own' \in [Threads -> OwnFrames] /\ \A u \in Threads : u # "main" => own'[u] = own[u]
    BY <2>1 DEF TypeInv
  <2>6. QED
    BY <1>0, <1>1, <1>2, <2>3, <2>4, <2>5, QuietHolds
<1>4. CASE MainWrite
  <2>1. /\ pc["main"] = "write" /\ Device({Received}) /\ txQueue' = txQueue
        /\ own' = [own EXCEPT !["main"] = None]
    BY <1>4 DEF MainWrite
  <2>2. {Received} \subseteq Sents /\ \A f \in {Received} : Good(f)
    BY <1>0, <2>1, Receives
  <2>3. /\ txQueue' \in Seq(Sents) /\ Len(txQueue') <= TxMax
        /\ \A i \in 1 .. Len(txQueue') : Good(txQueue'[i])
    BY <2>1 DEF TypeInv, LineInv
  <2>4. LineInv' /\ delivered' \subseteq Commands /\ up' \subseteq Numbers
    BY <1>1, <2>1, <2>2, <2>3, DeviceKeeps
  <2>5. own' \in [Threads -> OwnFrames] /\ \A u \in Threads : u # "main" => own'[u] = own[u]
    BY <1>0, <2>1 DEF TypeInv
  <2>6. QED
    BY <1>0, <1>1, <1>2, <2>3, <2>4, <2>5, QuietHolds
<1>5. QED
  BY <1>3, <1>4

\* A command is sent again, given up, or its time is over.
LEMMA RetryHolds ==
  ASSUME IInv, MainResend \/ MainGiveUp \/ (\E i \in 1 .. PendingMax : Expire(i)) PROVE IInv'
<1> USE DEF IInv
<1>0. /\ "main" \in Threads \ Servers /\ "retry" \in Labels \ (Builds \cup Held)
      /\ DOMAIN pending = 1 .. Len(pending)
      /\ \A i \in 1 .. Len(pending) : pending[i] \in Entries
  BY LenProperties, ElementOfSeq
  DEF Threads, Servers, Labels, Builds, Held, Counted, TypeInv
<1>1. /\ UNCHANGED <<txQueue, seq, events, json, client, left, up, delivered, answered>>
  BY DEF MainResend, MainGiveUp, Expire, line
<1>2. /\ txQueue' \in Seq(Sents) /\ Len(txQueue') <= TxMax /\ client' \in {"free", "tcp"}
      /\ events' \in 0 .. EventMax /\ up' \subseteq Numbers /\ delivered' \subseteq Commands
      /\ answered' \subseteq Commands
      /\ left' \in [Threads -> Nat] /\ left'["web"] = left["web"] /\ left'["tcp"] = left["tcp"]
  BY <1>1 DEF TypeInv
<1>3. CASE MainResend
  <2>1. PICK i \in First(LateOnes) :
          /\ pending[i].retry < MaxRetry
          /\ pending' = [pending EXCEPT ![i] = [pending[i] EXCEPT
                           !.retry = pending[i].retry + 1, !.late = FALSE]]
          /\ Begin("main", Frame(pending[i].id, pending[i].seq))
    BY <1>3 DEF MainResend
  <2>2. i \in 1 .. Len(pending) /\ pending[i] \in Entries
    BY <1>0, <2>1 DEF First, LateOnes
  <2>3. PICK e : e = [pending[i] EXCEPT !.retry = pending[i].retry + 1, !.late = FALSE]
    OBVIOUS
  <2>4. e \in Entries /\ e.seq = pending[i].seq /\ e.id = pending[i].id
    <3>1. PICK r : r = pending[i].retry + 1
      OBVIOUS
    <3>2. r \in 0 .. MaxRetry
      <4>1. pending[i].retry \in 0 .. MaxRetry
        BY <2>2 DEF Entries
      <4>2. MaxRetry \in Nat /\ pending[i].retry < MaxRetry
        BY <2>1, Constants
      <4>3. QED
        BY <3>1, <4>1, <4>2
    <3>3. e = [pending[i] EXCEPT !.retry = r, !.late = FALSE]
      BY <2>3, <3>1
    <3>4. QED
      BY <2>2, <3>2, <3>3 DEF Entries
  <2>5. pending' = [pending EXCEPT ![i] = e]
    BY <2>1, <2>3
  <2>6. Kept
    BY <2>2, <2>4, <2>5, OneMarked
  <2>7. /\ Frame(pending[i].id, pending[i].seq) \in OwnFrames
        /\ Genuine(Frame(pending[i].id, pending[i].seq))
    <3>1. Numbered(pending[i].id, pending[i].seq)
      BY <2>2 DEF PendingInv, Known
    <3>2. pending[i].id \in Places /\ pending[i].seq \in Numbers
      BY <2>2 DEF Entries
    <3>3. QED
      BY <3>1, <3>2, Others DEF Frame, OwnFrames, Whats, Genuine
  <2>8. pc["main"] \notin Builds
    BY <1>3 DEF MainResend, Builds
  <2>9. QED
    BY <1>0, <1>1, <1>2, <2>1, <2>6, <2>7, <2>8, BeginHolds
<1>4. CASE MainGiveUp
  <2>1. PICK i \in First(LateOnes) : pending' = Without(pending, i)
    BY <1>4 DEF MainGiveUp
  <2>2. UNCHANGED <<pc, own, txBuf, raced>> /\ pc["main"] = "retry"
    BY <1>4 DEF MainGiveUp
  <2>3. i \in 1 .. Len(pending)
    BY <1>0, <2>1 DEF First, LateOnes
  <2>4. Kept /\ LineInv'
    BY <1>1, <2>1, <2>2, <2>3, OneLess, LineRests
  <2>5. /\ pc' = [pc EXCEPT !["main"] = "retry"]
        /\ own' \in [Threads -> OwnFrames] /\ \A u \in Threads : u # "main" => own'[u] = own[u]
    BY <1>0, <2>2 DEF TypeInv
  <2>6. QED
    BY <1>0, <1>1, <1>2, <2>2, <2>4, <2>5, QuietHolds
<1>5. ASSUME NEW i \in 1 .. PendingMax, Expire(i) PROVE IInv'
  <2>1. i \in 1 .. Len(pending) /\ pending[i] \in Entries
        /\ pending' = [pending EXCEPT ![i] = [@ EXCEPT !.late = TRUE]]
        /\ UNCHANGED <<pc, own, txBuf, raced>>
    BY <1>0, <1>5 DEF Expire
  <2>2. PICK e : e = [pending[i] EXCEPT !.late = TRUE]
    OBVIOUS
  <2>3. e \in Entries /\ e.seq = pending[i].seq /\ e.id = pending[i].id
    BY <2>1, <2>2 DEF Entries
  <2>4. pending' = [pending EXCEPT ![i] = e]
    BY <2>1, <2>2
  <2>5. Kept /\ LineInv'
    BY <1>1, <2>1, <2>3, <2>4, OneMarked, LineRests
  <2>6. TypeInv'
    BY <1>1, <2>1, <2>5 DEF TypeInv, Kept
  <2>7. NumberInv' /\ PendingInv'
    <3>1. \A u \in Servers : Stays(u)
      BY <2>1 DEF Stays
    <3>2. Distinct(pending') /\ \A n \in Int : Known(pending, n) => Known(pending', n)
      BY <2>5 DEF Kept
    <3>3. seq' = seq /\ json' = json /\ left' = left
      BY <1>1
    <3>4. TypeInv /\ NumberInv /\ PendingInv
      OBVIOUS
    <3>5. QED
      BY <3>1, <3>2, <3>3, <3>4, OtherSteps
  <2>8. BuildInv'
    BY <2>1, NoBuilding
  <2>9. QED
    BY <2>5, <2>6, <2>7, <2>8
<1>6. QED
  BY <1>3, <1>4, <1>5

-----------------------------------------------------------------------------
(* Theorems *)

LEMMA Invariance == Spec => []IInv
<1>1. ASSUME IInv, [Next]_vars PROVE IInv'
  <2>1. CASE UNCHANGED vars
    <3>1. UNCHANGED <<pc, own, txBuf, txQueue, pending, seq, events, json, client, left,
                      up, delivered, answered, raced>>
      BY <2>1 DEF vars
    <3>2. TypeInv' /\ PendingInv' /\ NumberInv'
      BY <1>1, <3>1 DEF IInv, TypeInv, PendingInv, NumberInv, Known, Distinct, Came
    <3>3. LineInv' /\ BuildInv'
      BY <1>1, <3>1, LineRests, NoBuilding DEF IInv
    <3>4. QED
      BY <3>2, <3>3 DEF IInv
  <2>2. ASSUME NEW t \in Threads, Send(t) PROVE IInv'
    BY <1>1, <2>2, BuildHolds, CopyHolds DEF Send
  <2>3. CASE Main
    BY <1>1, <2>2, <2>3, LocksHold, SyncHolds, WriteHolds, RetryHolds DEF Main, Threads
  <2>4. CASE Reader
    BY <1>1, <2>2, <2>4, ReaderHolds DEF Reader, Threads
  <2>5. ASSUME NEW t \in Servers, Server(t) PROVE IInv'
    <3>1. t \in Threads /\ t \in {"tcp", "web", "main"}
      BY DEF Servers, Threads
    <3>2. CASE WithClients(t)
      BY <1>1, <3>1, <3>2, LocksHold
    <3>3. CASE Message(t) \/ Number(t) \/ Track(t)
      BY <1>1, <3>3, MessageHolds, NumberHolds, TrackHolds
    <3>4. QED
      BY <2>2, <2>5, <3>1, <3>2, <3>3 DEF Server
  <2>6. CASE Tcp
    BY <1>1, <2>5, <2>6, LocksHold DEF Tcp, Servers
  <2>7. CASE Expires
    BY <1>1, <2>7, RetryHolds DEF Expires
  <2>8. QED
    BY <1>1, <2>1, <2>3, <2>4, <2>5, <2>6, <2>7 DEF Next, Servers
<1>2. QED
  BY InitHolds, <1>1, PTL DEF Spec

\* Every variable keeps its type, the table and the queues their lengths, however
\* many commands come.
THEOREM GatewayTypes == Spec => []GatewayTypeOK
<1>1. ASSUME IInv PROVE GatewayTypeOK
  <2>1. \A i \in DOMAIN pending : /\ pending[i].id \in Places /\ pending[i].seq \in Numbers
                                  /\ pending[i].retry \in 0 .. MaxRetry
    <3>1. DOMAIN pending = 1 .. Len(pending)
      BY <1>1, LenProperties DEF IInv, TypeInv
    <3>2. \A i \in 1 .. Len(pending) : pending[i] \in Entries
      BY <1>1, ElementOfSeq DEF IInv, TypeInv
    <3>3. QED
      BY <3>1, <3>2 DEF Entries
  <2>2. \A t \in Threads : pc[t] \in Labels
    BY <1>1 DEF IInv, TypeInv
  <2>3. QED
    BY <1>1, <2>1, <2>2 DEF IInv, TypeInv, GatewayTypeOK, Labels, Commands
<1>2. QED
  BY <1>1, Invariance, PTL

\* Two pending commands have one number only when it has come round.
THEOREM NumbersAreDistinct == Spec => []OneNumberEach
<1>1. ASSUME IInv PROVE OneNumberEach
  <2>1. DOMAIN pending = 1 .. Len(pending)
    BY <1>1, LenProperties DEF IInv, TypeInv
  <2>2. \A i \in 1 .. Len(pending) : /\ pending[i].id \in Nat /\ pending[i].seq \in Nat
                                     /\ Numbered(pending[i].id, pending[i].seq)
    <3>1. \A i \in 1 .. Len(pending) : pending[i] \in Entries
      BY <1>1, ElementOfSeq DEF IInv, TypeInv
    <3>2. QED
      BY <1>1, <3>1, Constants DEF IInv, PendingInv, Known, Entries
  <2>3. SUFFICES ASSUME NEW i \in 1 .. Len(pending), NEW j \in 1 .. Len(pending),
                        i # j, pending[i].seq = pending[j].seq
                 PROVE  CameRound(pending[i].id, pending[j].id)
    BY <2>1 DEF OneNumberEach
  <2>4. pending[i].id # pending[j].id
    BY <1>1, <2>3 DEF IInv, PendingInv, Distinct
  <2>5. QED
    BY <2>2, <2>3, <2>4, RoundBetween
<1>2. QED
  BY <1>1, Invariance, PTL

\* A command is taken as answered only when one of its number was received, number
\* 0 and frames built at the same time apart.
THEOREM AnswersAreTrue == Spec => []AnsweredWasDelivered
<1>1. ASSUME IInv PROVE AnsweredWasDelivered
  <2>1. SUFFICES ASSUME NEW a \in answered, a.seq \notin raced \cup {0} PROVE Delivered(a)
    BY DEF AnsweredWasDelivered
  <2>2. Numbered(a.cmd, a.seq) /\ Heard(a.seq)
    BY <1>1 DEF IInv, LineInv
  <2>3. PICK d \in delivered : d.seq = a.seq /\ Numbered(d.cmd, a.seq)
    BY <2>1, <2>2 DEF Heard
  <2>4. a.cmd \in Nat /\ d.cmd \in Nat /\ a.seq \in Nat
    BY <1>1, Constants DEF IInv, TypeInv, Commands
  <2>5. d.cmd = a.cmd \/ CameRound(d.cmd, a.cmd)
    BY <2>2, <2>3, <2>4, RoundBetween
  <2>6. QED
    BY <2>3, <2>5 DEF Delivered
<1>2. QED
  BY <1>1, Invariance, PTL

=============================================================================
