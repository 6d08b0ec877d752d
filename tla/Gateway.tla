------------------------------ MODULE Gateway ------------------------------
(***************************************************************************)
(* The RK3506 gateway: its four threads (main loop, serial reader, web     *)
(* server, TCP server), the serial adapter they share, and the locks.      *)
(*                                                                         *)
(* Frames are built field by field in one buffer (proto.tx_buf) that no    *)
(* lock protects, the CRC last over whatever is there, and copied from it  *)
(* afterwards; a command's number, of 8 bits, is read and written          *)
(* back in two steps; it becomes a pending command after its frame was     *)
(* queued.  tx_mutex and event_mutex are held for one step; pending_mutex  *)
(* is held by the main loop for its whole pass over the pending commands,  *)
(* json_mutex and client_mutex across the handling of a message.           *)
(***************************************************************************)
EXTENDS Integers, Sequences, SequencesExt

CONSTANTS Modulus,     \* numbers a uint8_t has, 256
          MaxRetry,    \* UART_RETRY_MAX
          PendingMax,  \* UART_PENDING_MAX
          TxMax,       \* UART_TXQUEUE_MAX
          EventMax,    \* DISP_EVENT_QUEUE_MAX
          Time, Ack, Nothing,  \* what a frame is that is no command
          WebMsgs, TcpMsgs,    \* bound: messages each kind of client sends
          Syncs, Keys,         \* bound: time synchronisations and key events
          Most                 \* bound: all of these together

ASSUME GatewayAssumption ==
  /\ {Modulus, MaxRetry, PendingMax, TxMax, EventMax} \subseteq Nat \ {0}
  /\ {WebMsgs, TcpMsgs, Syncs, Keys, Most} \subseteq Nat
  /\ Time # Ack /\ Time # Nothing /\ Ack # Nothing
  /\ {Time, Ack, Nothing} \cap Nat = {}

VARIABLES pc,         \* pc[t]: where thread t is
          own,        \* own[t]: the frame thread t is sending
          txBuf,      \* proto.tx_buf
          txQueue, pending, seq, events,
          json,       \* the holder of json_mutex, or "free"
          client,     \* the holder of client_mutex, or "free"
          left,       \* messages, synchronisations, key events to come
          up,         \* external: the numbers whose answers are under way
          delivered,  \* history: the commands the device has received whole
          answered,   \* history: the commands taken off pending by an answer
          raced       \* history: the numbers of frames built while another was

vars == <<pc, own, txBuf, txQueue, pending, seq, events, json, client, left,
          up, delivered, answered, raced>>
line == <<up, delivered>>

Threads == {"main", "reader", "web", "tcp"}

\* A frame a thread sends: a command is named by its place in the order in which
\* the messages came. A frame in the buffer has the code of one, the number of
\* one and the data of one, and crc is what its CRC was computed over.
Frame(what, s) == [cmd |-> what, seq |-> s]
None == Frame(Nothing, 0)
Buffer(cmd, s, data, crc) == [cmd |-> cmd, seq |-> s, data |-> data, crc |-> crc]

Init ==
  /\ pc = [t \in Threads |-> "idle"] /\ own = [t \in Threads |-> None]
  /\ txBuf = Buffer(Nothing, 0, Nothing, <<Nothing, 0, Nothing>>) /\ txQueue = <<>>
  /\ pending = <<>> /\ seq = 0 /\ events = 0
  /\ json = "free" /\ client = "free"
  /\ left = [web |-> WebMsgs, tcp |-> TcpMsgs, main |-> Syncs, reader |-> Keys]
  /\ up = {} /\ delivered = {} /\ answered = {} /\ raced = {}

\* Bound: something more may come.
More == WebMsgs + TcpMsgs + Syncs + Keys
        - (left["web"] + left["tcp"] + left["main"] + left["reader"]) < Most

Goto(t, label) == pc' = [pc EXCEPT ![t] = label]

\* The main loop is sending a pending command again.
Resending == own["main"].cmd \notin {Time, Nothing}
PendingFree == pc["main"] # "retry" /\ ~ Resending

Queued(q, f) == IF Len(q) < TxMax THEN Append(q, f) ELSE q
Raised == IF events < EventMax THEN events + 1 ELSE events

-----------------------------------------------------------------------------
(* proto_build and uart_send_raw: length and code, the number, the data and   *)
(* the CRC over what the buffer then holds, and the copy under the lock.      *)
(* Another thread's steps in between put its frame, or a mixture of the two,  *)
(* in the place of this one. Data of all commands are taken to be of one      *)
(* length, with which any mixture can be a valid frame.                       *)

Building == {t \in Threads : pc[t] \in {"head", "data", "copy", "write"}}
Begin(t, f) ==
  /\ own' = [own EXCEPT ![t] = f]
  /\ txBuf' = [txBuf EXCEPT !.cmd = f.cmd]
  /\ Goto(t, "head")
  /\ raced' = IF Building = {} THEN raced
              ELSE raced \cup {f.seq} \cup {own[u].seq : u \in Building}

BuildSeq(t) ==
  /\ pc[t] = "head"
  /\ txBuf' = [txBuf EXCEPT !.seq = own[t].seq]
  /\ Goto(t, "data")
  /\ UNCHANGED <<own, txQueue, pending, seq, events, json, client, left, line, answered, raced>>

BuildRest(t) ==
  /\ pc[t] = "data"
  /\ txBuf' = [txBuf EXCEPT !.data = own[t].cmd, !.crc = <<txBuf.cmd, txBuf.seq, own[t].cmd>>]
  /\ Goto(t, IF t = "main" /\ Resending THEN "write" ELSE "copy")
  /\ UNCHANGED <<own, txQueue, pending, seq, events, json, client, left, line, answered, raced>>

\* What the device makes of the buffer: a frame whose CRC is right and whose
\* length, none for an acknowledgement, agrees with its data, or nothing.
Received ==
  IF txBuf.crc = <<txBuf.cmd, txBuf.seq, txBuf.data>> /\ (txBuf.cmd = Ack <=> txBuf.data = Ack)
  THEN [cmd |-> txBuf.cmd, seq |-> txBuf.seq, data |-> txBuf.data]
  ELSE [cmd |-> Nothing, seq |-> 0, data |-> Nothing]

After(t) == IF t \in {"web", "tcp"} THEN "track" ELSE "idle"
Copy(t) ==
  /\ pc[t] = "copy"
  /\ txQueue' = Queued(txQueue, Received)
  /\ Goto(t, After(t))
  /\ own' = IF After(t) = "track" THEN own ELSE [own EXCEPT ![t] = None]
  /\ UNCHANGED <<txBuf, pending, seq, events, json, client, left, line, answered, raced>>

-----------------------------------------------------------------------------
(* The web and TCP threads: disp_handle_json and uart_send_command          *)

\* Mutant: json_mutex is not taken (or is one of each server's own).
JsonFreeAlways == TRUE
JsonFree == json = "free"

\* The TCP thread polls its clients with client_mutex held.
TcpPoll ==
  /\ pc["tcp"] = "idle" /\ client = "free"
  /\ client' = "tcp" /\ Goto("tcp", "polling")
  /\ UNCHANGED <<own, txBuf, txQueue, pending, seq, events, json, left, line, answered, raced>>
TcpDone ==
  /\ pc["tcp"] = "polling"
  /\ client' = "free" /\ Goto("tcp", "idle")
  /\ UNCHANGED <<own, txBuf, txQueue, pending, seq, events, json, left, line, answered, raced>>

\* Messages that have come, all of which become commands.
Came == WebMsgs + TcpMsgs - left["web"] - left["tcp"]

\* A message has come: seq is read ...
Message(t) ==
  /\ pc[t] = (IF t = "tcp" THEN "polling" ELSE "idle")
  /\ left[t] > 0 /\ More /\ JsonFree
  /\ json' = t /\ left' = [left EXCEPT ![t] = @ - 1]
  /\ own' = [own EXCEPT ![t] = Frame(Came, seq)]
  /\ Goto(t, "number")
  /\ UNCHANGED <<txBuf, txQueue, pending, seq, events, client, line, answered, raced>>

\* ... and written back, and the frame is built.
Number(t) ==
  /\ pc[t] = "number"
  /\ seq' = IF own[t].seq + 1 < Modulus THEN own[t].seq + 1 ELSE 0
  /\ Begin(t, own[t])
  /\ UNCHANGED <<txQueue, pending, events, json, client, left, line, answered>>

Room(p) == Len(p) < PendingMax

\* With a full table the command is not waited for.
Track(t) ==
  /\ pc[t] = "track" /\ PendingFree
  /\ pending' = IF Room(pending)
                THEN Append(pending, [id |-> own[t].cmd, seq |-> own[t].seq, retry |-> 0, late |-> FALSE])
                ELSE pending
  /\ json' = "free"
  /\ own' = [own EXCEPT ![t] = None]
  /\ Goto(t, IF t = "tcp" THEN "reply" ELSE "idle")
  /\ UNCHANGED <<txBuf, txQueue, seq, events, client, left, line, answered, raced>>

\* tcp_send (the reply, from the TCP thread) and tcp_broadcast (an event,
\* from the main loop) take client_mutex themselves.
WithClients(t) ==
  /\ pc[t] \in {"reply", "broadcast"} /\ client = "free"
  /\ Goto(t, IF t = "tcp" THEN "polling" ELSE "events")
  /\ UNCHANGED <<own, txBuf, txQueue, pending, seq, events, json, client, left, line, answered, raced>>

-----------------------------------------------------------------------------
(* The reader thread: process_rx and on_uart_frame_cb                       *)

\* Mutant: a command that was given up or answered stays in the table.
WithoutNone(p, i) == p
Without(p, i) == [k \in 1 .. Len(p) - 1 |-> IF k < i THEN p[k] ELSE p[k + 1]]

\* Mutant: any answer is taken for the oldest command's.
AnsweredAny(p, n) == DOMAIN p
Answered(p, n) == {i \in DOMAIN p : p[i].seq = n}

First(S) == {i \in S : \A j \in S : i <= j}

RxAnswer ==
  /\ pc["reader"] = "idle" /\ PendingFree
  /\ \E n \in up :
       LET hits == Answered(pending, n) IN
       /\ up' = up \ {n} /\ events' = Raised
       /\ \/ hits = {} /\ UNCHANGED <<pending, answered>>
          \/ \E i \in First(hits) : /\ pending' = Without(pending, i)
                                    /\ answered' = answered \cup {Frame(pending[i].id, pending[i].seq)}
  /\ UNCHANGED <<pc, own, txBuf, txQueue, seq, json, client, left, delivered, raced>>

\* A key event is acknowledged under its own number, without waiting.
RxKey ==
  /\ pc["reader"] = "idle" /\ left["reader"] > 0 /\ More
  /\ left' = [left EXCEPT !["reader"] = @ - 1]
  /\ events' = Raised
  /\ \E s \in 0 .. Modulus - 1 : Begin("reader", Frame(Ack, s))
  /\ UNCHANGED <<txQueue, pending, seq, json, client, line, answered>>

-----------------------------------------------------------------------------
(* The main loop, and the device at the other end: it receives what is      *)
(* written, or it is lost; it answers what it receives, unless it is an     *)
(* acknowledgement or does not pass its test, or the answer is lost.        *)

Device(sent) ==
  \E got \in SUBSET {f \in sent : f.cmd \notin {Ack, Nothing}} :
    /\ delivered' = delivered \cup
         {Frame(f.cmd, f.seq) : f \in {g \in got : g.cmd # Time /\ g.data = g.cmd}}
    /\ \E replies \in SUBSET {f.seq : f \in got} : up' = up \cup replies

\* uart_poll: everything queued is written, then the pending commands are
\* gone through with pending_mutex held.
MainDrain ==
  /\ pc["main"] = "idle"
  /\ Device(ToSet(txQueue)) /\ txQueue' = <<>>
  /\ Goto("main", "retry")
  /\ UNCHANGED <<own, txBuf, pending, seq, events, json, client, left, answered, raced>>

LateOnes == {i \in DOMAIN pending : pending[i].late}

MainResend ==
  /\ pc["main"] = "retry"
  /\ \E i \in First(LateOnes) :
       LET c == pending[i] IN
       /\ c.retry < MaxRetry
       /\ pending' = [pending EXCEPT ![i] = [c EXCEPT !.retry = c.retry + 1, !.late = FALSE]]
       /\ Begin("main", Frame(c.id, c.seq))
  /\ UNCHANGED <<txQueue, seq, events, json, client, left, line, answered>>

\* A frame sent again does not pass through the queue.
MainWrite ==
  /\ pc["main"] = "write"
  /\ Device({Received})
  /\ own' = [own EXCEPT !["main"] = None]
  /\ Goto("main", "retry")
  /\ UNCHANGED <<txBuf, txQueue, pending, seq, events, json, client, left, answered, raced>>

MainGiveUp ==
  /\ pc["main"] = "retry"
  /\ \E i \in First(LateOnes) : /\ pending[i].retry >= MaxRetry
                                /\ pending' = Without(pending, i)
  /\ UNCHANGED <<pc, own, txBuf, txQueue, seq, events, json, client, left, line, answered, raced>>

MainPassed ==
  /\ pc["main"] = "retry" /\ LateOnes = {}
  /\ Goto("main", "events")
  /\ UNCHANGED <<own, txBuf, txQueue, pending, seq, events, json, client, left, line, answered, raced>>

\* disp_poll_event: the event goes to the web clients (web_broadcast wakes
\* the web thread) and then to the TCP clients.
MainEvent ==
  /\ pc["main"] = "events" /\ events > 0
  /\ events' = events - 1 /\ Goto("main", "broadcast")
  /\ UNCHANGED <<own, txBuf, txQueue, pending, seq, json, client, left, line, answered, raced>>

\* disp_tick_time_sync: once a second, always under number 0.
MainSync ==
  /\ pc["main"] = "events" /\ events = 0
  /\ \/ /\ left["main"] > 0 /\ More
        /\ left' = [left EXCEPT !["main"] = @ - 1]
        /\ Begin("main", Frame(Time, 0))
     \/ Goto("main", "idle") /\ UNCHANGED <<own, txBuf, left, raced>>
  /\ UNCHANGED <<txQueue, pending, seq, events, json, client, line, answered>>

-----------------------------------------------------------------------------
(* Time *)

Expire(i) ==
  /\ i \in DOMAIN pending /\ ~ pending[i].late
  /\ pending' = [pending EXCEPT ![i] = [@ EXCEPT !.late = TRUE]]
  /\ UNCHANGED <<pc, own, txBuf, txQueue, seq, events, json, client, left, line, answered, raced>>

Send(t) == BuildSeq(t) \/ BuildRest(t) \/ Copy(t)
Main == MainDrain \/ MainResend \/ MainWrite \/ MainGiveUp \/ MainPassed
        \/ MainEvent \/ MainSync \/ Send("main") \/ WithClients("main")
Reader == RxAnswer \/ RxKey \/ Send("reader")
Server(t) == Message(t) \/ Number(t) \/ Send(t) \/ Track(t) \/ WithClients(t)
Tcp == TcpPoll \/ TcpDone \/ Server("tcp")
Expires == \E i \in 1 .. PendingMax : Expire(i)

Next == Main \/ Reader \/ Server("web") \/ Tcp \/ Expires

\* Each thread goes on when it can again and again: a lock is held for a
\* short time and the TCP thread and the main loop sleep between rounds.
\* Nothing is assumed of the device or of the clients.
Fairness ==
  /\ SF_vars(Main) /\ SF_vars(Tcp)
  /\ SF_vars(Number("web") \/ Send("web") \/ Track("web"))
  /\ WF_vars(Expires)

Spec == Init /\ [][Next]_vars /\ Fairness

-----------------------------------------------------------------------------
(* Properties *)

Numbers == 0 .. Modulus - 1
Places == 0 .. WebMsgs + TcpMsgs - 1

GatewayTypeOK ==
  /\ \A t \in Threads : pc[t] \in {"idle", "polling", "number", "head", "data", "copy", "track",
                                   "reply", "retry", "write", "events", "broadcast"}
  /\ Len(pending) <= PendingMax
  /\ \A i \in DOMAIN pending : /\ pending[i].id \in Places /\ pending[i].seq \in Numbers
                               /\ pending[i].retry \in 0 .. MaxRetry
  /\ Len(txQueue) <= TxMax /\ events \in 0 .. EventMax /\ seq \in Numbers
  /\ json \in {"free", "web", "tcp"} /\ client \in {"free", "tcp"}
  /\ answered \cup delivered \subseteq [cmd : Places, seq : Numbers]
  /\ up \cup raced \subseteq Numbers

\* The 8-bit number has come round between commands c and d.
CameRound(c, d) == c + Modulus <= d \/ d + Modulus <= c

\* Two commands waiting for an answer have the same number only when it has come
\* round, though the threads of both servers count it on without a lock of the
\* adapter.
OneNumberEach ==
  \A i, j \in DOMAIN pending :
    i # j /\ pending[i].seq = pending[j].seq => CameRound(pending[i].id, pending[j].id)

\* A command is taken as answered only when the device has received it, or one
\* of the same number before or after the numbers came round, as long as no
\* frame of its number was built while another thread built one (what becomes of
\* those is MixedAnswersAreTrue) and its number is not that of the time
\* synchronisation (NumberNamesOneFrame).
Delivered(a) == \E d \in delivered : d.seq = a.seq /\ (d.cmd = a.cmd \/ CameRound(d.cmd, a.cmd))
AnsweredWasDelivered ==
  \A a \in answered : a.seq \notin raced \cup {0} => Delivered(a)

\* A command that waits is answered or given up, whatever the device does,
\* unless the main loop waits for the lock the TCP thread holds and waits for.
Waiting(c) == \E i \in DOMAIN pending : pending[i].id = c
Settles ==
  \A c \in Places :
    Waiting(c) ~> (~ Waiting(c) \/ (pc["main"] = "broadcast" /\ pc["tcp"] = "reply"))

\* rk3506/src/main.c: the response is sent from the TCP message callback.
TcpReplies == (pc["tcp"] = "reply") ~> (pc["tcp"] # "reply")

\* An answer carries the number of the frame it answers, and numbers are counted
\* on (docs/protocol-uart.md:202): a command of number 0 that is taken as answered
\* was received.
NumberNamesOneFrame == \A a \in answered : a.seq = 0 /\ raced = {} => Delivered(a)

\* The same of frames built at the same time.
MixedAnswersAreTrue == \A a \in answered : a.seq # 0 => Delivered(a)

\* A command is sent with a wait for its answer (uart_adapter.h:76).
CommandsAreWaitedFor ==
  [][\A t \in {"web", "tcp"} :
       pc[t] = "track" /\ pc'[t] # "track" =>
         \E i \in DOMAIN pending' : pending'[i].id = own[t].cmd]_vars

=============================================================================
