------------------------------- MODULE UartRx -------------------------------
(***************************************************************************)
(* Reception on USART1: the receiver hardware, the HAL interrupt handler,  *)
(* the driver's receive callback with its ring buffer, and the task that   *)
(* drains the ring. The debug console's USART2 has the same structure; its *)
(* ring differs only in that its head, too, counts over the whole uint16,  *)
(* which is why the range of the head is a constant here.                  *)
(***************************************************************************)
EXTENDS Integers, Sequences

CONSTANTS
  Bytes,     \* the values of a byte
  Size,      \* UART_RX_BUF_SIZE
  HeadWide,  \* values of rx_head: Size on USART1, 2^16 on the console
  TailWide   \* values of rx_tail: 2^16

ASSUME RingAssumption ==
  /\ Bytes # {}
  /\ Size \in Nat \ {0, 1} /\ HeadWide \in Nat /\ TailWide \in Nat
  /\ \E k \in 1..HeadWide : HeadWide = k * Size
  /\ \E k \in 1..TailWide : TailWide = k * Size

VARIABLES
  dr,       \* data register
  rxne,     \* status bit: the data register holds an unread byte
  ore,      \* status bit: a byte was lost because it did
  armed,    \* RxState is BUSY_RX and the receive and error interrupts are on
  error,    \* ErrorCode holds HAL_UART_ERROR_ORE
  isr,      \* where the interrupt handler is
  sr,       \* the status it read
  rx_byte,  \* the byte it took from the data register
  rx_buf, rx_head, rx_tail,  \* the ring
  task,     \* where the task's loop is
  got,      \* user_app_comm_process's rx_byte: the last byte read
  fed,      \* the last byte given to the protocol parser
  turn      \* changes with every byte given to the parser

hardware == <<dr, rxne, ore>>
handler == <<armed, error, isr, sr, rx_byte, rx_buf, rx_head>>
reader == <<rx_tail, task, got, fed, turn>>
rxVars == <<hardware, handler, reader>>

Status == [rxne : BOOLEAN, ore : BOOLEAN]

RxInit ==
  /\ dr \in Bytes /\ rxne = FALSE /\ ore = FALSE
  /\ armed = TRUE /\ error = FALSE
  /\ isr = "idle" /\ sr = [rxne |-> FALSE, ore |-> FALSE]
  /\ rx_byte = dr
  /\ rx_buf = [i \in 0..(Size - 1) |-> dr]
  /\ rx_head = 0 /\ rx_tail = 0
  /\ task = "check" /\ got = dr /\ fed = dr /\ turn = FALSE

-----------------------------------------------------------------------------
(* The ring *)

\* Mutant: the test that a byte is there compares the two indices as they are.
AvailableUnmasked == IF rx_head = rx_tail THEN 0 ELSE 1
Available == (rx_head - rx_tail) % Size

After(h) == (h + 1) % HeadWide

\* The driver's part of the receive callback: a full ring refuses the byte.
Push(b) ==
  IF After(rx_head) % Size # rx_tail % Size
    THEN /\ rx_buf' = [rx_buf EXCEPT ![rx_head % Size] = b]
         /\ rx_head' = After(rx_head)
    ELSE UNCHANGED <<rx_buf, rx_head>>

-----------------------------------------------------------------------------
(* Hardware and interrupt handler *)

\* A byte is complete in the shift register; when the last one was not read it
\* is lost and the overrun bit set. The handler, masked by a critical section or
\* stalled by a flash erase, may be a whole byte late at any of its steps.
ByteArrives(b) ==
  /\ IF rxne THEN ore' = TRUE /\ UNCHANGED <<dr, rxne>>
             ELSE dr' = b /\ rxne' = TRUE /\ UNCHANGED ore
  /\ UNCHANGED <<handler, reader>>

\* The handler reads the status register.
IsrEnter ==
  /\ isr = "idle" /\ armed /\ (rxne \/ ore)
  /\ sr' = [rxne |-> rxne, ore |-> ore]
  /\ error' = (error \/ ore)
  /\ isr' = "read"
  /\ UNCHANGED <<hardware, armed, rx_byte, rx_buf, rx_head, reader>>

\* The re-arm of the callback. The HAL has just made the receiver ready, so
\* that it succeeds; it also clears ErrorCode.
\* Mutant: the callback does not start the next reception.
RearmForgotten == armed' = FALSE /\ UNCHANGED error
Rearm == armed' = TRUE /\ error' = FALSE

\* It reads the data register, which ends the overrun it had seen in the
\* status, and calls back. One that came after the status was read stays.
IsrReceive ==
  /\ isr = "read" /\ sr.rxne
  /\ rxne' = FALSE
  /\ ore' = (ore /\ ~sr.ore)
  /\ rx_byte' = dr
  /\ Push(dr)
  /\ Rearm
  /\ isr' = IF sr.ore THEN "errors" ELSE "idle"
  /\ UNCHANGED <<dr, sr, reader>>

\* An overrun without a byte to read.
IsrNothing ==
  /\ isr = "read" /\ ~sr.rxne
  /\ isr' = "errors"
  /\ UNCHANGED <<hardware, armed, error, sr, rx_byte, rx_buf, rx_head, reader>>

\* An overrun still recorded in ErrorCode ends the reception. Nobody redefines
\* HAL_UART_ErrorCallback.
IsrErrors ==
  /\ isr = "errors"
  /\ armed' = (armed /\ ~error)
  /\ isr' = "idle"
  /\ UNCHANGED <<hardware, error, sr, rx_byte, rx_buf, rx_head, reader>>

-----------------------------------------------------------------------------
(* The task *)

\* The loop's test.
TaskCheck ==
  /\ task = "check" /\ Available > 0
  /\ task' = "read"
  /\ UNCHANGED <<hardware, handler, rx_tail, got, fed, turn>>

\* uart_drv_read_byte up to its increment, with its own test of the indices.
TaskRead ==
  /\ task = "read"
  /\ IF rx_head = rx_tail
       THEN task' = "feed" /\ UNCHANGED got
       ELSE task' = "advance" /\ got' = rx_buf[rx_tail % Size]
  /\ UNCHANGED <<hardware, handler, rx_tail, fed, turn>>

TaskAdvance ==
  /\ task = "advance"
  /\ rx_tail' = (rx_tail + 1) % TailWide
  /\ task' = "feed"
  /\ UNCHANGED <<hardware, handler, got, fed, turn>>

\* proto_feed_byte gets the caller's byte whether or not the driver found one.
TaskFeed ==
  /\ task = "feed"
  /\ fed' = got
  /\ turn' = ~turn
  /\ task' = "check"
  /\ UNCHANGED <<hardware, handler, rx_tail, got>>

Isr == IsrEnter \/ IsrReceive \/ IsrNothing \/ IsrErrors
Task == TaskCheck \/ TaskRead \/ TaskAdvance \/ TaskFeed
RxNext == Isr \/ Task \/ \E b \in Bytes : ByteArrives(b)

\* The task is woken by every byte and by its 2 ms timeout.
RxSpec == RxInit /\ [][RxNext]_rxVars /\ WF_rxVars(Isr) /\ WF_rxVars(Task)

-----------------------------------------------------------------------------
(* Properties *)

\* Every variable has its type: the indices stay in the range the casts of
\* uart_drv_rx_callback and of read_byte give them.
RxTypeOK ==
  /\ {dr, rx_byte, got, fed} \subseteq Bytes
  /\ {rxne, ore, armed, error, turn} \subseteq BOOLEAN
  /\ isr \in {"idle", "read", "errors"} /\ sr \in Status
  /\ rx_buf \in [0..(Size - 1) -> Bytes]
  /\ rx_head \in 0..(HeadWide - 1) /\ rx_tail \in 0..(TailWide - 1)
  /\ task \in {"check", "read", "advance", "feed"}

\* The bytes between tail and head, as available() and read_byte see them.
Content == [i \in 1..Available |-> rx_buf[(rx_tail + i - 1) % Size]]

\* The driver, its ring and the task's loop implement a queue that holds one
\* byte less than the ring: every byte of the callback is refused or given to
\* the parser exactly once and in order, whatever the interleaving of the
\* handler with the loop and however often the indices wrap; a byte is refused
\* only when Size - 1 wait, and one that waits is read in the end.
Queue == INSTANCE ByteQueue WITH
  Cap <- Size - 1, queue <- Content, in <- rx_byte,
  out <- (IF task = "feed" THEN got ELSE fed),
  turn <- (IF task = "feed" THEN ~turn ELSE turn)
Delivers == Queue!QueueSpec

\* After every interrupt that took a byte the receiver is listening, with or
\* without an overrun: the handler ends a reception when ErrorCode shows one,
\* nothing but the callback starts it again, and the callback comes first.
ListensAfterByte == isr = "idle" /\ sr.rxne => armed

\* Outside the handler the receiver is listening, whatever went wrong on the
\* line: what the design document relies on when it keeps this driver.
RecoversFromErrors == isr = "idle" => armed
=============================================================================
