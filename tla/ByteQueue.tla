------------------------------ MODULE ByteQueue ------------------------------
(***************************************************************************)
(* What an interrupt-driven receiver promises to the task that reads it: a *)
(* first-in first-out queue of bytes that refuses a byte only when it is   *)
(* full, and hands each byte to the reader exactly once.                   *)
(***************************************************************************)
EXTENDS Naturals, Sequences

CONSTANTS
  Bytes,  \* the values of a byte
  Cap     \* bytes the queue holds

VARIABLES
  queue,  \* bytes received and not yet read
  in,     \* the last byte received
  out,    \* the last byte handed to the reader
  turn    \* changes with every byte handed over, so that none passes unseen

queueVars == <<queue, in, out, turn>>

QueueInit ==
  /\ queue = <<>>
  /\ in \in Bytes
  /\ out \in Bytes
  /\ turn = FALSE

Offer(b) ==
  /\ in' = b
  /\ queue' = IF Len(queue) < Cap THEN Append(queue, b) ELSE queue
  /\ UNCHANGED <<out, turn>>

Get ==
  /\ queue # <<>>
  /\ out' = Head(queue)
  /\ queue' = Tail(queue)
  /\ turn' = ~turn
  /\ UNCHANGED in

QueueNext == Get \/ \E b \in Bytes : Offer(b)

QueueSpec == QueueInit /\ [][QueueNext]_queueVars /\ WF_queueVars(Get)
=============================================================================
