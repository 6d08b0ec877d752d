---------------------------- MODULE AppCommands ----------------------------
(***************************************************************************)
(* The running application carrying out the host's commands: comm_task     *)
(* hands a command to the task that owns the data and waits for its        *)
(* result before it answers; display_task owns the texts on the screen,    *)
(* storage_task the configuration in RAM and in flash. The host (the PC    *)
(* program) keeps what is not acknowledged and sends it again.             *)
(*                                                                         *)
(* Two commands stand for the rest: "text" (CMD_TEXT_CONTENT) has one      *)
(* owner and waits for one result, as do the mode, time and weather        *)
(* commands; "boot" (CMD_BOOT_TEXT) has two owners and waits for two.      *)
(* Times are left out: a wait may run out whenever nothing is on its way   *)
(* that must come sooner.                                                  *)
(***************************************************************************)
EXTENDS Naturals, Sequences

CONSTANTS
  Texts,       \* the contents of texts
  Default,     \* the boot text of a device without a valid configuration
  Lost,        \* the configuration sector holds none
  SeqRange,    \* sequence numbers of frames, 2^8
  DispLen,     \* DISP_CMD_QUEUE_LEN
  StoreLen,    \* STORAGE_CMD_QUEUE_LEN
  ResultLen,   \* CMD_RESULT_QUEUE_LEN
  Retries,     \* times the host sends a command again
  Pending,     \* bound: commands the host has outstanding
  Waiting,     \* bound: frames in the device's receive ring
  Prompt,      \* whether display_task serves its queue within every wait
  FlashFaults  \* whether erasing and programming may fail

ASSUME CommandAssumption ==
  /\ Default \in Texts /\ Lost \notin Texts
  /\ {SeqRange, DispLen, StoreLen, ResultLen, Pending, Waiting} \subseteq Nat \ {0}
  /\ Retries \in Nat
  /\ Prompt \in BOOLEAN /\ FlashFaults \in BOOLEAN

VARIABLES
  pending,  \* host: g_pendingAcks, commands with the times they were sent again
  nextSeq,  \* host: g_seq
  rx,       \* frames in the device's receive ring
  comm,     \* comm_task: where it is, its frame, results counted
  dispQ,    \* g_disp_cmd_queue
  storeQ,   \* g_storage_cmd_queue
  results,  \* g_cmd_result_queue
  shown,    \* content_text of the display manager
  saving,   \* storage_task: the command whose save is under way
  config,   \* boot text of the configuration in RAM
  flash,    \* boot text of the configuration in flash
  handled   \* history: boot texts storage_task has put in RAM since the host
            \* first sent them and since the last reset

host == <<pending, nextSeq>>
store == <<saving, config, flash, handled>>
appVars == <<host, rx, comm, dispQ, storeQ, results, shown, store>>

Kinds == {"text", "boot"}
Frames == [kind : Kinds, seq : 0..(SeqRange - 1), text : Texts]
NoFrame == [kind |-> "none", seq |-> 0, text |-> Default]
Idle == [at |-> "idle", frame |-> NoFrame, count |-> 0]
Expected(f) == IF f.kind = "boot" THEN 2 ELSE 1

AppInit ==
  /\ pending = <<>> /\ nextSeq = 0
  /\ rx = <<>>
  /\ comm = Idle
  /\ dispQ = <<>> /\ storeQ = <<>> /\ results = <<>>
  /\ shown = Default
  /\ saving = NoFrame /\ config = Default /\ flash = Default
  /\ handled = {}

-----------------------------------------------------------------------------
(* The host *)

\* The line loses a frame or brings it to the receive ring.
Transmit(f) ==
  \/ UNCHANGED rx
  \/ Len(rx) < Waiting /\ rx' = Append(rx, f)

\* Bound: of 256 numbers none comes round while it is still in use; with the
\* few of a small instance the host waits for that.
InUse == {pending[i].frame.seq : i \in DOMAIN pending} \cup {rx[i].seq : i \in DOMAIN rx}
  \cup {dispQ[i].seq : i \in DOMAIN dispQ} \cup {storeQ[i].seq : i \in DOMAIN storeQ}
  \cup {results[i].seq : i \in DOMAIN results}
  \cup {f.seq : f \in {comm.frame, saving} \ {NoFrame}}

SendCommand(kind, text) ==
  LET f == [kind |-> kind, seq |-> nextSeq, text |-> text] IN
  /\ nextSeq \notin InUse
  /\ Len(pending) < Pending
  /\ pending' = Append(pending, [frame |-> f, retries |-> 0])
  /\ nextSeq' = (nextSeq + 1) % SeqRange
  /\ handled' = {g \in handled : g.seq # nextSeq}
  /\ Transmit(f)
  /\ UNCHANGED <<comm, dispQ, storeQ, results, shown, saving, config, flash>>

\* Only the oldest command is sent again, and dropped after Retries times.
CheckRetransmit ==
  LET t == Head(pending) IN
  /\ pending # <<>>
  /\ IF t.retries >= Retries
       THEN pending' = Tail(pending) /\ UNCHANGED rx
       ELSE /\ pending' = [pending EXCEPT ![1] = [t EXCEPT !.retries = @ + 1]]
            /\ Transmit(t.frame)
  /\ UNCHANGED <<nextSeq, comm, dispQ, storeQ, results, shown, store>>

\* An ACK removes the oldest command with its number, unless the line loses it.
\* NAKs are not looked at.
HostAck(seq) ==
  LET same == {i \in DOMAIN pending : pending[i].frame.seq = seq} IN
  \/ UNCHANGED pending
  \/ \E i \in same :
       /\ \A j \in same : i <= j
       /\ pending' = SubSeq(pending, 1, i - 1) \o SubSeq(pending, i + 1, Len(pending))

-----------------------------------------------------------------------------
(* comm_task: process_frame *)

Nak == comm' = Idle

CommTake ==
  /\ comm.at = "idle" /\ rx # <<>>
  /\ rx' = Tail(rx)
  /\ comm' = [at |-> IF Head(rx).kind = "boot" THEN "store" ELSE "disp",
              frame |-> Head(rx), count |-> 0]
  /\ UNCHANGED <<host, dispQ, storeQ, results, shown, store>>

\* A queue that stays full for 20 ms makes the answer NAK_BUSY; what an earlier
\* queue has taken stays there.
CommStore ==
  /\ comm.at = "store"
  /\ IF Len(storeQ) < StoreLen
       THEN storeQ' = Append(storeQ, comm.frame) /\ comm' = [comm EXCEPT !.at = "disp"]
       ELSE Nak /\ UNCHANGED storeQ
  /\ UNCHANGED <<host, rx, dispQ, results, shown, store>>

CommDisp ==
  /\ comm.at = "disp"
  /\ IF Len(dispQ) < DispLen
       THEN dispQ' = Append(dispQ, comm.frame) /\ comm' = [comm EXCEPT !.at = "wait"]
       ELSE Nak /\ UNCHANGED dispQ
  /\ UNCHANGED <<host, rx, storeQ, results, shown, store>>

\* Mutants: neither number nor command of a result is compared; its number is not.
OursAny(r) == r.seq \in 0..(SeqRange - 1)
OursOfKind(r) == r.kind = comm.frame.kind
Ours(r) == r.seq = comm.frame.seq /\ r.kind = comm.frame.kind

\* comm_wait_results, one result: others are dropped, an error ends the wait,
\* and the last of the expected results does.
\* Mutant: one result more than expected is waited for.
CommResultOneMore ==
  /\ comm.at = "wait" /\ results # <<>>
  /\ results' = Tail(results)
  /\ LET r == Head(results) IN
     \/ ~Ours(r) /\ UNCHANGED comm
     \/ Ours(r) /\ ~r.ok /\ Nak
     \/ /\ Ours(r) /\ r.ok
        /\ comm' = IF comm.count >= Expected(comm.frame)
                     THEN [comm EXCEPT !.at = "ack"]
                     ELSE [comm EXCEPT !.count = @ + 1]
  /\ UNCHANGED <<host, rx, dispQ, storeQ, shown, store>>
CommResult ==
  /\ comm.at = "wait" /\ results # <<>>
  /\ results' = Tail(results)
  /\ LET r == Head(results) IN
     \/ ~Ours(r) /\ UNCHANGED comm
     \/ Ours(r) /\ ~r.ok /\ Nak
     \/ /\ Ours(r) /\ r.ok
        /\ comm' = IF comm.count + 1 >= Expected(comm.frame)
                     THEN [comm EXCEPT !.at = "ack"]
                     ELSE [comm EXCEPT !.count = @ + 1]
  /\ UNCHANGED <<host, rx, dispQ, storeQ, shown, store>>

\* The wait runs out and the answer is NAK_BUSY. The command stays in the
\* queues and will be carried out all the same.
\* Mutant: the deadline is moved by every pass of the loop.
CommExpireNever ==
  /\ comm.at = "wait" /\ results = <<>>
  /\ UNCHANGED appVars
CommExpire ==
  /\ comm.at = "wait" /\ results = <<>>
  /\ Prompt => dispQ = <<>>
  /\ Nak
  /\ UNCHANGED <<host, rx, dispQ, storeQ, results, shown, store>>

CommAck ==
  /\ comm.at = "ack"
  /\ HostAck(comm.frame.seq)
  /\ comm' = Idle
  /\ UNCHANGED <<nextSeq, rx, dispQ, storeQ, results, shown, store>>

Comm == CommTake \/ CommStore \/ CommDisp \/ CommResult \/ CommExpire \/ CommAck

-----------------------------------------------------------------------------
(* display_task and storage_task *)

\* A result that finds the queue full for 10 ms is dropped.
Report(f, ok) ==
  results' = IF Len(results) < ResultLen
               THEN Append(results, [seq |-> f.seq, kind |-> f.kind, ok |-> ok])
               ELSE results

Display ==
  /\ dispQ # <<>>
  /\ LET f == Head(dispQ) IN
     /\ shown' = IF f.kind = "text" THEN f.text ELSE shown
     /\ Report(f, TRUE)
  /\ dispQ' = Tail(dispQ)
  /\ UNCHANGED <<host, rx, comm, storeQ, store>>

\* sys_config_set_boot_text: a text equal to the one in RAM is not written.
StoreSame ==
  /\ saving = NoFrame /\ storeQ # <<>> /\ Head(storeQ).text = config
  /\ storeQ' = Tail(storeQ)
  /\ handled' = handled \cup {Head(storeQ)}
  /\ Report(Head(storeQ), TRUE)
  /\ UNCHANGED <<host, rx, comm, dispQ, shown, saving, config, flash>>

\* Otherwise RAM is set first and the sector erased.
StoreErase ==
  /\ saving = NoFrame /\ storeQ # <<>> /\ Head(storeQ).text # config
  /\ config' = Head(storeQ).text
  /\ handled' = handled \cup {Head(storeQ)}
  /\ storeQ' = Tail(storeQ)
  /\ \/ saving' = Head(storeQ) /\ flash' = Lost /\ UNCHANGED results
     \/ /\ FlashFaults
        /\ flash' \in {flash, Lost}
        /\ Report(Head(storeQ), FALSE)
        /\ UNCHANGED saving
  /\ UNCHANGED <<host, rx, comm, dispQ, shown>>

\* Programming the words; each is read back.
StoreProgram ==
  /\ saving # NoFrame
  /\ saving' = NoFrame
  /\ \/ flash' = config /\ Report(saving, TRUE)
     \/ FlashFaults /\ UNCHANGED flash /\ Report(saving, FALSE)
  /\ UNCHANGED <<host, rx, comm, dispQ, storeQ, shown, config, handled>>

Storage == StoreSame \/ StoreErase \/ StoreProgram

\* Power comes back, or the watchdog bites: sys_config_init and
\* display_mgr_init read the configuration, and a lost one becomes the default.
Reset ==
  /\ rx' = <<>> /\ UNCHANGED host
  /\ comm' = Idle
  /\ dispQ' = <<>> /\ storeQ' = <<>> /\ results' = <<>>
  /\ saving' = NoFrame /\ handled' = {}
  /\ config' = IF flash = Lost THEN Default ELSE flash
  /\ shown' = config'
  /\ \/ flash' = config'
     \/ FlashFaults /\ flash = Lost /\ UNCHANGED flash

AppNext ==
  \/ \E kind \in Kinds, text \in Texts : SendCommand(kind, text)
  \/ CheckRetransmit
  \/ Comm \/ Display \/ Storage \/ Reset

\* FreeRTOS runs every task that is ready, the higher priorities being blocked
\* most of the time; the host's timer ticks. Resets and losses need not happen.
AppSpec ==
  /\ AppInit /\ [][AppNext]_appVars
  /\ WF_appVars(Comm) /\ WF_appVars(Display) /\ WF_appVars(Storage)

-----------------------------------------------------------------------------
(* Properties *)

\* Every variable has its type and every queue its length.
AppTypeOK ==
  /\ pending \in Seq([frame : Frames, retries : 0..Retries])
  /\ nextSeq \in 0..(SeqRange - 1)
  /\ rx \in Seq(Frames)
  /\ comm \in [at : {"idle", "store", "disp", "wait", "ack"},
               frame : Frames \cup {NoFrame}, count : 0..1]
  /\ dispQ \in Seq(Frames) /\ Len(dispQ) <= DispLen
  /\ storeQ \in Seq(Frames) /\ Len(storeQ) <= StoreLen
  /\ results \in Seq([seq : 0..(SeqRange - 1), kind : Kinds, ok : BOOLEAN])
  /\ Len(results) <= ResultLen
  /\ saving \in Frames \cup {NoFrame}
  /\ shown \in Texts /\ config \in Texts /\ flash \in Texts \cup {Lost}
  /\ handled \subseteq Frames

AckDecided == comm.at = "wait" /\ comm'.at = "ack"

\* A text is acknowledged only when the display manager holds it, however many
\* results of given-up waits are still about.
TextAckMeansShown ==
  [][AckDecided /\ comm.frame.kind = "text" => shown = comm.frame.text]_appVars

\* A boot text is acknowledged only when storage_task has put it in RAM since
\* the host first sent it, and after the last reset: whatever duplicates, late
\* results, errors and full queues are about, results of display_task alone
\* never add up to the two that comm_task waits for.
BootAckMeansHandled ==
  [][AckDecided /\ comm.frame.kind = "boot" => comm.frame \in handled]_appVars

\* A boot text is acknowledged only when flash holds it (the acceptance list of
\* the task design).
BootAckMeansStored ==
  [][AckDecided /\ comm.frame.kind = "boot" => flash = comm.frame.text]_appVars

\* comm_task never hangs on a command: it returns to the bytes that wait for it.
CommReturns == (comm.at # "idle") ~> (comm.at = "idle")
=============================================================================
