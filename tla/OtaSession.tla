----------------------------- MODULE OtaSession -----------------------------
(***************************************************************************)
(* The OTA client of the PC (tools/ota_tool/ota_client.py) updating the    *)
(* bootloader over a serial line. The client sends one frame and waits     *)
(* for an answer; answers carry no sequence number, so the client takes    *)
(* any ACK for the answer to its last frame.                               *)
(*                                                                         *)
(* The device drops a damaged frame by its CRC, and a frame that reaches a *)
(* busy bootloader or the application is not heard: both are a loss. The   *)
(* client looks at the CMD byte of an answer and neither at its CRC nor at *)
(* its end, so a damaged answer may be read as another one. Its clock is   *)
(* abstracted: the wait runs out when nothing is on the line and the       *)
(* device will not answer, or during the erase of a slot, which may take   *)
(* longer than the wait.                                                   *)
(***************************************************************************)
EXTENDS Bootloader

CONSTANTS
  Chunk,     \* words in an OTA_DATA (CHUNK_SIZE)
  Retry,     \* attempts to send a chunk
  Lines      \* a "clean" line carries everything, a "noisy" one may lose frames
             \* and answers and change the CMD byte of an answer

ASSUME ClientAssumption == Chunk \in Nat \ {0} /\ Retry \in Nat \ {0}
ASSUME LineAssumption == Lines \subseteq {"clean", "noisy"}

VARIABLES
  host,  \* the client: where upgrade() is, its slot and image, words
         \* acknowledged, tries of the present chunk; and as history what
         \* may have misled it
  down,  \* frames on the line to the device
  up,    \* answers in the client's input buffer
  line   \* what this line does to frames and answers; it never changes

session == <<vars, host, down, up>>
otaVars == <<session, line>>

Waiting == {"start", "data", "finish"}
Hosts == [at : Waiting \cup {"closed", "failed", "interrupted", "done"},
          slot : Slots, img : Images \cup {<<>>}, sent : Nat, tries : Nat,
          doubt : SUBSET {"overlap", "start", "data"}]
Ended(how) == [at |-> how, slot |-> 0, img |-> <<>>, sent |-> 0, tries |-> 0,
               doubt |-> {}]

StartFrame(slot, img) == [cmd |-> "start", slot |-> slot, img |-> img]
DataFrame(offset, words) == [cmd |-> "data", offset |-> offset, payload |-> words]
FinishFrame == [cmd |-> "finish"]
AbortFrame == [cmd |-> "abort"]

Smaller(a, b) == IF a < b THEN a ELSE b
ChunkEnd(h) == Smaller(h.sent + Chunk, Len(h.img))

\* The frame upgrade() sends next, from the chunk that begins at h.sent.
\* Mutant: the offset is counted in words.
NextFrameInWords(h) ==
  IF h.at = "data" THEN DataFrame(h.sent, SubSeq(h.img, h.sent + 1, ChunkEnd(h)))
                   ELSE FinishFrame
NextFrame(h) ==
  IF h.at = "data"
    THEN DataFrame(WordBytes * h.sent, SubSeq(h.img, h.sent + 1, ChunkEnd(h)))
    ELSE FinishFrame

OtaInit ==
  /\ Init
  /\ host = Ended("closed")
  /\ down = <<>>
  /\ up = <<>>
  /\ line \in Lines

-----------------------------------------------------------------------------
(* The device and the line *)

\* The answer of the last step of the bootloader reaches an open port.
Answered ==
  up' = IF reply' = NoReply \/ host.at \notin Waiting THEN up
        ELSE Append(up, reply')

Device ==
  /\ Step
  /\ Answered
  /\ UNCHANGED <<host, down>>

Environment ==
  /\ AppRequestsUpdate \/ \E powerCut \in BOOLEAN : Crash(powerCut)
  /\ UNCHANGED <<host, down, up>>

Deliver ==
  /\ down # <<>>
  /\ LET f == Head(down) IN
     \/ f.cmd = "start" /\ RecvStart(f.slot, f.img)
     \/ f.cmd = "data" /\ RecvData(f.offset, f.payload)
     \/ f.cmd = "finish" /\ RecvFinish
     \/ f.cmd = "abort" /\ RecvAbort
  /\ down' = Tail(down)
  /\ Answered
  /\ UNCHANGED host

\* A frame comes while the bootloader is not listening, or is corrupted.
LoseFrame ==
  /\ down # <<>>
  /\ line # "clean" \/ pc # "update"
  /\ down' = Tail(down)
  /\ UNCHANGED <<vars, host, up>>

\* An answer is lost, or read as neither ACK nor NAK.
LoseAnswer ==
  /\ line # "clean" /\ up # <<>>
  /\ up' = Tail(up)
  /\ UNCHANGED <<vars, host, down>>

-----------------------------------------------------------------------------
(* The client *)

\* The device is at work on a frame and will answer it.
Working ==
  \/ pc \in {"erasing", "programming", "finish"}
  \/ pc \in {"save_erase", "save_write"} /\ ret = "finish"

\* open() and the first frame; opening a port empties its input buffer. The
\* device may still be at work for a client that has given up.
Run(slot, img) ==
  /\ host.at \notin Waiting
  /\ down = <<>>
  /\ host' = [at |-> "start", slot |-> slot, img |-> img, sent |-> 0, tries |-> 0,
              doubt |-> IF Working THEN {"overlap"} ELSE {}]
  /\ down' = <<StartFrame(slot, img)>>
  /\ up' = <<>>
  /\ UNCHANGED vars

\* is_ack and is_nak: a damaged answer passes for either.
ReadsAsAck(answer) == answer = Ack \/ line = "noisy"
ReadsAsNak(answer) == answer.type = "nak" \/ line = "noisy"

\* The state of upgrade() after an ACK, or what was read as one.
AfterAck ==
  LET sent == IF host.at = "data" THEN ChunkEnd(host) ELSE 0
  IN  IF host.at = "finish" THEN Ended("done")
      ELSE [host EXCEPT !.at = IF sent < Len(host.img) THEN "data" ELSE "finish",
                        !.sent = sent, !.tries = 0,
                        !.doubt = IF Head(up) = Ack THEN @ ELSE @ \cup {host.at}]

TakeAck ==
  /\ host.at \in Waiting /\ up # <<>>
  /\ ReadsAsAck(Head(up))
  /\ host' = AfterAck
  /\ down' = IF host'.at = "done" THEN down ELSE Append(down, NextFrame(host'))
  /\ up' = Tail(up)
  /\ UNCHANGED vars

\* No answer or a NAK: a chunk is sent again, up to Retry times in all and
\* then the session is aborted; OTA_START and OTA_FINISH are not repeated.
\* Mutant: the chunk is counted as sent before it is acknowledged.
RefusedSkips ==
  /\ host' = IF host.at # "data" \/ host.tries + 1 = Retry
               THEN Ended("failed")
               ELSE [host EXCEPT !.tries = @ + 1, !.sent = Smaller(@ + 1, Len(host.img) - 1)]
  /\ down' = IF host.at # "data" THEN down
             ELSE Append(down, IF host'.at = "failed" THEN AbortFrame
                               ELSE NextFrame(host'))
\* Mutant: the answer to OTA_START is not looked at.
RefusedOverlooked ==
  \/ /\ host.at = "start"
     /\ host' = [host EXCEPT !.at = "data"] /\ down' = Append(down, NextFrame(host'))
  \/ /\ host.at = "data"
     /\ host' = Ended("failed") /\ down' = Append(down, AbortFrame)
  \/ /\ host.at = "finish"
     /\ host' = Ended("failed") /\ UNCHANGED down
\* Mutant: the attempts are not counted.
RefusedForever ==
  /\ host' = IF host.at # "data" THEN Ended("failed") ELSE host
  /\ down' = IF host.at # "data" THEN down ELSE Append(down, NextFrame(host))
Refused ==
  \/ /\ host.at # "data"
     /\ host' = Ended("failed") /\ UNCHANGED down
  \/ /\ host.at = "data" /\ host.tries + 1 = Retry
     /\ host' = Ended("failed") /\ down' = Append(down, AbortFrame)
  \/ /\ host.at = "data" /\ host.tries + 1 # Retry
     /\ host' = [host EXCEPT !.tries = @ + 1]
     /\ down' = Append(down, NextFrame(host'))

TakeNak ==
  /\ host.at \in Waiting /\ up # <<>>
  /\ ReadsAsNak(Head(up))
  /\ Refused
  /\ up' = Tail(up)
  /\ UNCHANGED vars

Timeout ==
  /\ host.at \in Waiting
  /\ down = <<>> /\ up = <<>> /\ (~Working \/ pc = "erasing")
  /\ Refused
  /\ UNCHANGED <<vars, up>>

\* Ctrl+C: ota_tool.py closes the port and exits.
Interrupt ==
  /\ host.at \in Waiting
  /\ host' = Ended("interrupted")
  /\ up' = <<>>
  /\ UNCHANGED <<vars, down>>

-----------------------------------------------------------------------------
Client == TakeAck \/ TakeNak \/ Timeout

OtaNext ==
  /\ \/ Device \/ Environment
     \/ Deliver \/ LoseFrame \/ LoseAnswer
     \/ \E slot \in Slots, img \in Images : Run(slot, img)
     \/ Client \/ Interrupt
  /\ UNCHANGED line

OtaSpec == OtaInit /\ [][OtaNext]_otaVars

\* The processor runs, the line carries what is on it, and the client reads
\* its port and its clock: its wait is over after some seconds even if resets
\* make the device busy again and again. The user and the power supply promise
\* nothing.
OtaFairSpec == /\ OtaSpec
               /\ WF_session(Device)
               /\ WF_session(Deliver \/ LoseFrame)
               /\ SF_session(Client)

-----------------------------------------------------------------------------
(* Properties *)

\* The type of every variable.
OtaTypeOK ==
  /\ TypeOK
  /\ host \in Hosts /\ line \in Lines
  /\ up \in Seq(Replies \ {NoReply})
  /\ \A i \in 1..Len(down) : LET f == down[i] IN
       \/ f.cmd = "start" /\ f.slot \in Slots /\ f.img \in Images
       \/ f.cmd = "data" /\ f.payload \in WordSeq \ {<<>>}
          /\ f.offset \in Nat /\ FrameEnd(f.offset, f.payload) < AddressBytes
       \/ f \in {FinishFrame, AbortFrame}

\* With the frames this client sends, an update of the inactive slot keeps the
\* old version whatever happens: the bootable image goes only while S10 is being
\* erased, or to an update of the only bootable slot.
UpdatesKeepOldVersion ==
  [][ HasImage /\ ~HasImage' =>
        \/ pc = "save_erase"
        \/ /\ pc \in {"erasing", "programming"}
           /\ ~Bootable(s10, Other(upd.slot)) ]_otaVars

\* What the client counts as sent is in flash, whatever was lost, repeated or
\* reset: ACKs without a number are enough while no session begins in another's
\* work and no damaged NAK has been read as an ACK.
AckedIsFlashed ==
  host.at \in {"data", "finish"} /\ host.doubt = {} =>
    \A i \in 1..host.sent : flash[host.slot][i - 1] = host.img[i]

\* When the ACK of OTA_FINISH is one, the device has verified and activated this
\* very image in this very slot, even if chunks were refused and the client
\* misread it: the CRC of OTA_FINISH covers them. It does not cover an
\* OTA_START that was refused, or was heard in another session's erase.
SuccessMeansActivated ==
  [][ (/\ host.at = "finish" /\ host'.at = "done" /\ Head(up) = Ack
       /\ host.doubt \subseteq {"data"})
      => accepted[host.slot] = host.img ]_otaVars

\* docs/ota-tool-design.md:94-96: after OTA_FINISH the tool waits for an ACK
\* and reports success; a NAK is a failure.
RefusalIsReported ==
  [][ host.at = "finish" /\ up # <<>> /\ Head(up).type = "nak" =>
        host'.at # "done" ]_otaVars

\* doc/learn/02-bootloader.md:405: the ACK confirms that each frame has arrived.
\* Of a line that neither loses nor changes anything: success means activated.
AckConfirmsFrame ==
  [][ line = "clean" /\ host.at = "finish" /\ host'.at = "done" =>
        accepted[host.slot] = host.img ]_otaVars

\* upgrade() always returns, with success or failure.
SessionEnds == host.at \in Waiting ~> host.at \notin Waiting

\* Over a clean line, an image that fits its slot and is linked for it gets
\* installed by a session that did not begin in another's work, unless a reset or
\* the user cuts it short or the erase outlasts the client's wait.
Installable(h) ==
  /\ h.img # <<>> /\ Len(h.img) <= SlotSize[h.slot]
  /\ h.img[1] \in Vector[h.slot]
UpgradeSucceeds ==
  (/\ line = "clean"
   /\ host.at = "start" /\ host.doubt = {} /\ down # <<>> /\ Installable(host)
   /\ pc = "update" /\ upd.state = "IDLE")
    ~> (\/ host.at \in {"done", "interrupted"} \/ pc = "load"
        \/ host.at = "failed" /\ pc = "erasing")

\* docs/ota-tool-design.md:195: on Ctrl+C the tool sends an ABORT before it
\* closes the port, so that it leaves no session behind.
InterruptEndsSession ==
  host.at = "interrupted" /\ down = <<>> => ~(pc = "update" /\ upd.state = "RECEIVING")
=============================================================================
