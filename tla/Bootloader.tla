----------------------------- MODULE Bootloader -----------------------------
(***************************************************************************)
(* The IAP bootloader of the STM32F407 board (stm32f407/iap/src): start    *)
(* decision, OTA update mode, the firmware-information record in sector    *)
(* S10 and the flash it all lives in, with power cuts and resets anywhere. *)
(*                                                                         *)
(* Abstractions of data.                                                   *)
(*  - A flash word is the set of its bits that are programmed to zero: the *)
(*    erased word is {} and programming a word can only add zero bits.     *)
(*  - An erase sector holds one word (a real one holds many); the loop     *)
(*    over the sectors of a slot and the loop over the words of a frame    *)
(*    keep their order and their early exits.                              *)
(*  - A CRC32 is the sequence of words it is computed over, so two images  *)
(*    of one size never collide; size and version are part of the image.   *)
(*    The image <<>> stands for "slot state INVALID, size 0".              *)
(*  - The SP and PC tests of boot_jump_validate depend on the first word   *)
(*    of the slot only: Vector[s] is the set of first words that pass.     *)
(*  - Offsets and addresses are uint32_t and wrap at AddressWords words.   *)
(*    Slot A ends where slot B begins; before slot A is the bootloader.    *)
(***************************************************************************)
EXTENDS Integers, Sequences

CONSTANTS
  Bits,        \* the bits of a flash word
  SlotSize,    \* words in each slot
  Vector,      \* first words with a valid SP and PC, for each slot
  Images,      \* firmware images an OTA_START may announce
  Payloads,    \* word sequences an OTA_DATA may carry
  Offsets,     \* byte offsets an OTA_DATA may name
  AddressWords,  \* words that a uint32_t address reaches
  FlashFaults, \* whether a flash erase or program may report an error
  NoRecord     \* S10 holds no record with a valid magic and CRC

Slots == {0, 1}
BadSlot == 2
WordBytes == 4
Word == SUBSET Bits
Erased == {}
WordSeq == Seq(Word)
Record == [active : Slots, img : [Slots -> WordSeq]]

ASSUME SlotSizeAssumption == SlotSize \in [Slots -> Nat \ {0}]
ASSUME VectorAssumption ==
  /\ Vector \in [Slots -> SUBSET Word]
  /\ \A s \in Slots : Erased \notin Vector[s]
ASSUME InputAssumption ==
  /\ AddressWords \in Nat \ {0}
  /\ Images \subseteq {img \in WordSeq : Len(img) < AddressWords}
  /\ Payloads \subseteq {p \in WordSeq : p # <<>> /\ Len(p) <= AddressWords}
  /\ Offsets \subseteq 0..(WordBytes * AddressWords - 1)
ASSUME FaultAssumption == FlashFaults \in BOOLEAN
ASSUME NoRecordAssumption == NoRecord \notin Record

VARIABLES
  pc,       \* where the bootloader is; "app" once it has jumped
  flash,    \* contents of the two slots
  s10,      \* the record a scan of sector S10 finds
  ram,      \* g_fw_info, the RAM copy of the record
  req,      \* the OTA request in NOINIT SRAM
  upd,      \* locals of enter_update_mode
  at,       \* next sector to erase, or next word to program (negative: before
            \* the base of the slot)
  todo,     \* words of the current OTA_DATA still to program
  ret,      \* where fw_info_save or the first-boot write returns to
  reply,    \* frame sent to the host by the last step
  accepted  \* history: the image last activated in a slot, <<>> once erased

vars == <<pc, flash, s10, ram, req, upd, at, todo, ret, reply, accepted>>

Other(s) == 1 - s
\* Mutant: memset to 0xFF without setting active_slot.
DefaultRecordUnset == [active |-> 255, img |-> [s \in Slots |-> <<>>]]
DefaultRecord == [active |-> 0, img |-> [s \in Slots |-> <<>>]]

NoReply == [type |-> "none", code |-> "none"]
Ack == [type |-> "ack", code |-> "none"]
Nak(c) == [type |-> "nak", code |-> c]
NakCodes == {"unknown_cmd", "param", "flash", "offset", "crc", "erase", "zero"}
Replies == {NoReply, Ack} \cup {Nak(c) : c \in NakCodes}

Callers == {"request", "key1", "no_firmware"}
NoSession(c) == [state |-> "IDLE", slot |-> 0, img |-> <<>>, caller |-> c]
Sessions == [state : {"IDLE", "RECEIVING"}, slot : Slots, img : WordSeq,
             caller : Callers]

PCs == {"load", "save_erase", "save_write", "check_request", "check_key",
        "update", "erasing", "programming", "finish", "try_active", "try_alt",
        "jump_alt", "app"}
Returns == {"check_request", "finish", "jump_alt"}

-----------------------------------------------------------------------------
(* Flash and the record *)

Program(old, new) == old \cup new

\* Word i counted from the base of slot s, where flash_addr may have wrapped:
\* its slot and its index there. A negative index is a word of the bootloader.
Cell(s, i) == IF s = 1 /\ i < 0 THEN <<0, SlotSize[0] + i>> ELSE <<s, i>>
Stored(s, i) == LET c == Cell(s, i) IN IF c[2] < 0 THEN Erased ELSE flash[c[1]][c[2]]
Written(s, i, w) ==
  LET c == Cell(s, i) IN IF c[2] < 0 THEN flash ELSE [flash EXCEPT ![c[1]][c[2]] = w]

\* boot_crc32_slot: the checksum of the first Len(img) words is that of img.
CrcMatches(s, img) ==
  Len(img) <= SlotSize[s] /\ \A i \in 1..Len(img) : flash[s][i - 1] = img[i]

\* boot_jump_validate
JumpValid(s) == flash[s][0] \in Vector[s]

\* The test main makes before a jump: state VALID, size > 0 and CRC.
Bootable(rec, s) == rec.img[s] # <<>> /\ CrcMatches(s, rec.img[s])

Init ==
  /\ pc = "load"
  /\ \/ /\ s10 = NoRecord                       \* a chip never updated
        /\ flash = [s \in Slots |-> [i \in 0..(SlotSize[s] - 1) |-> Erased]]
        /\ accepted = [s \in Slots |-> <<>>]
     \/ \E s \in Slots, img \in Images :        \* one image installed by OTA
          /\ img # <<>> /\ Len(img) <= SlotSize[s] /\ img[1] \in Vector[s]
          /\ flash = [t \in Slots |-> [i \in 0..(SlotSize[t] - 1) |->
                        IF t = s /\ i < Len(img) THEN img[i + 1] ELSE Erased]]
          /\ accepted = [t \in Slots |-> IF t = s THEN img ELSE <<>>]
          /\ s10 = [active |-> s, img |-> accepted]
  /\ ram = DefaultRecord
  /\ req = FALSE
  /\ upd = NoSession("no_firmware")
  /\ at = 0
  /\ todo = <<>>
  /\ ret = "check_request"
  /\ reply = NoReply

-----------------------------------------------------------------------------
(* Start decision (main) and the record's load and save *)

EnterUpdate(caller) ==
  /\ pc' = "update"
  /\ upd' = NoSession(caller)

\* fw_info_load: without a valid record the default one is written.
Load ==
  /\ pc = "load"
  /\ IF s10 # NoRecord
       THEN ram' = s10 /\ pc' = "check_request" /\ UNCHANGED ret
       ELSE ram' = DefaultRecord /\ pc' = "save_erase" /\ ret' = "check_request"
  /\ reply' = NoReply
  /\ UNCHANGED <<flash, s10, req, upd, at, todo, accepted>>

\* fw_info_save erases S10 first ...
SaveErase ==
  /\ pc = "save_erase"
  /\ \/ s10' = NoRecord /\ pc' = "save_write"
     \/ FlashFaults /\ s10' \in {s10, NoRecord} /\ pc' = ret
  /\ reply' = NoReply
  /\ UNCHANGED <<flash, ram, req, upd, at, todo, ret, accepted>>

\* ... and then programs the record, its CRC last. Every caller goes on
\* whatever the outcome.
\* Mutant: a save that fails starts over.
SaveWriteRetry ==
  /\ pc = "save_write"
  /\ \/ s10' = ram /\ pc' = ret
     \/ FlashFaults /\ s10' = NoRecord /\ pc' = "save_erase"
  /\ reply' = NoReply
  /\ UNCHANGED <<flash, ram, req, upd, at, todo, ret, accepted>>
SaveWrite ==
  /\ pc = "save_write"
  /\ \/ s10' = ram
     \/ FlashFaults /\ s10' = NoRecord
  /\ pc' = ret
  /\ reply' = NoReply
  /\ UNCHANGED <<flash, ram, req, upd, at, todo, ret, accepted>>

CheckRequest ==
  /\ pc = "check_request"
  /\ IF req THEN EnterUpdate("request")
            ELSE pc' = "check_key" /\ UNCHANGED upd
  /\ req' = FALSE
  /\ reply' = NoReply
  /\ UNCHANGED <<flash, s10, ram, at, todo, ret, accepted>>

CheckKey(pressed) ==
  /\ pc = "check_key"
  /\ IF pressed THEN EnterUpdate("key1")
                ELSE pc' = "try_active" /\ UNCHANGED upd
  /\ reply' = NoReply
  /\ UNCHANGED <<flash, s10, ram, req, at, todo, ret, accepted>>

\* Mutant: the slot state is trusted without the CRC.
TryActiveNoCrc ==
  /\ pc = "try_active"
  /\ pc' = IF ram.img[ram.active] # <<>> /\ JumpValid(ram.active)
             THEN "app" ELSE "try_alt"
  /\ reply' = NoReply
  /\ UNCHANGED <<flash, s10, ram, req, upd, at, todo, ret, accepted>>
TryActive ==
  /\ pc = "try_active"
  /\ IF Bootable(ram, ram.active) /\ JumpValid(ram.active)
       THEN pc' = "app"
       ELSE pc' = "try_alt"
  /\ reply' = NoReply
  /\ UNCHANGED <<flash, s10, ram, req, upd, at, todo, ret, accepted>>

\* fw_info_set_active_slot(alt) saves the record before the jump.
\* Mutant: the other slot is never tried.
TryAltSkipped ==
  /\ pc = "try_alt"
  /\ EnterUpdate("no_firmware")
  /\ reply' = NoReply
  /\ UNCHANGED <<flash, s10, ram, req, at, todo, ret, accepted>>
TryAlt ==
  LET alt == Other(ram.active) IN
  /\ pc = "try_alt"
  /\ IF Bootable(ram, alt)
       THEN /\ ram' = [ram EXCEPT !.active = alt]
            /\ pc' = "save_erase" /\ ret' = "jump_alt"
            /\ UNCHANGED upd
       ELSE EnterUpdate("no_firmware") /\ UNCHANGED <<ram, ret>>
  /\ reply' = NoReply
  /\ UNCHANGED <<flash, s10, req, at, todo, accepted>>

JumpAlt ==
  /\ pc = "jump_alt"
  /\ IF JumpValid(ram.active)
       THEN pc' = "app" /\ UNCHANGED upd
       ELSE EnterUpdate("no_firmware")
  /\ ret' = "check_request"
  /\ reply' = NoReply
  /\ UNCHANGED <<flash, s10, ram, req, at, todo, accepted>>

-----------------------------------------------------------------------------
(* Update mode (enter_update_mode): one action per frame, then the loops *)

Answer(r) ==
  /\ reply' = r
  /\ UNCHANGED <<pc, flash, s10, ram, req, upd, at, todo, ret, accepted>>

RecvStart(slot, img) ==
  /\ pc = "update"
  /\ IF upd.state = "RECEIVING" THEN Answer(Nak("unknown_cmd"))
     ELSE IF \/ slot = BadSlot
             \/ img = <<>>
             \/ Len(img) > SlotSize[slot]
     THEN Answer(Nak("param"))
     ELSE /\ upd' = [upd EXCEPT !.slot = slot, !.img = img]
          /\ accepted' = [accepted EXCEPT ![slot] = <<>>]
          /\ pc' = "erasing"
          /\ at' = 0
          /\ reply' = NoReply
          /\ UNCHANGED <<flash, s10, ram, req, todo, ret>>

\* get_slot_base(target_slot): the slot that is erased and programmed.
\* Mutant: the base of the other slot.
TargetSwapped == Other(upd.slot)
Target == upd.slot

\* boot_erase_slot stops at the first sector that fails.
EraseSector ==
  /\ pc = "erasing"
  /\ \/ /\ flash' = [flash EXCEPT ![Target][at] = Erased]
        /\ IF at + 1 = SlotSize[upd.slot]
             THEN /\ pc' = "update"
                  /\ upd' = [upd EXCEPT !.state = "RECEIVING"]
                  /\ at' = 0
                  /\ reply' = Ack
             ELSE at' = at + 1 /\ reply' = NoReply /\ UNCHANGED <<pc, upd>>
     \/ /\ FlashFaults
        /\ \E w \in Word : flash' = [flash EXCEPT ![Target][at] = w]
        /\ pc' = "update"
        /\ upd' = NoSession(upd.caller)
        /\ at' = 0
        /\ reply' = Nak("erase")
  /\ UNCHANGED <<s10, ram, req, todo, ret, accepted>>

\* offset + plen and slot_base + offset are sums of uint32_t: a frame whose end
\* wraps passes the range test and begins before the base of the slot.
AddressBytes == WordBytes * AddressWords
FrameEnd(offset, payload) == offset + WordBytes * Len(payload)
FirstWord(offset, payload) ==
  (offset \div WordBytes) - (IF FrameEnd(offset, payload) < AddressBytes
                              THEN 0 ELSE AddressWords)

RecvData(offset, payload) ==
  /\ pc = "update"
  /\ IF upd.state = "IDLE" THEN Answer(Nak("unknown_cmd"))
     ELSE IF \/ offset % WordBytes # 0
             \/ FrameEnd(offset, payload) % AddressBytes > WordBytes * Len(upd.img)
     THEN Answer(Nak("offset"))
     ELSE /\ pc' = "programming"
          /\ at' = FirstWord(offset, payload)
          /\ todo' = payload
          /\ reply' = NoReply
          /\ UNCHANGED <<flash, s10, ram, req, upd, ret, accepted>>

\* One word of the frame. A failure leaves the session RECEIVING.
ProgramWord ==
  LET old == Stored(Target, at)
      new == Program(old, Head(todo))
  IN
  /\ pc = "programming"
  /\ \/ /\ flash' = Written(Target, at, new)
        /\ todo' = Tail(todo)
        /\ IF Tail(todo) = <<>>
             THEN pc' = "update" /\ at' = 0 /\ reply' = Ack
             ELSE at' = at + 1 /\ reply' = NoReply /\ UNCHANGED pc
     \/ /\ FlashFaults
        /\ \E w \in Word : /\ old \subseteq w /\ w \subseteq new
                           /\ flash' = Written(Target, at, w)
        /\ pc' = "update"
        /\ at' = 0
        /\ todo' = <<>>
        /\ reply' = Nak("flash")
  /\ UNCHANGED <<s10, ram, req, upd, ret, accepted>>

\* The tests of OTA_FINISH in their order: the NAK code, or "ok".
\* Mutant: the image is not checked against its CRC.
FinishVerdictNoCrc(s, img) == IF ~JumpValid(s) THEN "param" ELSE "ok"
FinishVerdict(s, img) ==
  IF ~CrcMatches(s, img) THEN "crc" ELSE IF ~JumpValid(s) THEN "param" ELSE "ok"

\* OTA_FINISH up to the save that fw_info_activate_slot makes.
RecvFinish ==
  LET s == upd.slot
      verdict == FinishVerdict(s, upd.img)
  IN
  /\ pc = "update"
  /\ IF upd.state = "IDLE"
       THEN reply' = Nak("unknown_cmd") /\ UNCHANGED <<pc, ram, upd, ret, accepted>>
     ELSE IF verdict # "ok"
       THEN /\ upd' = NoSession(upd.caller)
            /\ reply' = Nak(verdict)
            /\ UNCHANGED <<pc, ram, ret, accepted>>
     ELSE /\ ram' = [active |-> s, img |-> [ram.img EXCEPT ![s] = upd.img]]
          /\ accepted' = [accepted EXCEPT ![s] = upd.img]
          /\ pc' = "save_erase"
          /\ ret' = "finish"
          /\ reply' = NoReply
          /\ UNCHANGED upd
  /\ UNCHANGED <<flash, s10, req, at, todo>>

\* The rest of OTA_FINISH once fw_info_save has returned. The ACK leaves before
\* the jump; a jump that fails sends a NAK with code 0 after it.
FinishJump ==
  /\ pc = "finish"
  /\ upd' = NoSession(upd.caller)
  /\ IF JumpValid(upd.slot)
       THEN pc' = "app" /\ reply' = Ack
       ELSE pc' = "update" /\ reply' = Nak("zero")
  /\ ret' = "check_request"
  /\ UNCHANGED <<flash, s10, ram, req, at, todo, accepted>>

\* In IDLE the update mode returns to its caller without an answer.
RecvAbort ==
  /\ pc = "update"
  /\ upd' = NoSession(upd.caller)
  /\ IF upd.state = "RECEIVING"
       THEN reply' = Ack /\ UNCHANGED pc
       ELSE /\ reply' = NoReply
            /\ pc' = CASE upd.caller = "request" -> "check_key"
                       [] upd.caller = "key1" -> "try_active"
                       [] upd.caller = "no_firmware" -> "update"
  /\ UNCHANGED <<flash, s10, ram, req, at, todo, ret, accepted>>

\* A command of another kind, or one with too few bytes of data.
RecvOther(cmd) ==
  /\ pc = "update"
  /\ Answer(Nak(IF \/ cmd = "short_start" /\ upd.state = "IDLE"
                   \/ cmd = "short_data" /\ upd.state = "RECEIVING"
                THEN "param" ELSE "unknown_cmd"))

-----------------------------------------------------------------------------
(* The application, resets and power cuts *)

\* CMD_OTA_RESERVED, the CLI's update command and the menu write the NOINIT
\* request and reset the MCU.
AppRequestsUpdate ==
  /\ pc = "app"
  /\ req' = TRUE
  /\ pc' = "load"
  /\ reply' = NoReply
  /\ UNCHANGED <<flash, s10, ram, upd, at, todo, ret, accepted>>

\* A reset keeps NOINIT SRAM, a power cut does not. Either may hit a flash
\* operation: an interrupted erase leaves any word, an interrupted program
\* some of the new zero bits, an interrupted save no record.
Interrupted ==
  CASE pc = "erasing" ->
         /\ \E w \in Word : flash' = [flash EXCEPT ![Target][at] = w]
         /\ UNCHANGED s10
    [] pc = "programming" ->
         /\ LET old == Stored(Target, at) IN
            \E w \in Word : /\ old \subseteq w
                            /\ w \subseteq Program(old, Head(todo))
                            /\ flash' = Written(Target, at, w)
         /\ UNCHANGED s10
    [] pc \in {"save_erase", "save_write"} ->
         s10' \in {s10, NoRecord} /\ UNCHANGED flash
    [] OTHER -> UNCHANGED <<flash, s10>>

Crash(powerCut) ==
  /\ Interrupted
  /\ req' = (req /\ ~powerCut)
  /\ ram' = DefaultRecord
  /\ upd' = NoSession("no_firmware")
  /\ at' = 0
  /\ todo' = <<>>
  /\ ret' = "check_request"
  /\ pc' = "load"
  /\ reply' = NoReply
  /\ UNCHANGED accepted

-----------------------------------------------------------------------------
\* What the processor does by itself, without the host, the user or the app.
Step == \/ Load \/ SaveErase \/ SaveWrite \/ CheckRequest
        \/ TryActive \/ TryAlt \/ JumpAlt
        \/ EraseSector \/ ProgramWord \/ FinishJump
        \/ \E pressed \in BOOLEAN : CheckKey(pressed)

Receive == \/ \E s \in Slots \cup {BadSlot}, img \in Images : RecvStart(s, img)
           \/ \E o \in Offsets, p \in Payloads : RecvData(o, p)
           \/ RecvFinish
           \/ RecvAbort
           \/ \E cmd \in {"short_start", "short_data", "other"} : RecvOther(cmd)

Next == \/ Step
        \/ Receive
        \/ AppRequestsUpdate
        \/ \E powerCut \in BOOLEAN : Crash(powerCut)

Spec == Init /\ [][Next]_vars
FairSpec == Spec /\ WF_vars(Step)

-----------------------------------------------------------------------------
(* Properties *)

\* The type of every variable.
TypeOK ==
  /\ pc \in PCs
  /\ flash = [s \in Slots |-> flash[s]]
  /\ \A s \in Slots : flash[s] \in [0..(SlotSize[s] - 1) -> Word]
  /\ s10 \in Record \cup {NoRecord}
  /\ ram \in Record
  /\ req \in BOOLEAN
  /\ upd \in Sessions
  /\ at \in Int
  /\ todo \in WordSeq
  /\ ret \in Returns
  /\ reply \in Replies
  /\ accepted \in [Slots -> WordSeq]

\* The application that runs is a complete image of the size and CRC the
\* record names, with a vector table of the slot it is in: no path of main or
\* of OTA_FINISH jumps to a slot that is half erased, half written or stale.
\* (The slot jumped to is always the active one of the RAM record.)
RunsVerifiedImage ==
  pc = "app" => Bootable(ram, ram.active) /\ JumpValid(ram.active)

\* What an activated slot holds is the image it was activated with.
Whole(s) == CrcMatches(s, accepted[s]) /\ JumpValid(s)

\* A word of an OTA_DATA whose range has wrapped goes before the slot's base.
StrayWrite == pc = "programming" /\ at < 0

\* OTA_FINISH activates whole images only, and an activated image stays whole
\* until an OTA_START names its slot, whatever frames, faults and resets come:
\* nothing but the wrapped OTA_DATA of a session on the other slot damages it.
ActivatedStaysWhole ==
  [][ \A s \in Slots : accepted'[s] # <<>> =>
        \/ Whole(s)'
        \/ /\ accepted'[s] = accepted[s]
           /\ ~Whole(s) \/ (StrayWrite /\ s # upd.slot) ]_vars

\* doc/learn/02-bootloader.md:401: the update goes to the inactive slot and the
\* old slot stays valid. An activated image is whole until its slot is updated.
AcceptedIntact == \A s \in Slots : accepted[s] # <<>> => Whole(s)

\* A device that has a bootable recorded image loses it only while S10 is
\* being erased for a save, to an update of the only bootable slot, or to a
\* wrapped OTA_DATA: any other update of the inactive slot, however it ends,
\* keeps the old version.
HasImage == s10 # NoRecord /\ \E s \in Slots : Bootable(s10, s)
KeepsABootableImage ==
  [][ HasImage /\ ~HasImage' =>
        \/ pc = "save_erase"
        \/ /\ pc \in {"erasing", "programming"}
           /\ ~Bootable(s10, Other(upd.slot))
        \/ StrayWrite ]_vars

\* main gives up and waits for firmware only when neither slot could run.
CanRun == \E s \in Slots : Bootable(ram, s) /\ JumpValid(s)
GivesUpOnlyWithoutImage ==
  [][ (pc \in {"try_active", "try_alt", "jump_alt"} /\ pc' = "update") => ~CanRun ]_vars

\* docs/bootloader-design.md:195: as long as one slot has a correct CRC it is
\* started; the bootloader waits for firmware only when both are bad. Stated
\* here of a device whose two slots both hold an activated, whole image.
IntactSlotStarts ==
  pc = "update" /\ upd.caller = "no_firmware" =>
    \E s \in Slots : accepted[s] = <<>>

\* A start decision that has an image to run ends in the application, through
\* the save of the switched record if need be, unless a reset cuts it short.
BootsWhenPossible ==
  (pc = "try_active" /\ CanRun) ~> pc \in {"app", "load"}
=============================================================================
