-------------------------- MODULE OtaSessionProofs --------------------------
(***************************************************************************)
(* Safety of the bootloader for every slot size, every set of images and   *)
(* payloads, every uint32_t offset, and with or without flash faults: the  *)
(* types, that the application that runs is always the verified image of   *)
(* its record, and what alone may damage an activated image.               *)
(*                                                                         *)
(* Then the update session for every chunk size and number of retries,     *)
(* with losses, resets and answers that are misread: no frame of this      *)
(* client wraps, so the bootloader keeps its images; and what the client   *)
(* has been told is what the device has done, with the exceptions its      *)
(* history names.                                                          *)
(***************************************************************************)
EXTENDS OtaSession, TLAPS, SequenceTheorems

-----------------------------------------------------------------------------
(* The bootloader by itself *)

\* What the loops over sectors and words may rely on: they work inside the
\* slot of a session whose image fits it and is not an activated one.
SessionInv ==
  /\ (pc = "erasing" \/ upd.state = "RECEIVING") =>
       /\ upd.img # <<>> /\ Len(upd.img) <= SlotSize[upd.slot]
       /\ Len(upd.img) < AddressWords
  /\ pc = "erasing" => upd.state = "IDLE" /\ 0 <= at /\ at < SlotSize[upd.slot]
  /\ pc = "programming" =>
       upd.state = "RECEIVING" /\ todo # <<>> /\ at + Len(todo) <= Len(upd.img)
  /\ (pc \in {"erasing", "programming"} \/ (pc = "update" /\ upd.state = "RECEIVING"))
       => accepted[upd.slot] = <<>>

\* What a save leaves to its caller: after OTA_FINISH the new record names the
\* verified slot, and the switch to the other slot named a bootable one.
SaveInv ==
  /\ pc = "save_write" => s10 = NoRecord
  /\ pc = "finish" => ret = "finish"
  /\ pc = "jump_alt" => ret = "jump_alt"
  /\ pc \in {"save_erase", "save_write", "finish"} /\ ret = "finish" =>
       /\ ram.active = upd.slot
       /\ Bootable(ram, upd.slot)
       /\ JumpValid(upd.slot)
  /\ pc \in {"save_erase", "save_write", "jump_alt"} /\ ret = "jump_alt" =>
       Bootable(ram, ram.active)

IInv == TypeOK /\ SessionInv /\ SaveInv /\ RunsVerifiedImage

USE DEF Slots, BadSlot, WordBytes, Erased, NoReply, Ack, Nak, NoSession,
        DefaultRecord, EnterUpdate, Answer, Other, Target, FinishVerdict

-----------------------------------------------------------------------------
(* Lemmas about the data *)

\* Writing one word of one slot keeps the flash well-typed and leaves the
\* other slot alone.
LEMMA FlashWrite ==
  ASSUME TypeOK, NEW s \in Slots, NEW i \in 0..(SlotSize[s] - 1), NEW w \in Word,
         flash' = [flash EXCEPT ![s][i] = w]
  PROVE  /\ flash' = [t \in Slots |-> flash'[t]]
         /\ \A t \in Slots : flash'[t] \in [0..(SlotSize[t] - 1) -> Word]
         /\ \A t \in Slots : t # s => flash'[t] = flash[t]
  BY SlotSizeAssumption DEF TypeOK

\* Programming a word at or before the base of a slot: another slot is written
\* only where the address lies before the base.
LEMMA WordWritten ==
  ASSUME TypeOK, NEW s \in Slots, NEW i \in Int, i < SlotSize[s], NEW w \in Word,
         flash' = Written(s, i, w)
  PROVE  /\ flash' = [t \in Slots |-> flash'[t]]
         /\ \A t \in Slots : flash'[t] \in [0..(SlotSize[t] - 1) -> Word]
         /\ \A t \in Slots : t # s /\ i >= 0 => flash'[t] = flash[t]
         /\ i >= 0 => flash' = [flash EXCEPT ![s][i] = w]
<1>1. CASE i >= 0
  <2>1. Cell(s, i) = <<s, i>> /\ Cell(s, i)[1] = s /\ Cell(s, i)[2] = i
    BY <1>1 DEF Cell
  <2>2. flash' = [flash EXCEPT ![s][i] = w]
    BY <1>1, <2>1 DEF Written
  <2>3. i \in 0..(SlotSize[s] - 1)
    BY <1>1, SlotSizeAssumption
  <2>4. QED
    BY <2>2, <2>3, FlashWrite
<1>2. CASE i < 0 /\ s = 1 /\ SlotSize[0] + i >= 0
  <2>a. Cell(s, i)[1] = 0 /\ Cell(s, i)[2] = SlotSize[0] + i
    BY <1>2 DEF Cell
  <2>b. ~(SlotSize[0] + i < 0)
    BY <1>2, SlotSizeAssumption
  <2>1. flash' = [flash EXCEPT ![0][SlotSize[0] + i] = w]
    BY <2>a, <2>b DEF Written
  <2>2. SlotSize[0] + i \in 0..(SlotSize[0] - 1)
    BY <1>2, SlotSizeAssumption
  <2>3. QED
    BY <1>2, <2>1, <2>2, FlashWrite
<1>3. CASE i < 0 /\ ~(s = 1 /\ SlotSize[0] + i >= 0)
  <2>1. flash' = flash
    BY <1>3, SlotSizeAssumption DEF Written, Cell
  <2>2. QED
    BY <1>3, <2>1 DEF TypeOK
<1>4. QED
  BY <1>1, <1>2, <1>3

\* What a word already holds is a word, and is read where it is written.
LEMMA WordStored ==
  ASSUME TypeOK, NEW s \in Slots, NEW i \in Int, i < SlotSize[s]
  PROVE  Stored(s, i) \in Word /\ (i >= 0 => Stored(s, i) = flash[s][i])
<1>1. CASE i >= 0
  <2>1. Cell(s, i)[1] = s /\ Cell(s, i)[2] = i /\ i \in 0..(SlotSize[s] - 1)
    BY <1>1, SlotSizeAssumption DEF Cell
  <2>2. Stored(s, i) = flash[s][i]
    BY <1>1, <2>1 DEF Stored
  <2>3. flash[s] \in [0..(SlotSize[s] - 1) -> Word]
    BY DEF TypeOK
  <2>4. QED
    BY <2>1, <2>2, <2>3
<1>2. CASE i < 0
  <2>1. Cell(s, i)[2] < 0 => Stored(s, i) \in Word
    BY DEF Stored, Word
  <2>2. CASE ~(Cell(s, i)[2] < 0)
    <3>1. s = 1
      BY <1>2, <2>2 DEF Cell
    <3>2. Cell(s, i)[1] = 0 /\ Cell(s, i)[2] = SlotSize[0] + i
      BY <1>2, <3>1 DEF Cell
    <3>3. SlotSize[0] + i \in 0..(SlotSize[0] - 1) /\ 0 \in Slots
      BY <1>2, <2>2, <3>2, SlotSizeAssumption
    <3>4. Stored(s, i) = flash[0][SlotSize[0] + i]
      BY <2>2, <3>2 DEF Stored
    <3>5. flash[0] \in [0..(SlotSize[0] - 1) -> Word]
      BY <3>3 DEF TypeOK
    <3>6. Stored(s, i) \in Word
      BY <3>3, <3>4, <3>5
    <3>7. QED
      BY <1>2, <3>6
  <2>3. QED
    BY <1>2, <2>1, <2>2
<1>3. QED
  BY <1>1, <1>2

\* The next word of a frame lies before the end of its slot.
LEMMA ProgramRange ==
  ASSUME TypeOK, SessionInv, pc = "programming"
  PROVE  /\ upd.slot \in Slots /\ at \in Int /\ at < SlotSize[upd.slot]
         /\ todo # <<>> /\ todo \in WordSeq /\ Len(todo) \in Nat \ {0}
         /\ Head(todo) \in Word /\ Tail(todo) \in WordSeq
         /\ Len(Tail(todo)) = Len(todo) - 1 /\ Len(upd.img) \in Nat
         /\ at + Len(todo) <= Len(upd.img) /\ Len(upd.img) <= SlotSize[upd.slot]
         /\ upd.state = "RECEIVING"
<1>1. /\ upd.slot \in Slots /\ at \in Int /\ todo \in Seq(Word) /\ upd.img \in Seq(Word)
      /\ todo # <<>> /\ at + Len(todo) <= Len(upd.img) /\ upd.state = "RECEIVING"
      /\ Len(upd.img) <= SlotSize[upd.slot]
  BY DEF TypeOK, SessionInv, Sessions, WordSeq
<1>2. /\ Len(todo) \in Nat \ {0} /\ Head(todo) \in Word /\ Tail(todo) \in Seq(Word)
      /\ Len(Tail(todo)) = Len(todo) - 1 /\ Len(upd.img) \in Nat
  BY <1>1, EmptySeq, LenProperties, HeadTailProperties
<1>3. SlotSize[upd.slot] \in Nat
  BY <1>1, SlotSizeAssumption
<1>4. at < SlotSize[upd.slot]
  BY <1>1, <1>2, <1>3
<1>5. QED
  BY <1>1, <1>2, <1>4 DEF WordSeq

\* The fixed values the actions assign have their types.
LEMMA ConstantTypes ==
  /\ DefaultRecord \in Record
  /\ \A c \in Callers : NoSession(c) \in Sessions
  /\ <<>> \in WordSeq
  /\ Erased \in Word
  /\ NoReply \in Replies /\ Ack \in Replies
  /\ \A c \in NakCodes : Nak(c) \in Replies
<1>1. <<>> \in WordSeq
  BY DEF WordSeq
<1>2. DefaultRecord \in Record
  BY <1>1 DEF Record
<1>3. \A c \in Callers : NoSession(c) \in Sessions
  BY <1>1 DEF Sessions
<1>4. QED
  BY <1>1, <1>2, <1>3 DEF Word, Replies

\* Where a step of an erase or a program may change the flash.
InWork(t) == pc \in {"erasing", "programming"} /\ t = upd.slot

\* What an interruption may leave: the types, and the slots and the record
\* untouched except where an operation was in progress.
LEMMA InterruptedFlash ==
  ASSUME TypeOK, SessionInv, Interrupted
  PROVE  /\ flash' = [t \in Slots |-> flash'[t]]
         /\ \A t \in Slots : flash'[t] \in [0..(SlotSize[t] - 1) -> Word]
         /\ \A t \in Slots : flash'[t] = flash[t] \/ InWork(t) \/ StrayWrite
         /\ s10' \in Record \cup {NoRecord}
         /\ s10' = s10 \/ pc \in {"save_erase", "save_write"}
<1>1. CASE pc = "erasing"
  <2>1. PICK w \in Word : flash' = [flash EXCEPT ![upd.slot][at] = w]
    BY <1>1 DEF Interrupted
  <2>2. upd.slot \in Slots /\ at \in 0..(SlotSize[upd.slot] - 1)
    BY <1>1, SlotSizeAssumption DEF TypeOK, SessionInv, Sessions
  <2>3. s10' = s10
    BY <1>1 DEF Interrupted
  <2>4. QED
    BY <1>1, <2>1, <2>2, <2>3, FlashWrite DEF TypeOK, InWork
<1>2. CASE pc = "programming"
  <2>1. PICK w \in Word : flash' = Written(upd.slot, at, w)
    BY <1>2 DEF Interrupted
  <2>2. upd.slot \in Slots /\ at \in Int /\ at < SlotSize[upd.slot]
    BY <1>2, ProgramRange
  <2>3. s10' = s10
    BY <1>2 DEF Interrupted
  <2>4. /\ flash' = [t \in Slots |-> flash'[t]]
        /\ \A t \in Slots : flash'[t] \in [0..(SlotSize[t] - 1) -> Word]
        /\ \A t \in Slots : t # upd.slot /\ at >= 0 => flash'[t] = flash[t]
    BY <2>1, <2>2, WordWritten
  <2>5. QED
    BY <1>2, <2>2, <2>3, <2>4 DEF TypeOK, InWork, StrayWrite
<1>3. CASE pc \notin {"erasing", "programming"}
  BY <1>3 DEF Interrupted, TypeOK
<1>4. QED
  BY <1>1, <1>2, <1>3

-----------------------------------------------------------------------------
(* Initial states *)

\* Every initial state satisfies the invariant, and its images are whole.
LEMMA InitIInv == Init => IInv /\ AcceptedIntact
<1> SUFFICES ASSUME Init PROVE IInv /\ AcceptedIntact
  OBVIOUS
<1>1. TypeOK /\ AcceptedIntact
  <2>1. CASE s10 = NoRecord /\ accepted = [s \in Slots |-> <<>>]
             /\ flash = [s \in Slots |-> [i \in 0..(SlotSize[s] - 1) |-> Erased]]
    <3>1. TypeOK
      <4>1. \A s \in Slots : flash[s] \in [0..(SlotSize[s] - 1) -> Word]
        BY <2>1, ConstantTypes
      <4>2. accepted \in [Slots -> WordSeq] /\ upd \in Sessions /\ at \in Int
        BY <2>1, ConstantTypes DEF Init, Callers
      <4>3. QED
        BY <2>1, <4>1, <4>2, ConstantTypes DEF Init, TypeOK, PCs, Returns
    <3>2. QED
      BY <2>1, <3>1 DEF AcceptedIntact, Whole
  <2>2. ASSUME NEW s \in Slots, NEW img \in Images,
               img # <<>>, Len(img) <= SlotSize[s], img[1] \in Vector[s],
               flash = [t \in Slots |-> [i \in 0..(SlotSize[t] - 1) |->
                          IF t = s /\ i < Len(img) THEN img[i + 1] ELSE Erased]],
               accepted = [t \in Slots |-> IF t = s THEN img ELSE <<>>],
               s10 = [active |-> s, img |-> accepted]
        PROVE  TypeOK /\ AcceptedIntact
    <3>1. img \in Seq(Word) /\ Len(img) \in Nat \ {0}
      BY <2>2, InputAssumption DEF WordSeq
    <3>2. \A i \in 1..Len(img) : img[i] \in Word
      BY <3>1
    <3>3. \A t \in Slots : flash[t] \in [0..(SlotSize[t] - 1) -> Word]
      BY <2>2, <3>1, <3>2, ConstantTypes, SlotSizeAssumption
    <3>4. accepted \in [Slots -> WordSeq]
      BY <2>2, <3>1, ConstantTypes DEF WordSeq
    <3>5. s10 \in Record
      BY <2>2, <3>4 DEF Record
    <3>6. TypeOK
      <4>1. upd \in Sessions /\ at \in Int
        BY ConstantTypes DEF Init, Callers
      <4>2. QED
        BY <2>2, <3>3, <3>4, <3>5, <4>1, ConstantTypes DEF Init, TypeOK, PCs, Returns
    <3>7. CrcMatches(s, img) /\ JumpValid(s)
      BY <2>2, <3>1, SlotSizeAssumption DEF CrcMatches, JumpValid
    <3>8. QED
      BY <2>2, <3>6, <3>7 DEF AcceptedIntact, Whole
  <2>3. QED
    BY <2>1, <2>2 DEF Init
<1>2. SessionInv /\ SaveInv /\ RunsVerifiedImage
  BY DEF Init, SessionInv, SaveInv, RunsVerifiedImage
<1>3. QED
  BY <1>1, <1>2 DEF IInv

-----------------------------------------------------------------------------
(* The steps *)

\* The load of the record and the start decision keep the invariant.
LEMMA DecisionSteps ==
  ASSUME IInv,
         \/ Load \/ CheckRequest \/ (\E pressed \in BOOLEAN : CheckKey(pressed))
         \/ TryActive \/ TryAlt \/ JumpAlt
  PROVE  IInv'
<1> USE ConstantTypes DEF IInv
<1>1. CASE Load
  BY <1>1 DEF Load, TypeOK, PCs, Returns, SessionInv, SaveInv, RunsVerifiedImage, CrcMatches, JumpValid
<1>2. CASE CheckRequest
  <2>1. CASE req
    <3>1. upd' = NoSession("request") /\ upd' \in Sessions
      BY <1>2, <2>1 DEF CheckRequest, Callers
    <3>2. QED
      BY <1>2, <2>1, <3>1 DEF CheckRequest, TypeOK, PCs, SessionInv, SaveInv,
            RunsVerifiedImage, CrcMatches, JumpValid
  <2>2. CASE ~req
    BY <1>2, <2>2 DEF CheckRequest, TypeOK, PCs, SessionInv, SaveInv,
          RunsVerifiedImage, CrcMatches, JumpValid
  <2>3. QED
    BY <2>1, <2>2
<1>3. ASSUME NEW pressed \in BOOLEAN, CheckKey(pressed)
      PROVE  IInv'
  BY <1>3 DEF CheckKey, TypeOK, PCs, Callers, SessionInv, SaveInv,
              RunsVerifiedImage, CrcMatches, JumpValid
<1>4. CASE TryActive
  BY <1>4 DEF TryActive, TypeOK, PCs, SessionInv, SaveInv, RunsVerifiedImage, Bootable, CrcMatches, JumpValid
<1>5. CASE TryAlt
  <2>1. CASE Bootable(ram, Other(ram.active))
    <3>1. /\ ram' = [ram EXCEPT !.active = Other(ram.active)]
          /\ ram' \in Record /\ ram'.active = Other(ram.active)
          /\ ram'.img = ram.img
      BY <1>5, <2>1 DEF TryAlt, TypeOK, Record
    <3>2. Bootable(ram, ram.active)'
      BY <1>5, <2>1, <3>1 DEF TryAlt, Bootable, CrcMatches
    <3>3. QED
      BY <1>5, <2>1, <3>1, <3>2 DEF TryAlt, TypeOK, PCs, Returns, SessionInv,
            SaveInv, RunsVerifiedImage, CrcMatches, JumpValid
  <2>2. CASE ~Bootable(ram, Other(ram.active))
    <3>1. upd' = NoSession("no_firmware") /\ upd' \in Sessions
      BY <1>5, <2>2 DEF TryAlt, Callers
    <3>2. QED
      BY <1>5, <2>2, <3>1 DEF TryAlt, TypeOK, PCs, SessionInv, SaveInv,
            RunsVerifiedImage, CrcMatches, JumpValid
  <2>3. QED
    BY <2>1, <2>2
<1>6. CASE JumpAlt
  BY <1>6 DEF JumpAlt, TypeOK, Record, PCs, Callers, Returns, SessionInv, SaveInv,
              RunsVerifiedImage, Bootable, CrcMatches, JumpValid
<1>7. QED
  BY <1>1, <1>2, <1>3, <1>4, <1>5, <1>6

\* The two halves of fw_info_save keep the invariant.
LEMMA SaveSteps ==
  ASSUME IInv, SaveErase \/ SaveWrite
  PROVE  IInv'
<1> USE ConstantTypes DEF IInv
<1>1. CASE SaveErase
  BY <1>1 DEF SaveErase, TypeOK, PCs, Returns, SessionInv, SaveInv,
              RunsVerifiedImage, Bootable, CrcMatches, JumpValid
<1>2. CASE SaveWrite
  BY <1>2 DEF SaveWrite, TypeOK, PCs, Returns, SessionInv, SaveInv,
              RunsVerifiedImage, Bootable, CrcMatches, JumpValid
<1>3. QED
  BY <1>1, <1>2

\* The loops over the sectors of a slot and the words of a frame.
LEMMA FlashSteps ==
  ASSUME IInv, EraseSector \/ ProgramWord
  PROVE  IInv'
<1> USE ConstantTypes DEF IInv
<1>1. upd.slot \in Slots /\ upd.img \in WordSeq /\ upd.caller \in Callers
  BY DEF TypeOK, Sessions
<1>2. CASE EraseSector
  <2>1. at \in 0..(SlotSize[upd.slot] - 1) /\ upd.state = "IDLE"
    BY <1>1, <1>2, SlotSizeAssumption DEF EraseSector, SessionInv, TypeOK
  <2>2. PICK w \in Word : flash' = [flash EXCEPT ![upd.slot][at] = w]
    BY <1>2 DEF EraseSector
  <2>3. /\ flash' = [t \in Slots |-> flash'[t]]
        /\ \A t \in Slots : flash'[t] \in [0..(SlotSize[t] - 1) -> Word]
        /\ \A t \in Slots : t # upd.slot => flash'[t] = flash[t]
    BY <1>1, <2>1, <2>2, FlashWrite
  <2>4. accepted[upd.slot] = <<>> /\ accepted' = accepted /\ pc' # "app"
    <3>1. pc = "erasing"
      BY <1>2 DEF EraseSector
    <3>2. accepted[upd.slot] = <<>>
      BY <3>1 DEF SessionInv
    <3>3. accepted' = accepted /\ pc' \in {pc, "update"}
      BY <1>2 DEF EraseSector
    <3>4. QED
      BY <3>1, <3>2, <3>3
  <2>5. RunsVerifiedImage'
    BY <2>4 DEF RunsVerifiedImage
  <2>6. CASE upd' = NoSession(upd.caller) /\ at' = 0 /\ pc' = "update"
              /\ reply' = Nak("erase")
    BY <1>1, <1>2, <2>3, <2>5, <2>6
    DEF EraseSector, TypeOK, PCs, NakCodes, SessionInv, SaveInv
  <2>7. CASE upd' = [upd EXCEPT !.state = "RECEIVING"] /\ at' = 0
              /\ pc' = "update" /\ reply' = Ack
    <3>1. upd' \in Sessions /\ upd'.slot = upd.slot /\ upd'.img = upd.img
      BY <2>7 DEF TypeOK, Sessions
    <3>2. QED
      BY <1>1, <1>2, <2>3, <2>4, <2>5, <2>7, <3>1
      DEF EraseSector, TypeOK, PCs, SessionInv, SaveInv
  <2>8. CASE at + 1 # SlotSize[upd.slot] /\ at' = at + 1 /\ reply' = NoReply
              /\ pc' = pc /\ upd' = upd
    <3>1. at' \in Nat /\ at' < SlotSize[upd.slot]
      BY <1>1, <2>1, <2>8, SlotSizeAssumption
    <3>2. QED
      BY <1>1, <1>2, <2>3, <2>4, <2>5, <2>8, <3>1
      DEF EraseSector, TypeOK, PCs, SessionInv, SaveInv
  <2>9. QED
    BY <1>2, <2>6, <2>7, <2>8 DEF EraseSector
<1>3. CASE ProgramWord
  <2>1. /\ pc = "programming" /\ accepted[upd.slot] = <<>>
        /\ UNCHANGED <<s10, ram, req, upd, ret, accepted>> /\ pc' # "app"
    BY <1>3 DEF ProgramWord, SessionInv
  <2>2. /\ at \in Int /\ at < SlotSize[upd.slot] /\ todo # <<>>
        /\ Len(todo) \in Nat \ {0} /\ Head(todo) \in Word /\ Tail(todo) \in WordSeq
        /\ Len(Tail(todo)) = Len(todo) - 1 /\ Len(upd.img) \in Nat
        /\ at + Len(todo) <= Len(upd.img) /\ Len(upd.img) <= SlotSize[upd.slot]
        /\ upd.state = "RECEIVING"
    BY <2>1, ProgramRange
  <2>3. Stored(upd.slot, at) \in Word
    BY <1>1, <2>2, WordStored
  <2>4. PICK w \in Word : flash' = Written(upd.slot, at, w)
    BY <1>3, <2>2, <2>3 DEF ProgramWord, Program, Word
  <2>5. /\ flash' = [t \in Slots |-> flash'[t]]
        /\ \A t \in Slots : flash'[t] \in [0..(SlotSize[t] - 1) -> Word]
    BY <1>1, <2>2, <2>4, WordWritten
  <2>6. RunsVerifiedImage'
    BY <2>1 DEF RunsVerifiedImage
  <2>7. CASE pc' = "update" /\ at' = 0 /\ todo' \in {<<>>, Tail(todo)}
              /\ reply' \in {Ack, Nak("flash")}
    <3>1. TypeOK'
      <4>0. TypeOK /\ "flash" \in NakCodes
        BY DEF NakCodes
      <4> HIDE DEF Nak, Ack, NoReply
      <4>1. reply' \in Replies
        BY <2>7, <4>0
      <4>2. at' \in Int
        BY <2>7
      <4>3. todo' \in WordSeq
        <5>1. <<>> \in WordSeq
          BY ConstantTypes
        <5>2. todo' = <<>> \/ todo' = Tail(todo)
          BY <2>7
        <5>3. QED
          BY <2>2, <5>1, <5>2
      <4>4. pc' \in PCs
        BY <2>7 DEF PCs
      <4> HIDE DEF IInv, ConstantTypes
      <4>5. QED
        BY <2>1, <2>5, <4>0, <4>1, <4>2, <4>3, <4>4 DEF TypeOK
    <3>2. SessionInv' /\ SaveInv'
      BY <2>1, <2>2, <2>7 DEF SessionInv, SaveInv
    <3>3. QED
      BY <2>6, <3>1, <3>2
  <2>8. CASE Tail(todo) # <<>> /\ pc' = pc /\ at' = at + 1
              /\ todo' = Tail(todo) /\ reply' = NoReply
    <3>1. at' \in Int /\ at' + Len(todo') <= Len(upd.img)
      BY <2>2, <2>8
    <3>2. QED
      BY <2>1, <2>2, <2>5, <2>6, <2>8, <3>1
      DEF TypeOK, PCs, SessionInv, SaveInv
  <2>9. QED
    BY <1>3, <2>7, <2>8 DEF ProgramWord
<1>4. QED
  BY <1>2, <1>3

\* A frame that is only answered changes nothing else.
LEMMA NakSteps ==
  ASSUME IInv, NEW r \in Replies, Answer(r)
  PROVE  IInv'
  BY ZenonT(30) DEF IInv, TypeOK, SessionInv, SaveInv, RunsVerifiedImage,
         Bootable, CrcMatches, JumpValid

\* A frame that uint32_t offsets and addresses can name.
Nameable(o, p) ==
  /\ o \in 0..(AddressBytes - 1)
  /\ p \in WordSeq \ {<<>>} /\ Len(p) <= AddressWords

\* The range test lets a frame in only if its last word is one of the image,
\* wherever its first word is.
LEMMA DataRange ==
  ASSUME NEW o, NEW p, Nameable(o, p), NEW n \in Nat, n < AddressWords,
         o % WordBytes = 0, ~(FrameEnd(o, p) % AddressBytes > WordBytes * n)
  PROVE  /\ FirstWord(o, p) \in Int /\ FirstWord(o, p) + Len(p) <= n
         /\ FrameEnd(o, p) < AddressBytes => FirstWord(o, p) = o \div WordBytes
<1>1. /\ o \in Nat /\ Len(p) \in Nat \ {0} /\ AddressWords \in Nat \ {0}
      /\ o < 4 * AddressWords /\ Len(p) <= AddressWords
  <2>1. p \in Seq(Word) /\ p # <<>>
    BY DEF Nameable, WordSeq
  <2>2. Len(p) \in Nat \ {0}
    BY <2>1, EmptySeq, LenProperties
  <2>3. QED
    BY <2>2, InputAssumption DEF Nameable, AddressBytes
<1>2. PICK q \in Nat : o = 4 * q
  BY <1>1
<1>3. o \div 4 = q
  BY <1>2
<1> DEFINE f == 4 * (q + Len(p))
<1>4. f = 4 * q + 4 * Len(p) /\ FrameEnd(o, p) = f /\ AddressBytes = 4 * AddressWords /\ f \in Nat
  BY <1>1, <1>2 DEF FrameEnd, AddressBytes
<1> HIDE DEF f
<1>5. CASE f < 4 * AddressWords
  <2>1. f % (4 * AddressWords) = f
    BY <1>1, <1>4, <1>5
  <2>2. FirstWord(o, p) = q
    BY <1>1, <1>3, <1>4, <1>5 DEF FirstWord
  <2>3. ~(f > 4 * n)
    BY <1>4, <2>1
  <2>4. QED
    BY <1>1, <1>3, <1>4, <2>2, <2>3
<1>6. CASE ~(f < 4 * AddressWords)
  <2>1. FirstWord(o, p) = q - AddressWords
    BY <1>1, <1>3, <1>4, <1>6 DEF FirstWord
  <2>2. f - 4 * AddressWords \in Nat /\ f - 4 * AddressWords < 4 * AddressWords
    BY <1>1, <1>2, <1>4, <1>6
  <2>3. f % (4 * AddressWords) = f - 4 * AddressWords
    BY <1>1, <1>4, <2>2
  <2>4. ~(f - 4 * AddressWords > 4 * n)
    BY <1>4, <2>3
  <2>5. QED
    BY <1>1, <1>4, <1>6, <2>1, <2>4
<1>7. QED
  BY <1>5, <1>6

\* An OTA_DATA with any offset and any words.
LEMMA DataFrames ==
  ASSUME IInv, NEW o, NEW p, Nameable(o, p), RecvData(o, p)
  PROVE  IInv'
<1> USE ConstantTypes DEF IInv
<1>0. upd.slot \in Slots /\ upd.img \in WordSeq /\ upd.caller \in Callers
  BY DEF TypeOK, Sessions
<1>1. CASE \E c \in NakCodes : Answer(Nak(c))
  BY <1>1, NakSteps
<1>2. CASE /\ pc = "update" /\ upd.state # "IDLE" /\ o % WordBytes = 0
           /\ ~(FrameEnd(o, p) % AddressBytes > WordBytes * Len(upd.img))
           /\ pc' = "programming" /\ at' = FirstWord(o, p) /\ todo' = p
           /\ reply' = NoReply
           /\ UNCHANGED <<flash, s10, ram, req, upd, ret, accepted>>
  <2>1. upd.state = "RECEIVING"
    BY <1>2 DEF TypeOK, Sessions
  <2>2. p \in WordSeq /\ p # <<>> /\ Len(upd.img) \in Nat
    BY <1>0 DEF WordSeq, Nameable
  <2>3. Len(upd.img) < AddressWords
    BY <1>2, <2>1 DEF SessionInv
  <2>4. at' \in Int /\ at' + Len(p) <= Len(upd.img)
    BY <1>2, <2>2, <2>3, DataRange
  <2>5. TypeOK'
    BY <1>2, <2>2, <2>4 DEF TypeOK, PCs
  <2>6. SessionInv'
    BY <1>2, <2>1, <2>2, <2>4 DEF SessionInv
  <2>7. QED
    BY <1>2, <2>5, <2>6 DEF SaveInv, RunsVerifiedImage, CrcMatches, JumpValid
<1>3. QED
  BY <1>1, <1>2 DEF RecvData, NakCodes

\* The frames of update mode.
LEMMA ReceiveSteps ==
  ASSUME IInv, Receive
  PROVE  IInv'
<1> USE ConstantTypes DEF IInv
<1>1. upd.slot \in Slots /\ upd.img \in WordSeq /\ upd.caller \in Callers
  BY DEF TypeOK, Sessions
<1>2. ASSUME NEW r \in Replies, Answer(r)
      PROVE  IInv'
  BY <1>2, NakSteps
<1>3. ASSUME NEW s \in Slots \cup {BadSlot}, NEW img \in Images, RecvStart(s, img)
      PROVE  IInv'
  <2>1. CASE \E c \in NakCodes : Answer(Nak(c))
    BY <2>1, <1>2
  <2>2. CASE /\ pc = "update" /\ upd.state # "RECEIVING" /\ s \in Slots
             /\ img # <<>> /\ ~(Len(img) > SlotSize[s])
             /\ upd' = [upd EXCEPT !.slot = s, !.img = img]
             /\ accepted' = [accepted EXCEPT ![s] = <<>>]
             /\ pc' = "erasing" /\ at' = 0 /\ reply' = NoReply
             /\ UNCHANGED <<flash, s10, ram, req, todo, ret>>
    <3>1. /\ img \in WordSeq /\ Len(img) \in Nat /\ SlotSize[s] \in Nat \ {0}
          /\ Len(img) < AddressWords
      BY <2>2, InputAssumption, SlotSizeAssumption DEF WordSeq
    <3>2. /\ upd' \in Sessions /\ upd'.slot = s /\ upd'.img = img
          /\ upd'.state = "IDLE"
      BY <2>2, <3>1 DEF TypeOK, Sessions
    <3>3. accepted' \in [Slots -> WordSeq] /\ accepted'[s] = <<>>
      BY <2>2 DEF TypeOK
    <3>4. TypeOK'
      BY <2>2, <3>2, <3>3 DEF TypeOK, PCs
    <3>5. SessionInv'
      BY <2>2, <3>1, <3>2, <3>3 DEF SessionInv
    <3>6. QED
      BY <2>2, <3>4, <3>5 DEF SaveInv, RunsVerifiedImage
  <2>3. QED
    BY <1>3, <2>1, <2>2 DEF RecvStart, NakCodes
<1>4. ASSUME NEW o \in Offsets, NEW p \in Payloads, RecvData(o, p)
      PROVE  IInv'
  <2>1. Nameable(o, p)
    BY InputAssumption DEF Nameable, AddressBytes
  <2>2. QED
    BY <1>4, <2>1, DataFrames
<1>5. CASE RecvFinish
  <2>1. CASE \E c \in NakCodes : Answer(Nak(c))
    BY <2>1, <1>2
  <2>2. CASE /\ \E c \in NakCodes : reply' = Nak(c)
             /\ upd' = NoSession(upd.caller)
             /\ UNCHANGED <<pc, flash, s10, ram, req, at, todo, ret, accepted>>
             /\ pc = "update"
    BY <1>1, <2>2 DEF TypeOK, SessionInv, SaveInv, RunsVerifiedImage,
                      Bootable, CrcMatches, JumpValid
  <2>3. CASE /\ pc = "update" /\ upd.state # "IDLE"
             /\ CrcMatches(upd.slot, upd.img) /\ JumpValid(upd.slot)
             /\ ram' = [active |-> upd.slot,
                        img |-> [ram.img EXCEPT ![upd.slot] = upd.img]]
             /\ accepted' = [accepted EXCEPT ![upd.slot] = upd.img]
             /\ pc' = "save_erase" /\ ret' = "finish" /\ reply' = NoReply
             /\ UNCHANGED <<flash, s10, req, at, todo, upd>>
    <3>1. upd.state = "RECEIVING" /\ upd.img # <<>>
      BY <2>3 DEF TypeOK, Sessions, SessionInv
    <3>2. /\ ram' \in Record /\ ram'.active = upd.slot
          /\ ram'.img[upd.slot] = upd.img
      BY <1>1, <2>3 DEF TypeOK, Record
    <3>3. accepted' \in [Slots -> WordSeq] /\ accepted'[upd.slot] = upd.img
      BY <1>1, <2>3 DEF TypeOK
    <3>4. TypeOK'
      BY <2>3, <3>2, <3>3 DEF TypeOK, PCs, Returns
    <3>5. SessionInv'
      BY <2>3, <3>1 DEF SessionInv
    <3>6. SaveInv'
      BY <2>3, <3>1, <3>2 DEF SaveInv, Bootable, CrcMatches, JumpValid
    <3>7. QED
      BY <2>3, <3>4, <3>5, <3>6 DEF RunsVerifiedImage
  <2>4. QED
    BY <1>5, <2>1, <2>2, <2>3 DEF RecvFinish, NakCodes
<1>6. CASE RecvAbort
  <2>1. /\ upd' = NoSession(upd.caller) /\ reply' \in Replies
        /\ pc' \in {"check_key", "try_active", "update"}
        /\ UNCHANGED <<flash, s10, ram, req, at, todo, ret, accepted>>
    BY <1>1, <1>6 DEF RecvAbort, Callers
  <2>2. QED
    BY <1>1, <2>1 DEF TypeOK, PCs, SessionInv, SaveInv, RunsVerifiedImage, Bootable, CrcMatches, JumpValid
<1>7. ASSUME NEW cmd \in {"short_start", "short_data", "other"}, RecvOther(cmd)
      PROVE  IInv'
  BY <1>2, <1>7 DEF RecvOther, NakCodes
<1>8. QED
  BY <1>3, <1>4, <1>5, <1>6, <1>7 DEF Receive

\* The end of OTA_FINISH, the application, and resets and power cuts.
LEMMA EndSteps ==
  ASSUME IInv,
         \/ FinishJump \/ AppRequestsUpdate
         \/ (\E powerCut \in BOOLEAN : Crash(powerCut))
  PROVE  IInv'
<1> USE ConstantTypes DEF IInv
<1>1. upd.slot \in Slots /\ upd.caller \in Callers
  BY DEF TypeOK, Sessions
<1>2. CASE FinishJump
  <2>1. pc = "finish" /\ ram.active = upd.slot /\ Bootable(ram, upd.slot)
        /\ JumpValid(upd.slot)
    BY <1>2 DEF FinishJump, SaveInv
  <2>2. upd' = NoSession(upd.caller) /\ upd' \in Sessions
    BY <1>1, <1>2 DEF FinishJump
  <2>3. /\ pc' = "app" /\ reply' = Ack /\ ret' = "check_request"
        /\ UNCHANGED <<flash, s10, ram, req, at, todo, accepted>>
    BY <1>2, <2>1 DEF FinishJump
  <2>4. QED
    BY <2>1, <2>2, <2>3 DEF TypeOK, PCs, Returns, SessionInv, SaveInv,
          RunsVerifiedImage, Bootable, CrcMatches, JumpValid
<1>3. CASE AppRequestsUpdate
  BY <1>3 DEF AppRequestsUpdate, TypeOK, PCs, SessionInv, SaveInv,
              RunsVerifiedImage, Bootable, CrcMatches, JumpValid
<1>4. ASSUME NEW powerCut \in BOOLEAN, Crash(powerCut)
      PROVE  IInv'
  <2>1. /\ flash' = [t \in Slots |-> flash'[t]]
        /\ \A t \in Slots : flash'[t] \in [0..(SlotSize[t] - 1) -> Word]
        /\ s10' \in Record \cup {NoRecord}
    BY <1>4, InterruptedFlash DEF Crash
  <2>2. upd' = NoSession("no_firmware") /\ upd' \in Sessions
    BY <1>4 DEF Crash, Callers
  <2>3. /\ pc' = "load" /\ ram' = DefaultRecord /\ req' \in BOOLEAN /\ at' = 0
        /\ todo' = <<>> /\ ret' = "check_request" /\ reply' = NoReply
        /\ accepted' = accepted
    BY <1>4 DEF Crash, TypeOK
  <2>4. TypeOK'
    BY <2>1, <2>2, <2>3 DEF TypeOK, PCs, Returns
  <2>5. QED
    BY <2>2, <2>3, <2>4 DEF SessionInv, SaveInv, RunsVerifiedImage
<1>5. QED
  BY <1>2, <1>3, <1>4

\* A step that changes nothing keeps the invariant.
LEMMA Stutter == ASSUME IInv, UNCHANGED vars PROVE IInv'
  BY ZenonT(30) DEF vars, IInv, TypeOK, SessionInv, SaveInv, RunsVerifiedImage,
         Bootable, CrcMatches, JumpValid

-----------------------------------------------------------------------------
(* Theorems *)

\* A step of the bootloader, the host, the application or a reset, for any host
\* whose frames have uint32_t offsets.
Moves == [Next]_vars \/ \E o \in Nat, p \in WordSeq : Nameable(o, p) /\ RecvData(o, p)

LEMMA MovesKeep == ASSUME IInv, Moves PROVE IInv'
  BY DecisionSteps, SaveSteps, FlashSteps, ReceiveSteps, DataFrames, EndSteps, Stutter
  DEF Moves, Next, Step

\* The invariant the others follow from: every step of the bootloader, the
\* host, the application or a reset keeps it.
THEOREM Invariance == Spec => []IInv
<1>1. ASSUME IInv, [Next]_vars PROVE IInv'
  BY <1>1, MovesKeep DEF Moves
<1>2. QED
  BY InitIInv, <1>1, PTL DEF Spec

\* Every variable of the bootloader keeps its type.
THEOREM TypeCorrect == Spec => []TypeOK
<1>1. IInv => TypeOK
  BY DEF IInv
<1>2. QED
  BY Invariance, <1>1, PTL

\* main and OTA_FINISH never jump to an image that is not whole.
THEOREM OnlyVerifiedImagesRun == Spec => []RunsVerifiedImage
<1>1. IInv => RunsVerifiedImage
  BY DEF IInv
<1>2. QED
  BY Invariance, <1>1, PTL

-----------------------------------------------------------------------------
(* What a step may never do *)

\* A step touches the record only in a save, and a slot only while it is the
\* one being erased or programmed, or by a wrapped OTA_DATA.
LEMMA StepFrame ==
  ASSUME IInv, Moves
  PROVE  /\ s10' = s10 \/ pc \in {"save_erase", "save_write"}
         /\ \A t \in Slots : flash'[t] = flash[t] \/ InWork(t) \/ StrayWrite
<1> USE DEF IInv
<1>1. CASE UNCHANGED vars
  BY <1>1 DEF vars
<1>2. CASE EraseSector
  <2>1. pc = "erasing" /\ s10' = s10
    BY <1>2 DEF EraseSector
  <2>2. PICK v : flash' = [flash EXCEPT ![upd.slot] = v]
    BY <1>2 DEF EraseSector
  <2>3. \A t \in Slots : t # upd.slot => flash'[t] = flash[t]
    BY <2>2 DEF TypeOK
  <2>4. QED
    BY <2>1, <2>3 DEF InWork
<1>3. CASE ProgramWord
  <2>1. pc = "programming" /\ s10' = s10
    BY <1>3 DEF ProgramWord
  <2>2. upd.slot \in Slots /\ at \in Int /\ at < SlotSize[upd.slot] /\ Head(todo) \in Word
    BY <2>1, ProgramRange
  <2>3. Stored(upd.slot, at) \in Word
    BY <2>2, WordStored
  <2>4. PICK w \in Word : flash' = Written(upd.slot, at, w)
    BY <1>3, <2>2, <2>3 DEF ProgramWord, Program, Word
  <2>5. \A t \in Slots : t # upd.slot /\ at >= 0 => flash'[t] = flash[t]
    BY <2>2, <2>4, WordWritten
  <2>6. QED
    BY <2>1, <2>2, <2>5 DEF InWork, StrayWrite
<1>4. ASSUME NEW powerCut \in BOOLEAN, Crash(powerCut)
      PROVE  /\ s10' = s10 \/ pc \in {"save_erase", "save_write"}
             /\ \A t \in Slots : flash'[t] = flash[t] \/ InWork(t) \/ StrayWrite
  BY <1>4, InterruptedFlash DEF Crash
<1>5. CASE SaveErase \/ SaveWrite
  BY <1>5 DEF SaveErase, SaveWrite
<1>6. CASE Receive \/ \E o \in Nat, p \in WordSeq : Nameable(o, p) /\ RecvData(o, p)
  <2>1. flash' = flash /\ s10' = s10
    BY <1>6 DEF Receive, RecvStart, RecvData, RecvFinish, RecvAbort, RecvOther
  <2>2. QED
    BY <2>1
<1>7. CASE \/ Load \/ CheckRequest \/ TryActive \/ TryAlt \/ JumpAlt \/ FinishJump
           \/ AppRequestsUpdate \/ (\E pressed \in BOOLEAN : CheckKey(pressed))
  BY <1>7 DEF Load, CheckRequest, TryActive, TryAlt, JumpAlt, FinishJump,
              AppRequestsUpdate, CheckKey
<1>8. QED
  BY <1>1, <1>2, <1>3, <1>4, <1>5, <1>6, <1>7 DEF Moves, Next, Step

\* An image is newly activated only by an OTA_FINISH that has found it whole.
LEMMA ActivationSteps ==
  ASSUME IInv, Moves, NEW s \in Slots, accepted'[s] # <<>>
  PROVE  accepted'[s] = accepted[s] \/ Whole(s)'
<1> USE DEF IInv
<1>0. upd.slot \in Slots
  BY DEF TypeOK, Sessions
<1>1. CASE UNCHANGED accepted
  BY <1>1
<1>2. ASSUME NEW t \in Slots \cup {BadSlot}, NEW img \in Images, RecvStart(t, img)
      PROVE  accepted'[s] = accepted[s]
  BY <1>2 DEF RecvStart, TypeOK
<1>3. CASE RecvFinish
  <2>1. CASE UNCHANGED accepted
    BY <2>1
  <2>2. CASE ~ UNCHANGED accepted
    <3>1. /\ accepted' = [accepted EXCEPT ![upd.slot] = upd.img] /\ UNCHANGED flash
          /\ CrcMatches(upd.slot, upd.img) /\ JumpValid(upd.slot)
      BY <1>3, <2>2 DEF RecvFinish
    <3>2. CASE s = upd.slot
      BY <1>0, <3>1, <3>2 DEF TypeOK, Whole, CrcMatches, JumpValid
    <3>3. CASE s # upd.slot
      BY <3>1, <3>3 DEF TypeOK
    <3>4. QED
      BY <3>2, <3>3
  <2>3. QED
    BY <2>1, <2>2
<1>4. CASE \/ RecvAbort \/ (\E cmd \in {"short_start", "short_data", "other"} : RecvOther(cmd))
           \/ (\E o \in Offsets, p \in Payloads : RecvData(o, p))
           \/ (\E o \in Nat, p \in WordSeq : Nameable(o, p) /\ RecvData(o, p))
           \/ AppRequestsUpdate \/ (\E powerCut \in BOOLEAN : Crash(powerCut))
  BY <1>1, <1>4 DEF RecvAbort, RecvOther, RecvData, AppRequestsUpdate, Crash
<1>5. CASE Step
  BY <1>1, <1>5 DEF Step, Load, SaveErase, SaveWrite, CheckRequest, CheckKey, TryActive,
     TryAlt, JumpAlt, EraseSector, ProgramWord, FinishJump
<1>6. QED
  BY <1>1, <1>2, <1>3, <1>4, <1>5 DEF Moves, Next, Receive, vars

\* A slot in work holds no activated image, so only a wrapped OTA_DATA of a
\* session on the other slot can damage one.
LEMMA WholeKept ==
  ASSUME IInv, Moves, NEW s \in Slots, accepted'[s] # <<>>
  PROVE  \/ Whole(s)'
         \/ /\ accepted'[s] = accepted[s]
            /\ ~Whole(s) \/ (StrayWrite /\ s # upd.slot)
<1>1. CASE accepted'[s] = accepted[s] /\ Whole(s)
  <2>1. ~InWork(s) /\ (StrayWrite => s # upd.slot)
    BY <1>1 DEF IInv, SessionInv, InWork, StrayWrite
  <2>2. CASE flash'[s] = flash[s]
    BY <1>1, <2>2 DEF Whole, CrcMatches, JumpValid
  <2>3. QED
    BY <1>1, <2>1, <2>2, StepFrame
<1>2. QED
  BY <1>1, ActivationSteps

\* The same of the last bootable image.
LEMMA ImageKept ==
  ASSUME IInv, Moves, HasImage, ~HasImage'
  PROVE  \/ pc = "save_erase"
         \/ /\ pc \in {"erasing", "programming"}
            /\ ~Bootable(s10, Other(upd.slot))
         \/ StrayWrite
<1> SUFFICES ASSUME pc # "save_erase", ~StrayWrite
             PROVE  pc \in {"erasing", "programming"} /\ ~Bootable(s10, Other(upd.slot))
  OBVIOUS
<1>1. pc # "save_write"
  BY DEF IInv, SaveInv, HasImage
<1>2. s10' = s10 /\ \A t \in Slots : flash'[t] = flash[t] \/ InWork(t)
  BY <1>1, StepFrame
<1>3. \A t \in Slots : flash'[t] = flash[t] => (Bootable(s10, t) => Bootable(s10, t)')
  BY <1>2 DEF Bootable, CrcMatches
<1>4. \A t \in Slots : Bootable(s10, t) => InWork(t)
  BY <1>2, <1>3 DEF HasImage
<1>5. upd.slot \in Slots /\ Other(upd.slot) \in Slots /\ Other(upd.slot) # upd.slot
  BY DEF IInv, TypeOK, Sessions
<1>6. QED
  BY <1>4, <1>5 DEF HasImage, InWork

\* Whatever frames come, with whatever offsets, an activated image stays whole
\* until its slot is updated or a wrapped OTA_DATA of the other slot's session
\* reaches it; none is activated that is not whole.
THEOREM ActivatedImagesStayWhole == Spec => ActivatedStaysWhole
<1>1. ASSUME IInv, [Next]_vars
      PROVE  [\A s \in Slots : accepted'[s] # <<>> =>
                \/ Whole(s)'
                \/ /\ accepted'[s] = accepted[s]
                   /\ ~Whole(s) \/ (StrayWrite /\ s # upd.slot)]_vars
  BY <1>1, WholeKept DEF Moves
<1>2. QED
  BY Invariance, <1>1, PTL DEF Spec, ActivatedStaysWhole

\* No step takes the last bootable image away but the erase of S10, the update
\* of its own slot, and a wrapped OTA_DATA.
THEOREM UpdatesKeepAnImage == Spec => KeepsABootableImage
<1>1. ASSUME IInv, [Next]_vars
      PROVE  [(HasImage /\ ~HasImage' =>
                 \/ pc = "save_erase"
                 \/ /\ pc \in {"erasing", "programming"}
                    /\ ~Bootable(s10, Other(upd.slot))
                 \/ StrayWrite)]_vars
  BY <1>1, ImageKept DEF Moves
<1>2. QED
  BY Invariance, <1>1, PTL DEF Spec, KeepsABootableImage

\* What the start decision has found out so far: the slots it has passed over
\* could not run.
Runs(s) == Bootable(ram, s) /\ JumpValid(s)
TriedInv ==
  /\ pc = "try_alt" => ~Runs(ram.active)
  /\ (pc \in {"save_erase", "save_write", "jump_alt"} /\ ret = "jump_alt") =>
       ~Runs(Other(ram.active))

\* The start decision keeps what it has found out until it ends.
LEMMA TriedInvariance == Spec => []TriedInv
<1>1. Init => TriedInv
  BY DEF Init, TriedInv
<1>2. ASSUME IInv, TriedInv, [Next]_vars PROVE TriedInv'
  <2>1. CASE UNCHANGED vars
    BY <1>2, <2>1 DEF TriedInv, vars, Runs, Bootable, CrcMatches, JumpValid
  <2>2. CASE TryActive
    BY <1>2, <2>2 DEF TryActive, TriedInv, Runs, Bootable, CrcMatches, JumpValid
  <2>3. CASE TryAlt
    <3>1. ~Runs(ram.active) /\ ram.active \in Slots
      BY <1>2, <2>3 DEF TryAlt, TriedInv, IInv, TypeOK, Record
    <3>2. CASE ~Bootable(ram, Other(ram.active))
      BY <2>3, <3>2 DEF TryAlt, TriedInv
    <3>3. CASE Bootable(ram, Other(ram.active))
      <4>0. ram' = [ram EXCEPT !.active = Other(ram.active)]
        BY <2>3, <3>3 DEF TryAlt
      <4>1. ram'.img = ram.img /\ Other(ram'.active) = ram.active
        BY <1>2, <3>1, <4>0 DEF IInv, TypeOK, Record
      <4>2. ~Runs(Other(ram.active))'
        BY <2>3, <3>1, <4>1 DEF TryAlt, Runs, Bootable, CrcMatches, JumpValid
      <4>3. QED
        BY <2>3, <3>3, <4>2 DEF TryAlt, TriedInv
    <3>4. QED
      BY <3>2, <3>3
  <2>4. CASE SaveErase \/ SaveWrite
    BY <1>2, <2>4 DEF SaveErase, SaveWrite, IInv, TypeOK, Returns, TriedInv,
                      Runs, Bootable, CrcMatches, JumpValid
  <2>5. CASE Load \/ CheckRequest \/ (\E pressed \in BOOLEAN : CheckKey(pressed))
             \/ JumpAlt \/ FinishJump \/ AppRequestsUpdate \/ EraseSector \/ ProgramWord
             \/ (\E powerCut \in BOOLEAN : Crash(powerCut))
    BY <1>2, <2>5 DEF Load, CheckRequest, CheckKey, JumpAlt, FinishJump,
         AppRequestsUpdate, EraseSector, ProgramWord, Crash, TriedInv
  <2>6. CASE Receive
    BY <1>2, <2>6 DEF Receive, RecvStart, RecvData, RecvFinish, RecvAbort, RecvOther,
                      IInv, TypeOK, Sessions, Callers, TriedInv
  <2>7. QED
    BY <1>2, <2>1, <2>2, <2>3, <2>4, <2>5, <2>6 DEF Next, Step
<1>3. QED
  BY Invariance, <1>1, <1>2, PTL DEF Spec

\* main waits for firmware only when neither slot could have been started.
THEOREM GivesUpLast == Spec => GivesUpOnlyWithoutImage
<1>1. ASSUME IInv, TriedInv, [Next]_vars,
             pc \in {"try_active", "try_alt", "jump_alt"}, pc' = "update"
      PROVE  ~CanRun
  <2>1. TryActive \/ TryAlt \/ JumpAlt
    BY <1>1 DEF Next, Step, Receive, vars, Load, SaveErase, SaveWrite, CheckRequest,
         CheckKey, EraseSector, ProgramWord, FinishJump, RecvStart, RecvData,
         RecvFinish, RecvAbort, RecvOther, AppRequestsUpdate, Crash
  <2>2. ram.active \in Slots
    BY <1>1 DEF IInv, TypeOK, Record
  <2>3. CASE TryActive
    BY <1>1, <2>3 DEF TryActive
  <2>4. CASE TryAlt
    BY <1>1, <2>2, <2>4 DEF TryAlt, TriedInv, Runs, CanRun
  <2>5. CASE JumpAlt
    <3>1. ~JumpValid(ram.active) /\ ret = "jump_alt"
      BY <1>1, <2>5 DEF JumpAlt, IInv, SaveInv
    <3>2. QED
      BY <1>1, <2>2, <2>5, <3>1 DEF JumpAlt, TriedInv, Runs, CanRun
  <2>6. QED
    BY <2>1, <2>3, <2>4, <2>5
<1>2. ASSUME IInv, TriedInv, [Next]_vars
      PROVE  [((pc \in {"try_active", "try_alt", "jump_alt"} /\ pc' = "update")
               => ~CanRun)]_vars
  BY <1>1, <1>2
<1>3. QED
  BY Invariance, TriedInvariance, <1>2, PTL DEF Spec, GivesUpOnlyWithoutImage

HIDE DEF Slots, BadSlot, WordBytes, Erased, NoReply, Ack, Nak, NoSession,
        DefaultRecord, EnterUpdate, Answer, Other, Target, FinishVerdict

-----------------------------------------------------------------------------
(* The session with a client *)

\* The frames the client sends, none of which wraps, and the answers it may get.
DownFrames ==
  {StartFrame(s, img) : s \in Slots, img \in Images}
  \cup {f \in {DataFrame(o, p) : o \in Nat, p \in WordSeq \ {<<>>}} :
          FrameEnd(f.offset, f.payload) < AddressBytes}
  \cup {FinishFrame, AbortFrame}
Answers == Replies \ {NoReply}

\* So every word goes into the slot of the session.
Forward == pc = "programming" => at >= 0

ClientInv ==
  /\ host \in Hosts /\ line \in Lines
  /\ host.at \in Waiting => host.img \in Images
  /\ host.at = "data" => host.sent < Len(host.img)
  /\ host.at = "finish" => host.sent <= Len(host.img)
  /\ down \in Seq(DownFrames) /\ up \in Seq(Answers)
  /\ Forward

\* The client waits each exchange out: a frame, the work on it, or its answer
\* is all there is between the two.
OneInv ==
  /\ Len(down) <= 1 /\ Len(up) <= 1
  /\ down # <<>> => up = <<>> /\ ~ Working
  /\ up # <<>> => ~ Working

\* A frame on the line is the one that the waiting client is about.
FrameOf(h) == IF h.at = "start" THEN StartFrame(h.slot, h.img) ELSE NextFrame(h)
FrameInv == host.at \in Waiting /\ down # <<>> => down = <<FrameOf(host)>>

\* What the device does for the client, it does in the client's slot and with
\* its image, on flash that was erased.
Clean == \A i \in 1 .. Len(host.img) : flash[host.slot][i - 1] \subseteq host.img[i]
Fits == Len(host.img) <= SlotSize[host.slot]
Ours == upd.slot = host.slot /\ upd.img = host.img
Flashed(first, last) ==
  \A i \in first .. last : flash[host.slot][i - 1] = host.img[i]
Opened == host.at \in {"data", "finish"} \/ (host.at = "start" /\ up = <<Ack>>)

SlotInv == Opened => Fits /\ (upd.state = "RECEIVING" => Ours /\ Clean)

\* The work on the client's frame, as far as it has come.
WorkInv == host.at \in Waiting /\ Working =>
  /\ Ours
  /\ host.at = "start" =>
       pc = "erasing" /\ \A j \in 0 .. at - 1 : flash[host.slot][j] = Erased
  /\ host.at = "data" =>
       /\ pc = "programming" /\ host.sent <= at /\ at < ChunkEnd(host)
       /\ todo = SubSeq(host.img, at + 1, ChunkEnd(host))
       /\ Flashed(host.sent + 1, at)
  /\ host.at = "finish" =>
       pc \notin {"erasing", "programming"} /\ accepted[host.slot] = host.img

\* What an ACK says.
AckInv == up = <<Ack>> =>
  /\ host.at = "data" => Flashed(host.sent + 1, ChunkEnd(host))
  /\ host.at = "finish" => accepted[host.slot] = host.img

InStep == OneInv /\ FrameInv /\ SlotInv /\ WorkInv /\ AckInv /\ AckedIsFlashed

\* All this holds of a session that did not begin in another's work and whose
\* OTA_START has not been refused in silence.
Sound == host.at \in Waiting /\ host.doubt \subseteq {"data"}
SessionIInv == Sound => InStep

-----------------------------------------------------------------------------
(* The parts of a frame, and the operators of the client *)

\* Every word of an image is a word, and its length is a number.
LEMMA ImageTypes ==
  ASSUME NEW img \in Images
  PROVE  img \in Seq(Word) /\ Len(img) \in Nat /\ \A i \in 1 .. Len(img) : img[i] \in Word
  BY InputAssumption, ElementOfSeq, LenProperties DEF WordSeq

LEMMA Numbers == Chunk \in Nat \ {0} /\ Retry \in Nat \ {0}
  BY ClientAssumption

\* The next chunk is there, and inside the image.
LEMMA ChunkBounds ==
  ASSUME NEW h \in Hosts, h.img \in Images, h.sent < Len(h.img)
  PROVE  ChunkEnd(h) \in Nat /\ h.sent < ChunkEnd(h) /\ ChunkEnd(h) <= Len(h.img)
  BY ImageTypes, Numbers DEF Hosts, ChunkEnd, Smaller

LEMMA FrameTypes ==
  ASSUME NEW h \in Hosts, h.img \in Images, h.at \in Waiting,
         h.at = "data" => h.sent < Len(h.img)
  PROVE  FrameOf(h) \in DownFrames /\ (h.at # "start" => NextFrame(h) \in DownFrames)
<1>1. CASE h.at = "start"
  BY <1>1 DEF FrameOf, DownFrames, Hosts
<1>2. CASE h.at = "data"
  <2> DEFINE p == SubSeq(h.img, h.sent + 1, ChunkEnd(h))
  <2>1. ChunkEnd(h) \in Nat /\ h.sent < ChunkEnd(h) /\ ChunkEnd(h) <= Len(h.img) /\ h.sent \in Nat
    BY <1>2, ChunkBounds DEF Hosts
  <2>2. \A i \in h.sent + 1 .. ChunkEnd(h) : h.img[i] \in Word
    BY <2>1, ImageTypes
  <2>3. p \in Seq(Word) /\ Len(p) = ChunkEnd(h) - (h.sent + 1) + 1
    BY <2>1, <2>2, SubSeqProperties
  <2>4. p # <<>>
    <3>1. Len(p) # 0
      BY <2>1, <2>3
    <3>2. QED
      BY <3>1, EmptySeq
  <2>a. Len(h.img) < AddressWords /\ AddressWords \in Nat /\ Len(h.img) \in Nat
    BY InputAssumption, ImageTypes
  <2> HIDE DEF p
  <2>d. FrameEnd(WordBytes * h.sent, p) = 4 * h.sent + 4 * Len(p)
        /\ AddressBytes = 4 * AddressWords /\ WordBytes * h.sent = 4 * h.sent
    BY DEF WordBytes, FrameEnd, AddressBytes
  <2>e. Len(p) = ChunkEnd(h) - h.sent
    BY <2>1, <2>3
  <2>5. WordBytes * h.sent \in Nat /\ FrameEnd(WordBytes * h.sent, p) < AddressBytes
    <3>1. ASSUME NEW a \in Nat, NEW b \in Nat, NEW l \in Nat, NEW m \in Nat,
                 b <= l, l < m
          PROVE  4 * a + 4 * (b - a) < 4 * m /\ 4 * a \in Nat
      BY <3>1
    <3>2. 4 * h.sent + 4 * (ChunkEnd(h) - h.sent) < 4 * AddressWords /\ 4 * h.sent \in Nat
      BY <2>1, <2>a, <3>1
    <3>3. QED
      BY <2>d, <2>e, <3>2
  <2> DEFINE f == DataFrame(WordBytes * h.sent, p)
  <2>b. f.offset = WordBytes * h.sent /\ f.payload = p
    BY DEF DataFrame
  <2>c. f \in {DataFrame(o, r) : o \in Nat, r \in WordSeq \ {<<>>}}
    BY <2>3, <2>4, <2>5 DEF WordSeq
  <2>6. f \in DownFrames
    BY <2>5, <2>b, <2>c DEF DownFrames
  <2>7. QED
    BY <1>2, <2>6 DEF FrameOf, NextFrame, p
<1>3. CASE h.at = "finish"
  BY <1>3 DEF FrameOf, NextFrame, DownFrames
<1>4. QED
  BY <1>1, <1>2, <1>3 DEF Waiting

\* The kinds of frames, told apart by their commands.
LEMMA FrameKinds ==
  ASSUME NEW f \in DownFrames
  PROVE  /\ f.cmd \in {"start", "data", "finish", "abort"}
         /\ f.cmd = "start" => f.slot \in Slots /\ f.img \in Images
         /\ f.cmd = "data" => /\ f.offset \in Nat /\ f.payload \in WordSeq \ {<<>>}
                              /\ FrameEnd(f.offset, f.payload) < AddressBytes
         /\ f.cmd = "finish" => f = FinishFrame
         /\ f.cmd = "abort" => f = AbortFrame
  BY DEF DownFrames, StartFrame, DataFrame, FinishFrame, AbortFrame

\* Putting a frame or an answer on the line, and taking it off.
LEMMA PutFrame == ASSUME NEW S, NEW q \in Seq(S), NEW e \in S
                  PROVE  Append(q, e) \in Seq(S) /\ Len(Append(q, e)) = Len(q) + 1
  OBVIOUS

LEMMA TakeFrame ==
  ASSUME NEW S, NEW q \in Seq(S), q # <<>>
  PROVE  /\ Head(q) \in S /\ Tail(q) \in Seq(S) /\ Len(Tail(q)) = Len(q) - 1
         /\ Len(q) \in Nat \ {0} /\ (Len(q) <= 1 => Tail(q) = <<>> /\ q = <<Head(q)>>)
<1>1. Head(q) \in S /\ Tail(q) \in Seq(S) /\ Len(Tail(q)) = Len(q) - 1 /\ Len(q) \in Nat \ {0}
  BY HeadTailProperties, EmptySeq
<1>2. ASSUME Len(q) <= 1 PROVE Tail(q) = <<>> /\ q = <<Head(q)>>
  <2>1. Len(q) = 1 /\ Len(Tail(q)) = 0
    BY <1>1, <1>2
  <2>2. Tail(q) = <<>>
    BY <1>1, <2>1, EmptySeq
  <2>3. q = <<Head(q)>>
    BY <2>1
  <2>4. QED
    BY <2>2, <2>3
<1>3. QED
  BY <1>1, <1>2

\* The client after an answer: still of its type.
LEMMA AfterAckTypes ==
  ASSUME ClientInv, host.at \in Waiting
  PROVE  /\ AfterAck \in Hosts
         /\ AfterAck.at \in {"data", "finish", "done"}
         /\ AfterAck.at # "done" =>
              /\ AfterAck.img = host.img /\ AfterAck.slot = host.slot
              /\ AfterAck.sent = (IF host.at = "data" THEN ChunkEnd(host) ELSE 0)
              /\ AfterAck.doubt =
                   (IF Head(up) = Ack THEN host.doubt ELSE host.doubt \cup {host.at})
         /\ AfterAck.at = "data" => AfterAck.sent < Len(host.img)
         /\ AfterAck.at = "finish" => AfterAck.sent <= Len(host.img)
         /\ AfterAck.at = "done" <=> host.at = "finish"
<1> DEFINE sent == IF host.at = "data" THEN ChunkEnd(host) ELSE 0
<1>1. host \in Hosts /\ host.img \in Images /\ Len(host.img) \in Nat
  BY ImageTypes DEF ClientInv
<1>2. sent \in Nat /\ sent <= Len(host.img)
  BY <1>1, ChunkBounds DEF ClientInv
<1>3. CASE host.at = "finish"
  <2>1. AfterAck = Ended("done")
    BY <1>3 DEF AfterAck
  <2>2. Ended("done") \in Hosts
    BY DEF Ended, Hosts, Slots
  <2>3. QED
    BY <1>3, <2>1, <2>2 DEF Ended
<1>4. CASE host.at # "finish"
  <2> DEFINE n == [at |-> IF sent < Len(host.img) THEN "data" ELSE "finish",
                   slot |-> host.slot, img |-> host.img, sent |-> sent, tries |-> 0,
                   doubt |-> IF Head(up) = Ack THEN host.doubt
                             ELSE host.doubt \cup {host.at}]
  <2>1. AfterAck = n
    BY <1>1, <1>4 DEF AfterAck, Hosts
  <2>2. n \in Hosts
    <3>1. host.at \in {"start", "data"} /\ host.doubt \in SUBSET {"overlap", "start", "data"}
      BY <1>1, <1>4 DEF Hosts, Waiting
    <3>2. n.doubt \in SUBSET {"overlap", "start", "data"}
      BY <3>1
    <3>3. host.slot \in Slots /\ host.img \in Images \cup {<<>>}
      BY <1>1 DEF Hosts
    <3>4. QED
      BY <1>2, <3>2, <3>3 DEF Hosts, Waiting
  <2>3. QED
    BY <1>2, <1>4, <2>1, <2>2
<1>5. QED
  BY <1>3, <1>4

\* The client after a refusal or a wait that ran out.
LEMMA RefusedTypes ==
  ASSUME ClientInv, host.at \in Waiting, Refused
  PROVE  /\ host' \in Hosts /\ down' \in Seq(DownFrames)
         /\ \/ host' = Ended("failed") /\ down' \in {down, Append(down, AbortFrame)}
            \/ /\ host.at = "data" /\ host'.at = "data"
               /\ host'.img = host.img /\ host'.slot = host.slot /\ host'.sent = host.sent
               /\ host'.doubt = host.doubt
               /\ down' = Append(down, NextFrame(host'))
<1>1. host \in Hosts /\ host.img \in Images /\ down \in Seq(DownFrames) /\ Ended("failed") \in Hosts
  BY DEF ClientInv, Ended, Hosts, Slots
<1>2. AbortFrame \in DownFrames
  BY DEF DownFrames
<1>3. CASE host.at # "data" \/ host.tries + 1 = Retry
  <2>1. host' = Ended("failed") /\ down' \in {down, Append(down, AbortFrame)}
    BY <1>3 DEF Refused
  <2>2. QED
    BY <1>1, <1>2, <2>1, PutFrame
<1>4. CASE ~ (host.at # "data" \/ host.tries + 1 = Retry)
  <2> DEFINE n == [at |-> host.at, slot |-> host.slot, img |-> host.img,
                   sent |-> host.sent, tries |-> host.tries + 1, doubt |-> host.doubt]
  <2>1. host' = n
    BY <1>1, <1>4 DEF Refused, Hosts
  <2>4. down' = Append(down, NextFrame(host'))
    BY <1>4 DEF Refused
  <2>2. n \in Hosts /\ host.at = "data" /\ n.at = "data" /\ n.sent < Len(n.img)
    BY <1>1, <1>4 DEF Hosts, ClientInv
  <2> HIDE DEF n
  <2>3. n.img = host.img /\ n.slot = host.slot /\ n.sent = host.sent /\ n.doubt = host.doubt
    BY DEF n
  <2>5. NextFrame(n) \in DownFrames
    BY <1>1, <2>2, <2>3, FrameTypes DEF Waiting
  <2>6. QED
    BY <1>1, <2>1, <2>2, <2>3, <2>4, <2>5, PutFrame
<1>5. QED
  BY <1>3, <1>4

-----------------------------------------------------------------------------
(* The types, and the bootloader's own invariant *)

\* A data frame of the client is one that uint32_t can name, and it does not wrap.
LEMMA FrameNameable ==
  ASSUME NEW o \in Nat, NEW p \in WordSeq \ {<<>>}, FrameEnd(o, p) < AddressBytes
  PROVE  Nameable(o, p) /\ FirstWord(o, p) = o \div 4 /\ o \div 4 \in Nat
<1>1. Len(p) \in Nat \ {0} /\ AddressWords \in Nat
  BY EmptySeq, LenProperties, InputAssumption DEF WordSeq
<1>2. o + 4 * Len(p) < 4 * AddressWords
  BY DEF FrameEnd, AddressBytes, WordBytes
<1>3. o \in 0..(4 * AddressWords - 1) /\ Len(p) <= AddressWords
  BY <1>1, <1>2
<1>4. o \div 4 \in Nat
  OBVIOUS
<1>5. FirstWord(o, p) = o \div 4
  BY <1>4 DEF FirstWord, WordBytes
<1>6. QED
  BY <1>3, <1>4, <1>5 DEF Nameable, AddressBytes, WordBytes

\* A frame that is delivered is one of those a bootloader may be sent.
LEMMA DeliverMoves ==
  ASSUME ClientInv, Deliver
  PROVE  Moves
<1> DEFINE f == Head(down)
<1>1. f \in DownFrames
  BY TakeFrame DEF Deliver, ClientInv
<1>2. CASE f.cmd = "start" /\ RecvStart(f.slot, f.img)
  <2>1. f.slot \in Slots \cup {BadSlot} /\ f.img \in Images
    BY <1>1, <1>2, FrameKinds
  <2>2. QED
    BY <1>2, <2>1 DEF Receive, Next, Moves
<1>3. CASE f.cmd = "data" /\ RecvData(f.offset, f.payload)
  <2>1. f.offset \in Nat /\ f.payload \in WordSeq /\ Nameable(f.offset, f.payload)
    BY <1>1, <1>3, FrameKinds, FrameNameable
  <2>2. QED
    BY <1>3, <2>1 DEF Moves
<1>4. CASE RecvFinish \/ RecvAbort
  BY <1>4 DEF Receive, Next, Moves
<1>5. QED
  BY <1>2, <1>3, <1>4 DEF Deliver

\* The bootloader in a session makes its own steps.
LEMMA SessionMoves ==
  ASSUME ClientInv, [OtaNext]_otaVars
  PROVE  Moves
<1>1. CASE Device
  BY <1>1 DEF Device, Next, Moves
<1>2. CASE Environment
  BY <1>2 DEF Environment, Next, Moves
<1>3. CASE Deliver
  BY <1>3, DeliverMoves
<1>4. CASE LoseFrame \/ LoseAnswer \/ Client \/ Interrupt
           \/ (\E slot \in Slots, img \in Images : Run(slot, img)) \/ UNCHANGED otaVars
  <2>1. UNCHANGED vars
    BY <1>4 DEF LoseFrame, LoseAnswer, Client, TakeAck, TakeNak, Timeout, Interrupt, Run,
       otaVars, session
  <2>2. QED
    BY <2>1 DEF Moves
<1>5. QED
  BY <1>1, <1>2, <1>3, <1>4 DEF OtaNext

LEMMA StepKeepsIInv ==
  ASSUME IInv, ClientInv, [OtaNext]_otaVars
  PROVE  IInv'
  BY SessionMoves, MovesKeep

\* The client's frames set the bootloader to work inside its slot.
LEMMA ForwardKept ==
  ASSUME IInv, ClientInv, [OtaNext]_otaVars
  PROVE  Forward'
<1> SUFFICES ASSUME pc' = "programming" PROVE at' >= 0
  BY DEF Forward
<1>1. CASE UNCHANGED vars
  BY <1>1 DEF vars, ClientInv, Forward
<1>2. CASE Device
  <2>1. ProgramWord
    BY <1>2 DEF Device, Step, Load, SaveErase, SaveWrite, CheckRequest, CheckKey,
       EnterUpdate, TryActive, TryAlt, JumpAlt, EraseSector, FinishJump, IInv, TypeOK, Returns
  <2>2. pc = "programming" /\ at' = at + 1 /\ at >= 0 /\ at \in Int
    BY <2>1 DEF ProgramWord, ClientInv, Forward, IInv, TypeOK
  <2>3. QED
    BY <2>2
<1>3. CASE Environment
  BY <1>3 DEF Environment, AppRequestsUpdate, Crash
<1>4. CASE Deliver
  <2> DEFINE f == Head(down)
  <2>1. f \in DownFrames
    BY <1>4, TakeFrame DEF Deliver, ClientInv
  <2>2. ~ RecvFinish /\ ~ RecvAbort /\ ~ RecvStart(f.slot, f.img)
    BY DEF RecvFinish, RecvAbort, RecvStart, Answer, IInv, TypeOK, Sessions, Callers
  <2>3. f.cmd = "data" /\ RecvData(f.offset, f.payload)
    BY <1>4, <2>2 DEF Deliver
  <2>4. at' = FirstWord(f.offset, f.payload)
    BY <2>3 DEF RecvData, Answer
  <2>5. QED
    BY <2>1, <2>3, <2>4, FrameKinds, FrameNameable
<1>5. CASE LoseFrame \/ LoseAnswer \/ Client \/ Interrupt
           \/ (\E slot \in Slots, img \in Images : Run(slot, img)) \/ UNCHANGED otaVars
  <2>1. UNCHANGED vars
    BY <1>5 DEF LoseFrame, LoseAnswer, Client, TakeAck, TakeNak, Timeout, Interrupt, Run,
       otaVars, session
  <2>2. QED
    BY <1>1, <2>1
<1>6. QED
  BY <1>2, <1>3, <1>4, <1>5 DEF OtaNext

LEMMA AnsweredTypes ==
  ASSUME ClientInv, Answered, reply' \in Replies
  PROVE  up' \in Seq(Answers)
  BY PutFrame DEF ClientInv, Answered, Answers

LEMMA StepKeepsClient ==
  ASSUME IInv, ClientInv, [OtaNext]_otaVars
  PROVE  ClientInv'
<1>a. reply' \in Replies
  BY StepKeepsIInv DEF IInv, TypeOK
<1>b. down \in Seq(DownFrames) /\ up \in Seq(Answers) /\ host \in Hosts
  BY DEF ClientInv
<1>c. UNCHANGED line /\ Forward'
  BY ForwardKept DEF OtaNext, otaVars
<1>d. <<>> \in Seq(DownFrames) /\ <<>> \in Seq(Answers)
  BY EmptySeq
<1>1. CASE Device \/ Deliver
  <2>1. up' \in Seq(Answers)
    BY <1>1, <1>a, AnsweredTypes DEF Device, Deliver
  <2>2. down' \in Seq(DownFrames)
    BY <1>1, <1>b, TakeFrame DEF Device, Deliver
  <2>3. UNCHANGED host
    BY <1>1 DEF Device, Deliver
  <2>4. QED
    BY <1>c, <2>1, <2>2, <2>3 DEF ClientInv
<1>2. CASE Environment \/ LoseFrame \/ LoseAnswer \/ UNCHANGED otaVars
  <2>1. UNCHANGED host /\ down' \in Seq(DownFrames) /\ up' \in Seq(Answers)
    <3>1. CASE Environment \/ UNCHANGED otaVars
      BY <1>b, <3>1 DEF Environment, otaVars, session
    <3>2. CASE LoseFrame
      BY <1>b, <3>2, TakeFrame DEF LoseFrame
    <3>3. CASE LoseAnswer
      BY <1>b, <3>3, TakeFrame DEF LoseAnswer
    <3>4. QED
      BY <1>2, <3>1, <3>2, <3>3
  <2>2. QED
    BY <1>c, <2>1 DEF ClientInv
<1>3. ASSUME NEW slot \in Slots, NEW img \in Images, Run(slot, img)
      PROVE  ClientInv'
  <2> DEFINE n == [at |-> "start", slot |-> slot, img |-> img, sent |-> 0, tries |-> 0,
                   doubt |-> IF Working THEN {"overlap"} ELSE {}]
  <2>1. n \in Hosts /\ host' = n
    BY <1>3 DEF Run, Hosts, Waiting
  <2>2. StartFrame(slot, img) \in DownFrames
    BY DEF DownFrames
  <2>3. down' \in Seq(DownFrames) /\ up' = <<>>
    BY <1>3, <2>2 DEF Run
  <2>4. QED
    BY <1>3, <1>c, <1>d, <2>1, <2>3 DEF ClientInv
<1>4. CASE TakeAck
  <2>1. host.at \in Waiting /\ host' = AfterAck /\ up # <<>> /\ up' = Tail(up)
        /\ host.img \in Images
    BY <1>4 DEF TakeAck, ClientInv
  <2>2. up' \in Seq(Answers)
    BY <1>b, <2>1, TakeFrame
  <2>3. host' \in Hosts
    BY <2>1, AfterAckTypes
  <2>4. /\ host'.at \in Waiting => host'.img \in Images
        /\ host'.at = "data" => host'.sent < Len(host'.img)
        /\ host'.at = "finish" => host'.sent <= Len(host'.img)
    BY <2>1, AfterAckTypes DEF Waiting
  <2>5. down' \in Seq(DownFrames)
    <3>1. CASE host'.at = "done"
      BY <1>4, <1>b, <3>1 DEF TakeAck
    <3>2. CASE host'.at # "done"
      <4>1. host'.at \in {"data", "finish"}
        BY <2>1, <3>2, AfterAckTypes
      <4>2. NextFrame(host') \in DownFrames
        BY <2>3, <2>4, <4>1, FrameTypes DEF Waiting
      <4>3. down' = Append(down, NextFrame(host'))
        BY <1>4, <3>2 DEF TakeAck
      <4>4. QED
        BY <1>b, <4>2, <4>3, PutFrame
    <3>3. QED
      BY <3>1, <3>2
  <2>6. QED
    BY <1>c, <2>2, <2>3, <2>4, <2>5 DEF ClientInv
<1>5. CASE TakeNak \/ Timeout
  <2>1. host.at \in Waiting /\ Refused
    BY <1>5 DEF TakeNak, Timeout
  <2>2. up' \in Seq(Answers)
    BY <1>5, <1>b, TakeFrame DEF TakeNak, Timeout
  <2>3. host' \in Hosts /\ down' \in Seq(DownFrames)
    BY <2>1, RefusedTypes
  <2>4. CASE host' = Ended("failed")
    BY <1>c, <2>2, <2>3, <2>4 DEF ClientInv, Ended, Waiting
  <2>5. CASE host.at = "data" /\ host'.at = "data" /\ host'.img = host.img /\ host'.sent = host.sent
    BY <1>c, <2>2, <2>3, <2>5 DEF ClientInv, Waiting
  <2>6. QED
    BY <2>1, <2>4, <2>5, RefusedTypes
<1>6. CASE Interrupt
  <2>1. host' = Ended("interrupted") /\ up' = <<>> /\ UNCHANGED down
    BY <1>6 DEF Interrupt
  <2>2. Ended("interrupted") \in Hosts
    BY DEF Ended, Hosts, Slots
  <2>3. QED
    BY <1>b, <1>c, <1>d, <2>1, <2>2 DEF ClientInv, Ended, Waiting
<1>7. QED
  BY <1>1, <1>2, <1>3, <1>4, <1>5, <1>6 DEF OtaNext, Client

-----------------------------------------------------------------------------
(* What the device's steps do to the session *)

USE DEF Slots, BadSlot, WordBytes, Erased, NoReply, Ack, Nak, NoSession,
        EnterUpdate, Answer, Target

\* Writing one word leaves all the others as they are.
LEMMA WordWrite ==
  ASSUME TypeOK, NEW s \in Slots, NEW i \in 0..(SlotSize[s] - 1), NEW w \in Word,
         flash' = [flash EXCEPT ![s][i] = w]
  PROVE  /\ flash'[s][i] = w
         /\ \A t \in Slots : \A j \in 0..(SlotSize[t] - 1) :
              t # s \/ j # i => flash'[t][j] = flash[t][j]
  BY SlotSizeAssumption DEF TypeOK

\* The word in work is one of the slot in work.
LEMMA WorkRange ==
  ASSUME IInv, Forward, pc \in {"erasing", "programming"}
  PROVE  upd.slot \in Slots /\ at \in 0..(SlotSize[upd.slot] - 1)
<1>1. upd.slot \in Slots /\ SlotSize[upd.slot] \in Nat \ {0} /\ at \in Int
  BY SlotSizeAssumption DEF IInv, TypeOK, Sessions
<1>2. CASE pc = "erasing"
  BY <1>1, <1>2 DEF IInv, SessionInv
<1>3. CASE pc = "programming"
  <2>1. at < SlotSize[upd.slot] /\ at >= 0
    BY <1>3, ProgramRange DEF IInv, Forward
  <2>2. QED
    BY <1>1, <2>1
<1>4. QED
  BY <1>2, <1>3

\* The word in work is programmed where it is counted.
LEMMA WorkWritten ==
  ASSUME IInv, Forward, pc = "programming"
  PROVE  /\ Stored(upd.slot, at) = flash[upd.slot][at]
         /\ \A w \in Word : Written(upd.slot, at, w) = [flash EXCEPT ![upd.slot][at] = w]
<1>1. upd.slot \in Slots /\ at \in Int /\ at < SlotSize[upd.slot] /\ at >= 0
  BY ProgramRange DEF IInv, Forward
<1>2. Stored(upd.slot, at) = flash[upd.slot][at]
  BY <1>1, WordStored DEF IInv
<1>3. Cell(upd.slot, at)[1] = upd.slot /\ Cell(upd.slot, at)[2] = at
  BY <1>1 DEF Cell
<1>4. \A w \in Word : Written(upd.slot, at, w) = [flash EXCEPT ![upd.slot][at] = w]
  BY <1>1, <1>3 DEF Written
<1>5. QED
  BY <1>2, <1>4

\* A device that works on no frame tells nothing and touches neither slot.
LEMMA IdleStep ==
  ASSUME IInv, ~ Working, Step
  PROVE  /\ ~ Working' /\ reply' = NoReply
         /\ UNCHANGED <<flash, accepted>>
         /\ upd' = upd \/ upd'.state = "IDLE"
<1>1. pc \notin {"erasing", "programming", "finish"} /\ ret \in Returns
  BY DEF Working, IInv, TypeOK
<1>2. ~ EraseSector /\ ~ ProgramWord /\ ~ FinishJump
  BY <1>1 DEF EraseSector, ProgramWord, FinishJump
<1>3. CASE SaveErase \/ SaveWrite
  <2>1. ret # "finish"
    BY <1>3 DEF Working, SaveErase, SaveWrite
  <2>2. QED
    BY <1>1, <1>3, <2>1 DEF Working, SaveErase, SaveWrite, Returns
<1>4. CASE Load \/ CheckRequest \/ (\E pressed \in BOOLEAN : CheckKey(pressed))
  BY <1>4 DEF Working, Load, CheckRequest, CheckKey
<1>5. CASE TryActive \/ TryAlt \/ JumpAlt
  BY <1>5 DEF Working, TryActive, TryAlt, JumpAlt
<1>6. QED
  BY <1>2, <1>3, <1>4, <1>5 DEF Step

\* The bounds of the chunk the client is about.
LEMMA HostChunk ==
  ASSUME ClientInv, host.at = "data"
  PROVE  /\ ChunkEnd(host) \in Nat /\ host.sent \in Nat /\ host.sent < ChunkEnd(host)
         /\ ChunkEnd(host) <= Len(host.img) /\ Len(host.img) \in Nat
         /\ host.img \in Seq(Word) /\ host.slot \in Slots
  BY ChunkBounds, ImageTypes DEF ClientInv, Waiting, Hosts

\* Where nothing is in work and the flash is left alone, what was flashed stays.
LEMMA SameFlash ==
  ASSUME UNCHANGED <<flash, host>>
  PROVE  /\ AckedIsFlashed => AckedIsFlashed'
         /\ Clean => Clean'
         /\ \A a, b : Flashed(a, b) => Flashed(a, b)'
  BY DEF AckedIsFlashed, Clean, Flashed

\* A step with no work after it that leaves flash and images alone and sends no ACK.
LEMMA QuietStep ==
  ASSUME ClientInv, InStep, ~ Working',
         UNCHANGED <<flash, accepted, host>>, upd' = upd \/ upd'.state = "IDLE",
         \/ up' \in {up, <<>>} /\ down' \in {down, <<>>}
         \/ down' = <<>> /\ \E c \in NakCodes : up' = <<Nak(c)>>
  PROVE  InStep'
<1>a. ASSUME NEW c \in NakCodes, up' = <<Nak(c)>> PROVE up' # <<Ack>> /\ Len(up') = 1
  <2>1. up'[1].type = "nak" /\ Ack.type = "ack"
    BY <1>a
  <2>2. QED
    BY <1>a, <2>1
<1>b. Len(up) <= 1 /\ Len(down) <= 1 /\ Len(<<>>) = 0 /\ <<Ack>> # <<>>
  BY DEF InStep, OneInv
<1>c. up' = up \/ up' = <<>> \/ \E c \in NakCodes : up' = <<Nak(c)>>
  OBVIOUS
<1>d. down' = down \/ down' = <<>>
  OBVIOUS
<1> HIDE DEF Ack, Nak
<1>1. up' = <<Ack>> => up = <<Ack>>
  <2>1. CASE up' = up
    BY <2>1
  <2>2. CASE up' = <<>>
    BY <1>b, <2>2
  <2>3. CASE \E c \in NakCodes : up' = <<Nak(c)>>
    BY <1>a, <2>3
  <2>4. QED
    BY <1>c, <2>1, <2>2, <2>3
<1>2. Len(up') <= 1 /\ Len(down') <= 1
  <2>1. CASE up' = up
    BY <1>b, <1>d, <2>1
  <2>2. CASE up' = <<>>
    BY <1>b, <1>d, <2>2
  <2>3. ASSUME NEW c \in NakCodes, up' = <<Nak(c)>>
        PROVE  Len(up') <= 1 /\ Len(down') <= 1
    BY <1>a, <1>b, <1>d, <2>3
  <2>4. QED
    BY <1>c, <2>1, <2>2, <2>3
<1>3. down' # <<>> => up' = <<>>
  BY DEF InStep, OneInv
<1>4. OneInv'
  BY <1>2, <1>3 DEF OneInv
<1>5. FrameInv'
  BY DEF InStep, FrameInv, FrameOf, NextFrame, ChunkEnd
<1>6. SlotInv'
  <2>1. Opened' => Opened
    BY <1>1 DEF Opened
  <2>2. QED
    BY <2>1 DEF InStep, SlotInv, Fits, Ours, Clean
<1>7. WorkInv'
  BY DEF WorkInv
<1>8. AckInv'
  BY <1>1 DEF InStep, AckInv, Flashed, ChunkEnd
<1>9. AckedIsFlashed'
  BY DEF InStep, AckedIsFlashed
<1>10. QED
  BY <1>4, <1>5, <1>6, <1>7, <1>8, <1>9 DEF InStep

\* The next word of a chunk, and what is left of it.
LEMMA NextWord ==
  ASSUME IInv, ClientInv, InStep, host.at = "data", Working
  PROVE  /\ pc = "programming" /\ host.slot = upd.slot
         /\ at + 1 \in 1 .. Len(host.img) /\ at \in 0..(SlotSize[upd.slot] - 1)
         /\ host.sent <= at /\ at < ChunkEnd(host)
         /\ Head(todo) = host.img[at + 1] /\ host.img[at + 1] \in Word
         /\ flash[upd.slot][at] \subseteq host.img[at + 1]
         /\ Tail(todo) = SubSeq(host.img, at + 2, ChunkEnd(host))
         /\ Tail(todo) = <<>> <=> at + 1 = ChunkEnd(host)
<1>1. /\ pc = "programming" /\ upd.slot = host.slot /\ upd.state = "RECEIVING"
      /\ host.sent <= at /\ at < ChunkEnd(host)
      /\ todo = SubSeq(host.img, at + 1, ChunkEnd(host))
  BY DEF InStep, WorkInv, Ours, Waiting, IInv, SessionInv
<1>2. at \in 0..(SlotSize[upd.slot] - 1) /\ upd.slot \in Slots
  BY <1>1, WorkRange DEF ClientInv
<1>3. /\ ChunkEnd(host) \in Nat /\ ChunkEnd(host) <= Len(host.img) /\ Len(host.img) \in Nat
      /\ host.img \in Seq(Word)
  BY HostChunk
<1>4. at \in Nat /\ at + 1 \in 1 .. Len(host.img)
  BY <1>1, <1>2, <1>3, SlotSizeAssumption
<1>5. host.img[at + 1] \in Word
  BY <1>3, <1>4, ElementOfSeq
<1>6. flash[upd.slot][at] \subseteq host.img[at + 1]
  BY <1>1, <1>4 DEF InStep, SlotInv, Opened, Clean
<1>7. /\ Len(todo) = ChunkEnd(host) - at
      /\ \A i \in 1 .. ChunkEnd(host) - at : todo[i] = host.img[at + i]
      /\ todo \in Seq(Word)
  <2>1. \A i \in at + 1 .. ChunkEnd(host) : host.img[i] \in Word
    BY <1>3, <1>4, ElementOfSeq
  <2>2. QED
    BY <1>1, <1>3, <1>4, <2>1, SubSeqProperties
<1>8. todo # <<>> /\ Head(todo) = host.img[at + 1]
  <2>a. 1 \in 1 .. ChunkEnd(host) - at
    BY <1>1, <1>3, <1>4
  <2>1. todo # <<>> /\ 1 \in 1 .. ChunkEnd(host) - at
    BY <1>7, <2>a, EmptySeq
  <2>2. Head(todo) = todo[1]
    BY <1>7, <2>1
  <2>3. QED
    BY <1>7, <2>1, <2>2
<1>9. Tail(todo) = SubSeq(host.img, at + 2, ChunkEnd(host))
  <2> DEFINE t == Tail(todo)
             u == SubSeq(host.img, at + 2, ChunkEnd(host))
  <2>1. t \in Seq(Word) /\ Len(t) = ChunkEnd(host) - at - 1
        /\ \A i \in 1 .. Len(t) : t[i] = todo[i + 1]
    BY <1>3, <1>4, <1>7, <1>8, HeadTailProperties
  <2>2. /\ u \in Seq(Word) /\ Len(u) = ChunkEnd(host) - at - 1
        /\ \A i \in 1 .. ChunkEnd(host) - at - 1 : u[i] = host.img[at + 1 + i]
    <3>1. \A i \in at + 2 .. ChunkEnd(host) : host.img[i] \in Word
      BY <1>3, <1>4, ElementOfSeq
    <3>2. QED
      BY <1>1, <1>3, <1>4, <3>1, SubSeqProperties
  <2>3. \A i \in 1 .. Len(t) : t[i] = u[i]
    <3> SUFFICES ASSUME NEW i \in 1 .. Len(t) PROVE t[i] = u[i]
      OBVIOUS
    <3>1. i + 1 \in 1 .. ChunkEnd(host) - at
      BY <1>3, <1>4, <2>1
    <3>2. t[i] = host.img[at + (i + 1)]
      BY <1>7, <2>1, <3>1
    <3>3. at + (i + 1) = at + 1 + i
      BY <1>4
    <3>4. QED
      BY <2>1, <2>2, <3>2, <3>3
  <2> HIDE DEF t, u
  <2>4. t = u
    BY <2>1, <2>2, <2>3, SeqEqual
  <2>5. QED
    BY <2>4 DEF t, u
<1>10. Tail(todo) = <<>> <=> at + 1 = ChunkEnd(host)
  <2>1. Tail(todo) \in Seq(Word) /\ Len(Tail(todo)) = ChunkEnd(host) - at - 1
    BY <1>3, <1>4, <1>7, <1>8, HeadTailProperties
  <2>2. Tail(todo) = <<>> <=> Len(Tail(todo)) = 0
    BY <2>1, EmptySeq
  <2>3. ChunkEnd(host) - at - 1 = 0 <=> at + 1 = ChunkEnd(host)
    BY <1>3, <1>4
  <2>4. QED
    BY <2>1, <2>2, <2>3
<1>11. QED
  BY <1>1, <1>2, <1>4, <1>5, <1>6, <1>8, <1>9, <1>10

\* Work that ends without an ACK, by a fault or a reset, may leave any word it
\* could have left in the one place it was about.
LEMMA WorkCutShort ==
  ASSUME IInv, ClientInv, InStep, pc \in {"erasing", "programming"}, ~ Working',
         NEW w \in Word, flash' = [flash EXCEPT ![upd.slot][at] = w],
         pc = "programming" => w \subseteq Program(flash[upd.slot][at], Head(todo)),
         UNCHANGED <<accepted, host>>, upd' = upd \/ upd'.state = "IDLE",
         down' = <<>>, up' = <<>> \/ \E c \in NakCodes : up' = <<Nak(c)>>
  PROVE  InStep'
<1>a. Working
  BY DEF Working
<1>b. up' # <<Ack>> /\ Len(up') <= 1
  <2>1. CASE up' = <<>>
    BY <2>1
  <2>2. ASSUME NEW c \in NakCodes, up' = <<Nak(c)>> PROVE up' # <<Ack>> /\ Len(up') <= 1
    <3>1. up'[1].type = "nak" /\ Ack.type = "ack"
      BY <2>2
    <3>2. QED
      BY <2>2, <3>1
  <2>3. QED
    BY <2>1, <2>2
<1>1. OneInv'
  BY <1>b DEF OneInv
<1>2. FrameInv' /\ WorkInv' /\ AckInv'
  BY <1>b DEF FrameInv, WorkInv, AckInv
<1>3. CASE ~ Opened
  <2>1. ~ Opened'
    BY <1>b, <1>3 DEF Opened
  <2>2. SlotInv' /\ AckedIsFlashed'
    BY <2>1 DEF SlotInv, AckedIsFlashed, Opened
  <2>3. QED
    BY <1>1, <1>2, <2>2 DEF InStep
<1>4. CASE Opened
  <2>0. host.at = "data"
    <3>1. up # <<Ack>>
      <4>1. up = <<>>
        BY <1>a DEF InStep, OneInv
      <4>2. QED
        BY <4>1
    <3>2. QED
      BY <1>4, <1>a, <3>1 DEF Opened, InStep, WorkInv, Waiting
  <2>1. /\ pc = "programming" /\ host.slot = upd.slot /\ host.sent <= at
        /\ at + 1 \in 1 .. Len(host.img) /\ at \in 0..(SlotSize[upd.slot] - 1)
        /\ Head(todo) = host.img[at + 1]
        /\ flash[upd.slot][at] \subseteq host.img[at + 1]
    BY <1>a, <2>0, NextWord
  <2>2. host.slot \in Slots /\ Len(host.img) \in Nat /\ host.sent \in Nat
        /\ host.sent <= Len(host.img)
    BY <2>0, HostChunk
  <2>3. Fits /\ (upd.state = "RECEIVING" => Ours /\ Clean)
    BY <1>4 DEF InStep, SlotInv
  <2>4. TypeOK /\ SlotSize[host.slot] \in Nat
    BY <2>2, SlotSizeAssumption DEF IInv
  <2>5. \A i \in 1 .. Len(host.img) :
           i - 1 # at => flash'[host.slot][i - 1] = flash[host.slot][i - 1]
    <3> SUFFICES ASSUME NEW i \in 1 .. Len(host.img), i - 1 # at
                 PROVE  flash'[host.slot][i - 1] = flash[host.slot][i - 1]
      OBVIOUS
    <3>1. i - 1 \in 0..(SlotSize[host.slot] - 1)
      BY <2>2, <2>3, <2>4 DEF Fits
    <3>2. QED
      BY <2>1, <2>2, <2>4, <3>1, WordWrite
  <2>6. flash'[host.slot][at] \subseteq host.img[at + 1]
    <3>1. flash'[host.slot][at] = w
      <4>1. upd.slot \in Slots
        BY <2>1, <2>2
      <4>2. flash'[upd.slot][at] = w
        BY <2>1, <2>4, <4>1, WordWrite
      <4>3. QED
        BY <2>1, <4>2
    <3>2. QED
      BY <2>1, <3>1 DEF Program
  <2>7. Clean => Clean'
    <3> SUFFICES ASSUME Clean, NEW i \in 1 .. Len(host.img)
                 PROVE  flash'[host.slot][i - 1] \subseteq host.img[i]
      BY DEF Clean
    <3>1. CASE i - 1 = at
      <4>1. i = at + 1
        BY <2>1, <3>1
      <4>2. QED
        BY <2>6, <3>1, <4>1
    <3>2. CASE i - 1 # at
      BY <2>5, <3>2 DEF Clean
    <3>3. QED
      BY <3>1, <3>2
  <2>8. SlotInv'
    BY <2>3, <2>7 DEF SlotInv, Fits, Ours
  <2>9. AckedIsFlashed'
    <3> SUFFICES ASSUME host.doubt = {}, NEW i \in 1 .. host.sent
                 PROVE  flash'[host.slot][i - 1] = host.img[i]
      BY DEF AckedIsFlashed
    <3>1. i \in 1 .. Len(host.img) /\ i - 1 # at
      BY <2>1, <2>2
    <3>2. QED
      BY <2>0, <2>5, <3>1 DEF InStep, AckedIsFlashed
  <2>10. QED
    BY <1>1, <1>2, <2>8, <2>9 DEF InStep
<1>5. QED
  BY <1>3, <1>4

\* The erase for the client's OTA_START; the last sector brings the ACK.
LEMMA EraseKeepsSession ==
  ASSUME IInv, ClientInv, InStep, EraseSector, Answered, UNCHANGED <<host, down>>
  PROVE  InStep'
<1>0. pc = "erasing" /\ Working /\ UNCHANGED accepted
  BY DEF EraseSector, Working
<1>1. down = <<>> /\ up = <<>>
  BY <1>0 DEF InStep, OneInv
<1>2. /\ upd.slot \in Slots /\ at \in 0..(SlotSize[upd.slot] - 1) /\ at \in Nat
      /\ SlotSize[upd.slot] \in Nat /\ TypeOK /\ Erased \in Word
  BY <1>0, WorkRange, SlotSizeAssumption, ConstantTypes DEF IInv, ClientInv
<1>3. CASE /\ \E w \in Word : flash' = [flash EXCEPT ![upd.slot][at] = w]
           /\ pc' = "update" /\ upd' = NoSession(upd.caller) /\ reply' = Nak("erase")
  <2>1. ~ Working'
    BY <1>3 DEF Working
  <2>2. up' = <<>> \/ up' = <<Nak("erase")>>
    BY <1>1, <1>3 DEF Answered
  <2>3. upd'.state = "IDLE" /\ down' = <<>>
    BY <1>1, <1>3
  <2>4. up' = <<>> \/ \E c \in NakCodes : up' = <<Nak(c)>>
    BY <2>2 DEF NakCodes
  <2>5. PICK w \in Word : flash' = [flash EXCEPT ![upd.slot][at] = w]
    BY <1>3
  <2>6. pc = "programming" => w \subseteq Program(flash[upd.slot][at], Head(todo))
    BY <1>0
  <2> HIDE DEF Nak, NoSession
  <2>7. QED
    BY <1>0, <2>1, <2>3, <2>4, <2>5, <2>6, WorkCutShort
<1>4. CASE /\ flash' = [flash EXCEPT ![upd.slot][at] = Erased]
           /\ IF at + 1 = SlotSize[upd.slot]
                THEN /\ pc' = "update" /\ upd' = [upd EXCEPT !.state = "RECEIVING"]
                     /\ at' = 0 /\ reply' = Ack
                ELSE at' = at + 1 /\ reply' = NoReply /\ UNCHANGED <<pc, upd>>
  <2>1. CASE host.at \notin Waiting
    <3>1. up' = <<>> /\ down' = <<>>
      BY <1>1, <2>1 DEF Answered
    <3>2. OneInv' /\ FrameInv' /\ WorkInv' /\ AckInv'
      BY <2>1, <3>1 DEF OneInv, FrameInv, WorkInv, AckInv
    <3>3. SlotInv' /\ AckedIsFlashed'
      BY <2>1 DEF SlotInv, AckedIsFlashed, Opened, Waiting
    <3>4. QED
      BY <3>2, <3>3 DEF InStep
  <2>2. CASE host.at \in Waiting
    <3>1. /\ host.at = "start" /\ upd.slot = host.slot /\ upd.img = host.img
          /\ \A j \in 0 .. at - 1 : flash[host.slot][j] = Erased
      BY <1>0, <2>2 DEF InStep, WorkInv, Ours, Waiting
    <3>2. \A j \in 0 .. at : flash'[host.slot][j] = Erased
      <4> SUFFICES ASSUME NEW j \in 0 .. at PROVE flash'[host.slot][j] = Erased
        OBVIOUS
      <4>1. CASE j = at
        <5>1. flash'[upd.slot][at] = Erased
          BY <1>2, <1>4, WordWrite
        <5>2. QED
          BY <3>1, <4>1, <5>1
      <4>2. CASE j # at
        <5>1. j \in 0 .. at - 1 /\ j \in 0..(SlotSize[upd.slot] - 1)
          BY <1>2, <4>2
        <5>2. flash'[upd.slot][j] = flash[upd.slot][j]
          BY <1>2, <1>4, <4>2, <5>1, WordWrite
        <5>3. QED
          BY <3>1, <5>1, <5>2
      <4>3. QED
        BY <4>1, <4>2
    <3>3. CASE at + 1 # SlotSize[upd.slot]
      <4>1. pc' = "erasing" /\ at' = at + 1 /\ UNCHANGED upd /\ reply' = NoReply
        BY <1>0, <1>4, <3>3
      <4>2. up' = <<>> /\ down' = <<>>
        BY <1>1, <4>1 DEF Answered
      <4>3. OneInv' /\ FrameInv' /\ AckInv'
        BY <4>2 DEF OneInv, FrameInv, AckInv
      <4>4. SlotInv' /\ AckedIsFlashed'
        BY <3>1, <4>2 DEF SlotInv, AckedIsFlashed, Opened
      <4>5. at' - 1 = at
        BY <1>2, <4>1
      <4>6. WorkInv'
        BY <3>1, <3>2, <4>1, <4>5 DEF WorkInv, Ours
      <4>7. QED
        BY <4>3, <4>4, <4>6 DEF InStep
    <3>4. CASE at + 1 = SlotSize[upd.slot]
      <4>1. pc' = "update" /\ reply' = Ack /\ upd' = [upd EXCEPT !.state = "RECEIVING"]
        BY <1>4, <3>4
      <4>2. up' = <<Ack>> /\ down' = <<>> /\ ~ Working'
        BY <1>1, <2>2, <4>1 DEF Answered, Working
      <4>3. upd'.slot = host.slot /\ upd'.img = host.img /\ Len(host.img) <= SlotSize[host.slot]
        BY <1>0, <3>1, <4>1 DEF IInv, SessionInv, TypeOK, Sessions
      <4>4. Len(host.img) \in Nat
        BY <2>2, ImageTypes DEF ClientInv
      <4>5. Clean'
        <5> SUFFICES ASSUME NEW i \in 1 .. Len(host.img)
                     PROVE  flash'[host.slot][i - 1] \subseteq host.img[i]
          BY DEF Clean
        <5>1. i - 1 \in 0 .. at
          BY <1>2, <3>1, <3>4, <4>3, <4>4
        <5>2. QED
          BY <3>2, <5>1
      <4>6. SlotInv'
        BY <4>3, <4>5 DEF SlotInv, Fits, Ours
      <4>7. OneInv' /\ FrameInv' /\ WorkInv' /\ AckInv' /\ AckedIsFlashed'
        BY <3>1, <4>2 DEF OneInv, FrameInv, WorkInv, AckInv, AckedIsFlashed
      <4>8. QED
        BY <4>6, <4>7 DEF InStep
    <3>5. QED
      BY <3>3, <3>4
  <2>3. QED
    BY <2>1, <2>2
<1>5. QED
  BY <1>3, <1>4 DEF EraseSector

\* A word of the client's chunk; the last one brings the ACK.
LEMMA ProgramKeepsSession ==
  ASSUME IInv, ClientInv, InStep, ProgramWord, Answered, UNCHANGED <<host, down>>
  PROVE  InStep'
<1> DEFINE new == Program(flash[upd.slot][at], Head(todo))
<1>0. pc = "programming" /\ Working /\ UNCHANGED <<upd, accepted>>
  BY DEF ProgramWord, Working
<1>1. down = <<>> /\ up = <<>>
  BY <1>0 DEF InStep, OneInv
<1>2. upd.slot \in Slots /\ at \in 0..(SlotSize[upd.slot] - 1) /\ at \in Nat /\ TypeOK
  BY <1>0, WorkRange, SlotSizeAssumption DEF IInv, ClientInv
<1>3. CASE /\ \E w \in Word : w \subseteq new /\ flash' = [flash EXCEPT ![upd.slot][at] = w]
           /\ pc' = "update" /\ reply' = Nak("flash")
  <2>1. ~ Working' /\ down' = <<>>
    BY <1>1, <1>3 DEF Working
  <2>2. up' = <<>> \/ up' = <<Nak("flash")>>
    BY <1>1, <1>3 DEF Answered
  <2>3. up' = <<>> \/ \E c \in NakCodes : up' = <<Nak(c)>>
    BY <2>2 DEF NakCodes
  <2>4. PICK w \in Word : w \subseteq new /\ flash' = [flash EXCEPT ![upd.slot][at] = w]
    BY <1>3
  <2> HIDE DEF Nak
  <2>5. QED
    BY <1>0, <2>1, <2>3, <2>4, WorkCutShort
<1>4. CASE /\ flash' = [flash EXCEPT ![upd.slot][at] = new]
           /\ todo' = Tail(todo)
           /\ IF Tail(todo) = <<>>
                THEN pc' = "update" /\ at' = 0 /\ reply' = Ack
                ELSE at' = at + 1 /\ reply' = NoReply /\ UNCHANGED pc
  <2>1. CASE host.at \notin Waiting
    <3>1. up' = <<>> /\ down' = <<>>
      BY <1>1, <2>1 DEF Answered
    <3>2. OneInv' /\ FrameInv' /\ WorkInv' /\ AckInv'
      BY <2>1, <3>1 DEF OneInv, FrameInv, WorkInv, AckInv
    <3>3. SlotInv' /\ AckedIsFlashed'
      BY <2>1 DEF SlotInv, AckedIsFlashed, Opened, Waiting
    <3>4. QED
      BY <3>2, <3>3 DEF InStep
  <2>2. CASE host.at \in Waiting
    <3>0. host.at = "data"
      BY <1>0, <2>2 DEF InStep, WorkInv, Waiting
    <3>1. /\ host.slot = upd.slot /\ host.sent <= at /\ at < ChunkEnd(host)
          /\ at + 1 \in 1 .. Len(host.img)
          /\ Head(todo) = host.img[at + 1] /\ host.img[at + 1] \in Word
          /\ flash[upd.slot][at] \subseteq host.img[at + 1]
          /\ Tail(todo) = SubSeq(host.img, at + 2, ChunkEnd(host))
          /\ Tail(todo) = <<>> <=> at + 1 = ChunkEnd(host)
      BY <1>0, <3>0, NextWord
    <3>2. /\ ChunkEnd(host) \in Nat /\ host.sent \in Nat /\ host.sent < ChunkEnd(host)
          /\ ChunkEnd(host) <= Len(host.img) /\ Len(host.img) \in Nat
      BY <3>0, HostChunk
    <3>3. new = host.img[at + 1] /\ new \in Word
      BY <3>1 DEF Program
    <3>4. Opened /\ Fits /\ (upd.state = "RECEIVING" => Ours /\ Clean)
          /\ Ours /\ Flashed(host.sent + 1, at)
      BY <1>0, <2>2, <3>0 DEF InStep, SlotInv, Opened, WorkInv
    <3>5. \A i \in 1 .. Len(host.img) :
             flash'[host.slot][i - 1] = (IF i = at + 1 THEN host.img[i] ELSE flash[host.slot][i - 1])
      <4> HIDE DEF new
      <4> SUFFICES ASSUME NEW i \in 1 .. Len(host.img)
                   PROVE  flash'[host.slot][i - 1]
                            = (IF i = at + 1 THEN host.img[i] ELSE flash[host.slot][i - 1])
        OBVIOUS
      <4>1. CASE i = at + 1
        <5>1. flash'[upd.slot][at] = new
          BY ZenonT(30), <1>2, <1>4, <3>3, WordWrite
        <5>2. i - 1 = at
          BY <1>2, <4>1
        <5>3. QED
          BY <3>1, <3>3, <4>1, <5>1, <5>2
      <4>2. CASE i # at + 1
        <5>a. Len(host.img) <= SlotSize[upd.slot] /\ SlotSize[upd.slot] \in Nat
          BY <1>2, <3>1, <3>4, SlotSizeAssumption DEF Fits
        <5>1. i - 1 \in 0..(SlotSize[upd.slot] - 1) /\ i - 1 # at
          BY <1>2, <3>2, <4>2, <5>a
        <5>2. flash'[upd.slot][i - 1] = flash[upd.slot][i - 1]
          BY <1>2, <1>4, <3>3, <5>1, WordWrite
        <5>3. QED
          BY <3>1, <4>2, <5>2
      <4>3. QED
        BY <4>1, <4>2
    <3> HIDE DEF new
    <3>6. \A i \in host.sent + 1 .. at + 1 : flash'[host.slot][i - 1] = host.img[i]
      <4> SUFFICES ASSUME NEW i \in host.sent + 1 .. at + 1
                   PROVE  flash'[host.slot][i - 1] = host.img[i]
        OBVIOUS
      <4>1. i \in 1 .. Len(host.img) /\ (i = at + 1 \/ i \in host.sent + 1 .. at)
        BY SMTT(30), <1>2, <3>1, <3>2
      <4>2. QED
        BY <3>4, <3>5, <4>1 DEF Flashed
    <3>7. SlotInv'
      <4>1. Clean => Clean'
        BY <3>5 DEF Clean
      <4>2. QED
        BY <1>0, <3>4, <4>1 DEF SlotInv, Fits, Ours
    <3>8. AckedIsFlashed'
      <4> SUFFICES ASSUME host.doubt = {}, NEW i \in 1 .. host.sent
                   PROVE  flash'[host.slot][i - 1] = host.img[i]
        BY DEF AckedIsFlashed
      <4>1. i \in 1 .. Len(host.img) /\ i # at + 1
        BY SMTT(30), <1>2, <3>1, <3>2
      <4>2. QED
        BY <3>0, <3>5, <4>1 DEF InStep, AckedIsFlashed
    <3>9. CASE Tail(todo) = <<>>
      <4>1. pc' = "update" /\ up' = <<Ack>> /\ down' = <<>> /\ ~ Working'
        BY <1>1, <1>4, <2>2, <3>9 DEF Answered, Working
      <4>2. at + 1 = ChunkEnd(host)
        BY <3>1, <3>9
      <4>3. AckInv'
        BY <3>0, <3>6, <4>2 DEF AckInv, Flashed, ChunkEnd
      <4>4. OneInv' /\ FrameInv' /\ WorkInv'
        BY <4>1 DEF OneInv, FrameInv, WorkInv
      <4>5. QED
        BY <3>7, <3>8, <4>3, <4>4 DEF InStep
    <3>10. CASE Tail(todo) # <<>>
      <4>1. pc' = "programming" /\ up' = <<>> /\ down' = <<>> /\ at' = at + 1
            /\ todo' = Tail(todo)
        BY <1>0, <1>1, <1>4, <3>10 DEF Answered
      <4>2. host.sent <= at + 1 /\ at + 1 < ChunkEnd(host) /\ at + 1 + 1 = at + 2
        BY <1>2, <3>1, <3>2, <3>10
      <4>3. todo' = SubSeq(host.img, at' + 1, ChunkEnd(host))
        BY <3>1, <4>1, <4>2
      <4>4. WorkInv'
        BY <1>0, <3>0, <3>4, <3>6, <4>1, <4>2, <4>3 DEF WorkInv, Ours, Flashed, ChunkEnd
      <4>5. OneInv' /\ FrameInv' /\ AckInv'
        BY <4>1 DEF OneInv, FrameInv, AckInv
      <4>6. QED
        BY <3>7, <3>8, <4>4, <4>5 DEF InStep
    <3>11. QED
      BY <3>9, <3>10
  <2>3. QED
    BY <2>1, <2>2
<1>5. Stored(upd.slot, at) = flash[upd.slot][at] /\ new \in Word
  <2>1. Head(todo) \in Word
    BY <1>0, ProgramRange DEF IInv
  <2>2. flash[upd.slot][at] \in Word
    BY <1>2 DEF TypeOK
  <2>3. QED
    BY <1>0, <2>1, <2>2, WorkWritten DEF ClientInv, Program, Word
<1>6. \A w \in Word : Written(upd.slot, at, w) = [flash EXCEPT ![upd.slot][at] = w]
  BY <1>0, WorkWritten DEF ClientInv
<1> HIDE DEF new
<1>7. \/ /\ flash' = Written(upd.slot, at, new)
         /\ todo' = Tail(todo)
         /\ IF Tail(todo) = <<>>
              THEN pc' = "update" /\ at' = 0 /\ reply' = Ack
              ELSE at' = at + 1 /\ reply' = NoReply /\ UNCHANGED pc
      \/ /\ \E w \in Word : w \subseteq new /\ flash' = Written(upd.slot, at, w)
         /\ pc' = "update" /\ reply' = Nak("flash")
  BY <1>5 DEF ProgramWord, new
<1>8. QED
  BY <1>3, <1>4, <1>5, <1>6, <1>7

\* The save for the client's OTA_FINISH, and the ACK or NAK after it.
LEMMA FinishKeepsSession ==
  ASSUME IInv, ClientInv, InStep, SaveErase \/ SaveWrite \/ FinishJump, Working,
         Answered, UNCHANGED <<host, down>>
  PROVE  InStep'
<1>1. down = <<>> /\ up = <<>> /\ down' = <<>> /\ UNCHANGED <<flash, accepted>>
  BY DEF InStep, OneInv, SaveErase, SaveWrite, FinishJump
<1>2. host.at \in Waiting => host.at = "finish" /\ Ours /\ accepted[host.slot] = host.img
  <2>1. pc \notin {"erasing", "programming"}
    BY DEF SaveErase, SaveWrite, FinishJump
  <2>2. QED
    BY <2>1 DEF InStep, WorkInv, Waiting
<1>3. AckedIsFlashed' /\ FrameInv'
  BY <1>1 DEF InStep, AckedIsFlashed, FrameInv
<1>4. CASE SaveErase \/ SaveWrite
  <2>1. /\ pc' \notin {"erasing", "programming"} /\ UNCHANGED <<upd, accepted>>
        /\ up' = <<>>
    BY <1>1, <1>4 DEF Answered, SaveErase, SaveWrite, IInv, TypeOK, Returns
  <2>2. SlotInv'
    BY <1>1, <1>2, <2>1 DEF InStep, SlotInv, Opened, Fits, Ours, Clean, Waiting
  <2>3. WorkInv'
    BY <1>2, <2>1 DEF WorkInv, Ours
  <2>4. OneInv' /\ AckInv'
    BY <1>1, <2>1 DEF OneInv, AckInv
  <2>5. QED
    BY <1>3, <2>2, <2>3, <2>4 DEF InStep
<1>5. CASE FinishJump
  <2>1. pc' \in {"app", "update"} /\ upd' = NoSession(upd.caller)
        /\ reply' \in {Ack, Nak("zero")}
    BY <1>5 DEF FinishJump
  <2>2. ~ Working' /\ WorkInv'
    BY <2>1 DEF Working, WorkInv
  <2>3. up' = <<>> \/ up' = <<reply'>>
    BY <1>1 DEF Answered
  <2>4. OneInv'
    <3>0. Len(<<>>) = 0 /\ Len(<<reply'>>) = 1
      OBVIOUS
    <3>1. Len(up') <= 1
      <4>1. CASE up' = <<>>
        BY <3>0, <4>1
      <4>2. CASE up' = <<reply'>>
        BY <3>0, <4>2
      <4>3. QED
        BY <2>3, <4>1, <4>2
    <3>2. QED
      BY <1>1, <2>2, <3>1 DEF OneInv
  <2>5. AckInv'
    BY <1>1, <1>2, <2>3 DEF AckInv, Answered, Waiting
  <2>6. SlotInv'
    <3>1. upd'.state = "IDLE"
      BY <2>1
    <3>2. Opened' => Opened
      BY <1>1, <1>2 DEF Opened, Waiting, Answered
    <3>3. QED
      BY <3>1, <3>2 DEF InStep, SlotInv, Fits
  <2>7. QED
    BY <1>3, <2>2, <2>4, <2>5, <2>6 DEF InStep
<1>6. QED
  BY <1>4, <1>5

\* The device takes the client's frame: it says NAK at once or sets to work.
LEMMA DeliverKeepsSession ==
  ASSUME IInv, ClientInv, InStep, Deliver
  PROVE  InStep'
<1>1. /\ down # <<>> /\ up = <<>> /\ ~ Working /\ Len(down) <= 1
      /\ pc = "update" /\ UNCHANGED <<flash, host>> /\ Answered
  BY DEF Deliver, InStep, OneInv, RecvStart, RecvData, RecvFinish, RecvAbort
<1>2. down' = <<>>
  BY <1>1, TakeFrame DEF Deliver, ClientInv
<1>3. AckedIsFlashed' /\ FrameInv'
  BY <1>1, <1>2 DEF InStep, AckedIsFlashed, FrameInv
<1>n. ASSUME NEW c \in NakCodes, reply' = Nak(c), UNCHANGED <<pc, accepted>>,
             upd' = upd \/ upd'.state = "IDLE"
      PROVE  InStep'
  <2>1. ~ Working'
    BY <1>1, <1>n DEF Working
  <2>2. up' \in {up, <<>>} \/ up' = <<Nak(c)>>
    BY <1>1, <1>n DEF Answered
  <2> HIDE DEF Nak
  <2>3. QED
    BY <1>1, <1>2, <1>n, <2>1, <2>2, QuietStep
<1>4. CASE host.at \notin Waiting
  <2>1. up' = <<>>
    BY <1>1, <1>4 DEF Answered
  <2>2. OneInv' /\ WorkInv' /\ AckInv'
    BY <1>1, <1>2, <1>4, <2>1 DEF OneInv, WorkInv, AckInv
  <2>3. SlotInv'
    BY <1>1, <1>4 DEF SlotInv, Opened, Waiting
  <2>4. QED
    BY <1>3, <2>2, <2>3 DEF InStep
<1>5. CASE host.at = "start"
  <2>1. Head(down) = StartFrame(host.slot, host.img)
    BY <1>1, <1>5 DEF InStep, FrameInv, FrameOf, Waiting
  <2>2. RecvStart(host.slot, host.img) /\ host.slot \in Slots
    BY <1>5, <2>1 DEF Deliver, StartFrame, ClientInv, Hosts
  <2>3. CASE \E c \in NakCodes : Answer(Nak(c))
    BY <1>n, <2>3
  <2>4. CASE ~ \E c \in NakCodes : Answer(Nak(c))
    <3>1. /\ upd' = [upd EXCEPT !.slot = host.slot, !.img = host.img]
          /\ pc' = "erasing" /\ at' = 0 /\ reply' = NoReply
      BY <2>2, <2>4 DEF RecvStart, NakCodes
    <3>2. upd'.slot = host.slot /\ upd'.img = host.img
      BY <3>1 DEF IInv, TypeOK, Sessions
    <3>3. up' = <<>>
      BY <1>1, <3>1 DEF Answered
    <3>4. SlotInv' /\ OneInv' /\ AckInv'
      BY <1>1, <1>2, <1>5, <3>3 DEF SlotInv, Opened, OneInv, AckInv
    <3>5. WorkInv'
      BY <1>1, <1>5, <3>1, <3>2 DEF WorkInv, Ours
    <3>6. QED
      BY <1>3, <3>4, <3>5 DEF InStep
  <2>5. QED
    BY <2>3, <2>4
<1>6. CASE host.at = "data"
  <2> DEFINE p == SubSeq(host.img, host.sent + 1, ChunkEnd(host))
  <2>1. Head(down) = DataFrame(WordBytes * host.sent, p)
    BY <1>1, <1>6 DEF InStep, FrameInv, FrameOf, NextFrame, Waiting
  <2>2. RecvData(WordBytes * host.sent, p)
    <3> HIDE DEF p
    <3>1. /\ Head(down).cmd = "data" /\ Head(down).offset = WordBytes * host.sent
          /\ Head(down).payload = p
      BY <2>1 DEF DataFrame
    <3>2. RecvData(Head(down).offset, Head(down).payload)
      BY <3>1 DEF Deliver
    <3>3. QED
      BY <3>1, <3>2
  <2>3. Fits /\ (upd.state = "RECEIVING" => Ours /\ Clean)
    BY <1>6 DEF InStep, SlotInv, Opened
  <2>b. /\ ChunkEnd(host) \in Nat /\ host.sent \in Nat /\ host.sent < ChunkEnd(host)
    BY <1>6, HostChunk
  <2> HIDE DEF p
  <2>4. CASE \E c \in NakCodes : Answer(Nak(c))
    BY <1>n, <2>4
  <2>5. CASE ~ \E c \in NakCodes : Answer(Nak(c))
    <3>1. /\ pc' = "programming" /\ at' = FirstWord(WordBytes * host.sent, p)
          /\ todo' = p /\ reply' = NoReply /\ UNCHANGED <<upd, accepted>>
          /\ upd.state # "IDLE"
      BY <2>2, <2>5 DEF RecvData, NakCodes
    <3>2. at' = host.sent
      <4>1. /\ Head(down).cmd = "data" /\ Head(down).offset = WordBytes * host.sent
            /\ Head(down).payload = p
        BY <2>1 DEF DataFrame
      <4>2. /\ WordBytes * host.sent \in Nat /\ p \in WordSeq \ {<<>>}
            /\ FrameEnd(WordBytes * host.sent, p) < AddressBytes
        BY <1>1, <4>1, TakeFrame, FrameKinds DEF ClientInv
      <4>3. at' = (4 * host.sent) \div 4
        BY <3>1, <4>2, FrameNameable
      <4>4. QED
        BY <2>b, <4>3
    <3>3. Ours /\ Clean
      BY <2>3, <3>1 DEF IInv, TypeOK, Sessions
    <3>4. up' = <<>>
      BY <1>1, <3>1 DEF Answered
    <3>5. OneInv' /\ AckInv'
      BY <1>2, <3>4 DEF OneInv, AckInv
    <3>6. SlotInv'
      BY <1>1, <1>6, <2>3, <3>1, <3>3 DEF SlotInv, Fits, Ours, Clean
    <3>7. Flashed(host.sent + 1, at)'
      BY <1>1, <2>b, <3>2 DEF Flashed
    <3>a. todo' = SubSeq(host.img, at' + 1, ChunkEnd(host))
      BY <3>1, <3>2 DEF p
    <3>b. /\ host'.at = "data" /\ pc' = "programming" /\ Ours'
          /\ host'.sent <= at' /\ at' < ChunkEnd(host')
          /\ todo' = SubSeq(host'.img, at' + 1, ChunkEnd(host'))
      <4>1. host' = host
        BY <1>1
      <4>2. host'.at = "data" /\ pc' = "programming" /\ Ours'
        BY <1>6, <3>1, <3>3, <4>1 DEF Ours
      <4>3. host'.sent <= at' /\ at' < ChunkEnd(host')
        BY <2>b, <3>2, <4>1
      <4>4. todo' = SubSeq(host'.img, at' + 1, ChunkEnd(host'))
        BY <3>a, <4>1
      <4>5. QED
        BY <4>2, <4>3, <4>4
    <3>8. WorkInv'
      BY <3>7, <3>b DEF WorkInv
    <3>9. QED
      BY <1>3, <3>5, <3>6, <3>8 DEF InStep
  <2>6. QED
    BY <2>4, <2>5
<1>7. CASE host.at = "finish"
  <2>1. Head(down) = FinishFrame
    BY <1>1, <1>7 DEF InStep, FrameInv, FrameOf, NextFrame, Waiting
  <2>2. RecvFinish
    BY <2>1 DEF Deliver, FinishFrame
  <2>3. Fits /\ (upd.state = "RECEIVING" => Ours /\ Clean)
    BY <1>7 DEF InStep, SlotInv, Opened
  <2>4. CASE \E c \in NakCodes : /\ reply' = Nak(c) /\ UNCHANGED <<pc, accepted>>
                                 /\ upd' = upd \/ upd'.state = "IDLE"
    BY <1>n, <2>4
  <2>5. CASE /\ pc' = "save_erase" /\ ret' = "finish" /\ reply' = NoReply
             /\ UNCHANGED upd /\ upd.state # "IDLE"
             /\ accepted' = [accepted EXCEPT ![upd.slot] = upd.img]
    <3>1. Ours /\ Clean
      BY <2>3, <2>5 DEF IInv, TypeOK, Sessions
    <3>2. up' = <<>>
      BY <1>1, <2>5 DEF Answered
    <3>3. accepted'[host.slot] = host.img
      BY <2>5, <3>1 DEF Ours, IInv, TypeOK, Sessions
    <3>4. OneInv' /\ AckInv'
      BY <1>2, <3>2 DEF OneInv, AckInv
    <3>5. SlotInv'
      BY <1>1, <2>3, <2>5, <3>1 DEF SlotInv, Fits, Ours, Clean
    <3>6. WorkInv'
      BY <1>1, <1>7, <2>5, <3>1, <3>3 DEF WorkInv, Ours
    <3>7. QED
      BY <1>3, <3>4, <3>5, <3>6 DEF InStep
  <2>6. QED
    <3>1. CASE upd.state = "IDLE"
      BY <2>2, <2>4, <3>1 DEF RecvFinish, NakCodes
    <3>2. CASE upd.state # "IDLE" /\ FinishVerdict(upd.slot, upd.img) # "ok"
      <4>1. FinishVerdict(upd.slot, upd.img) \in NakCodes
        BY <3>2 DEF FinishVerdict, NakCodes
      <4>2. reply' = Nak(FinishVerdict(upd.slot, upd.img)) /\ UNCHANGED <<pc, accepted>>
            /\ upd'.state = "IDLE"
        BY <2>2, <3>2 DEF RecvFinish
      <4>3. QED
        BY <2>4, <4>1, <4>2
    <3>3. CASE upd.state # "IDLE" /\ FinishVerdict(upd.slot, upd.img) = "ok"
      BY <2>2, <2>5, <3>3 DEF RecvFinish
    <3>4. QED
      BY <3>1, <3>2, <3>3
<1>8. QED
  BY <1>4, <1>5, <1>6, <1>7 DEF Waiting

-----------------------------------------------------------------------------
(* What resets, the line and the client do to the session *)

LEMMA EnvironmentKeepsSession ==
  ASSUME IInv, ClientInv, InStep, Environment
  PROVE  InStep'
<1>1. /\ ~ Working' /\ UNCHANGED <<accepted, host, down, up>>
      /\ upd' = upd \/ upd'.state = "IDLE"
  BY DEF Environment, AppRequestsUpdate, Crash, Working
<1>2. CASE UNCHANGED flash
  BY <1>1, <1>2, QuietStep
<1>3. CASE ~ UNCHANGED flash
  <2>1. Interrupted /\ pc \in {"erasing", "programming"}
    BY <1>3 DEF Environment, AppRequestsUpdate, Crash, Interrupted
  <2>2. \E w \in Word : /\ flash' = [flash EXCEPT ![upd.slot][at] = w]
                        /\ pc = "programming" =>
                             w \subseteq Program(flash[upd.slot][at], Head(todo))
    <3>1. CASE pc = "erasing"
      BY <2>1, <3>1 DEF Interrupted
    <3>2. CASE pc = "programming"
      BY <2>1, <3>2, WorkWritten DEF Interrupted, ClientInv
    <3>3. QED
      BY <2>1, <3>1, <3>2
  <2>3. down = <<>> /\ up = <<>>
    BY <2>1 DEF InStep, OneInv, Working
  <2>4. QED
    BY <1>1, <2>1, <2>2, <2>3, WorkCutShort
<1>4. QED
  BY <1>2, <1>3

LEMMA LineKeepsSession ==
  ASSUME IInv, ClientInv, InStep, LoseFrame \/ LoseAnswer \/ UNCHANGED otaVars
  PROVE  InStep'
<1>1. UNCHANGED <<vars, host>>
  BY DEF LoseFrame, LoseAnswer, otaVars, session
<1>2. CASE UNCHANGED otaVars
  <2>1. UNCHANGED <<vars, host, down, up>>
    BY <1>2 DEF otaVars, session
  <2>2. UNCHANGED <<OneInv, FrameInv, SlotInv>>
    BY <2>1 DEF vars, OneInv, FrameInv, SlotInv, Working, FrameOf, NextFrame, ChunkEnd,
         Opened, Fits, Ours, Clean
  <2>3. UNCHANGED <<WorkInv, AckInv, AckedIsFlashed>>
    BY <2>1 DEF vars, WorkInv, AckInv, AckedIsFlashed, Working, Ours, Flashed, ChunkEnd
  <2>4. QED
    BY <2>2, <2>3 DEF InStep
<1>3. CASE LoseFrame \/ LoseAnswer
  <2>1. ~ Working
    BY <1>3 DEF LoseFrame, LoseAnswer, InStep, OneInv
  <2>2. down' \in {down, <<>>} /\ up' \in {up, <<>>}
    BY <1>3, TakeFrame DEF LoseFrame, LoseAnswer, InStep, OneInv, ClientInv
  <2>3. ~ Working'
    BY <1>1, <2>1 DEF Working, vars
  <2>4. QED
    BY <1>1, <2>2, <2>3, QuietStep DEF vars
<1>4. QED
  BY <1>2, <1>3

\* A session that begins while the device is still at work is in doubt; any
\* other begins with a device at rest.
LEMMA RunKeepsSession ==
  ASSUME ClientInv, NEW slot \in Slots, NEW img \in Images, Run(slot, img)
  PROVE  SessionIInv'
<1>1. /\ UNCHANGED vars /\ up' = <<>> /\ down' = <<StartFrame(slot, img)>>
      /\ host'.at = "start" /\ host'.slot = slot /\ host'.img = img
      /\ host'.doubt = IF Working THEN {"overlap"} ELSE {}
  BY DEF Run
<1>2. CASE Working
  BY <1>1, <1>2 DEF SessionIInv, Sound
<1>3. CASE ~ Working
  <2>1. ~ Working' /\ ~ Opened'
    BY <1>1, <1>3 DEF Working, Opened, vars
  <2>2. OneInv'
    BY <1>1, <2>1 DEF OneInv
  <2>3. FrameInv'
    BY <1>1 DEF FrameInv, FrameOf
  <2>4. SlotInv' /\ WorkInv' /\ AckInv' /\ AckedIsFlashed'
    BY <1>1, <2>1 DEF SlotInv, WorkInv, AckInv, AckedIsFlashed
  <2>5. QED
    BY <2>2, <2>3, <2>4 DEF SessionIInv, InStep
<1>4. QED
  BY <1>2, <1>3

\* An ACK carries the session on; so does a NAK of a chunk that is read as one,
\* but from then on the client's count says nothing of the flash.
LEMMA TakeAckKeepsSession ==
  ASSUME IInv, ClientInv, SessionIInv, TakeAck
  PROVE  SessionIInv'
<1> SUFFICES ASSUME Sound' PROVE InStep'
  BY DEF SessionIInv
<1>1. /\ host.at \in Waiting /\ up # <<>> /\ host' = AfterAck
      /\ UNCHANGED vars /\ up' = Tail(up)
      /\ down' = IF host'.at = "done" THEN down ELSE Append(down, NextFrame(host'))
  BY DEF TakeAck
<1>2. host'.at # "done"
  BY DEF Sound, Waiting
<1>3. /\ host'.at \in {"data", "finish"} /\ host.at \in {"start", "data"}
      /\ host'.img = host.img /\ host'.slot = host.slot
      /\ host'.sent = (IF host.at = "data" THEN ChunkEnd(host) ELSE 0)
      /\ host'.doubt = (IF Head(up) = Ack THEN host.doubt ELSE host.doubt \cup {host.at})
  BY <1>1, <1>2, AfterAckTypes DEF Waiting
<1>4. Sound /\ InStep
  BY <1>1, <1>3 DEF Sound, SessionIInv
<1>5. up = <<Head(up)>> /\ up' = <<>> /\ down = <<>> /\ ~ Working
  BY <1>1, <1>4, TakeFrame DEF InStep, OneInv, ClientInv
<1>6. ~ Working' /\ WorkInv' /\ AckInv'
  BY <1>1, <1>5 DEF Working, vars, WorkInv, AckInv
<1>7. Opened
  <2>1. CASE Head(up) = Ack
    BY <1>3, <1>5, <2>1 DEF Opened
  <2>2. CASE Head(up) # Ack
    <3>1. host.at \in host'.doubt
      BY <1>3, <2>2
    <3>2. QED
      BY <1>3, <3>1 DEF Sound, Opened
  <2>3. QED
    BY <2>1, <2>2
<1>8. down' = <<NextFrame(host')>>
  BY <1>1, <1>2, <1>5
<1>9. OneInv' /\ FrameInv'
  BY <1>3, <1>5, <1>6, <1>8 DEF OneInv, FrameInv, FrameOf
<1>10. Fits /\ (upd.state = "RECEIVING" => Ours /\ Clean)
  BY <1>4, <1>7 DEF InStep, SlotInv
<1>11. SlotInv'
  BY <1>1, <1>3, <1>10 DEF vars, SlotInv, Fits, Ours, Clean
<1>12. AckedIsFlashed'
  <2> SUFFICES ASSUME host'.doubt = {}, NEW i \in 1 .. host'.sent
               PROVE  flash[host.slot][i - 1] = host.img[i]
    BY <1>1, <1>3 DEF AckedIsFlashed, vars
  <2>1. host.at = "data"
    BY <1>3
  <2>2. Head(up) = Ack /\ host.doubt = {}
    BY <1>3
  <2>3. i \in 1 .. host.sent \/ i \in host.sent + 1 .. ChunkEnd(host)
    BY <1>3, <2>1, HostChunk
  <2>4. QED
    BY <1>4, <1>5, <2>1, <2>2, <2>3 DEF InStep, AckedIsFlashed, AckInv, Flashed
<1>13. QED
  BY <1>6, <1>9, <1>11, <1>12 DEF InStep

\* A wait that runs out in an erase is one for the answer to OTA_START, and ends
\* the session.
LEMMA RefusedKeepsSession ==
  ASSUME IInv, ClientInv, SessionIInv, TakeNak \/ Timeout
  PROVE  SessionIInv'
<1> SUFFICES ASSUME Sound' PROVE InStep'
  BY DEF SessionIInv
<1>1. host.at \in Waiting /\ Refused /\ UNCHANGED vars
  BY DEF TakeNak, Timeout
<1>2. /\ host.at = "data" /\ host'.at = "data" /\ host'.img = host.img
      /\ host'.slot = host.slot /\ host'.sent = host.sent /\ host'.doubt = host.doubt
      /\ down' = Append(down, NextFrame(host'))
  <2>1. Ended("failed").at \notin Waiting
    BY DEF Ended, Waiting
  <2>2. QED
    BY <1>1, <2>1, RefusedTypes DEF Sound
<1>3. InStep
  BY <1>1, <1>2 DEF Sound, SessionIInv
<1>4. up' = <<>> /\ down = <<>> /\ ~ Working
  <2>1. CASE TakeNak
    BY <1>3, <2>1, TakeFrame DEF TakeNak, InStep, OneInv, ClientInv
  <2>2. CASE Timeout
    <3>1. up' = <<>> /\ down = <<>> /\ (~ Working \/ pc = "erasing")
      BY <2>2 DEF Timeout
    <3>2. Working => pc = "programming"
      BY <1>1, <1>2, <1>3 DEF InStep, WorkInv
    <3>3. QED
      BY <3>1, <3>2
  <2>3. QED
    BY <2>1, <2>2
<1>5. ~ Working' /\ WorkInv' /\ AckInv'
  BY <1>1, <1>4 DEF Working, vars, WorkInv, AckInv
<1>6. down' = <<NextFrame(host')>>
  BY <1>2, <1>4
<1>7. OneInv' /\ FrameInv'
  BY <1>2, <1>4, <1>5, <1>6 DEF OneInv, FrameInv, FrameOf
<1>8. SlotInv'
  BY <1>1, <1>2, <1>3 DEF InStep, vars, SlotInv, Opened, Fits, Ours, Clean
<1>9. AckedIsFlashed'
  BY <1>1, <1>2, <1>3 DEF InStep, vars, AckedIsFlashed
<1>10. QED
  BY <1>5, <1>7, <1>8, <1>9 DEF InStep

LEMMA DeviceKeepsSession ==
  ASSUME IInv, ClientInv, InStep, Device
  PROVE  InStep'
<1>1. CASE ~ Working
  <2>1. ~ Working' /\ reply' = NoReply /\ UNCHANGED <<flash, accepted>>
        /\ (upd' = upd \/ upd'.state = "IDLE")
    BY <1>1, IdleStep DEF Device
  <2>2. up' = up /\ UNCHANGED <<host, down>>
    BY <2>1 DEF Device, Answered
  <2>3. QED
    BY <2>1, <2>2, QuietStep
<1>2. CASE Working
  <2>1. EraseSector \/ ProgramWord \/ SaveErase \/ SaveWrite \/ FinishJump
    BY <1>2 DEF Working, Device, Step, Load, CheckRequest, CheckKey, TryActive, TryAlt, JumpAlt
  <2>2. QED
    BY <1>2, <2>1, EraseKeepsSession, ProgramKeepsSession, FinishKeepsSession DEF Device
<1>3. QED
  BY <1>1, <1>2

LEMMA StepKeepsSession ==
  ASSUME IInv, ClientInv, SessionIInv, [OtaNext]_otaVars
  PROVE  SessionIInv'
<1>1. CASE Device \/ Environment \/ Deliver \/ LoseFrame \/ LoseAnswer \/ UNCHANGED otaVars
  <2>1. UNCHANGED host
    BY <1>1 DEF Device, Environment, Deliver, LoseFrame, LoseAnswer, otaVars, session
  <2>2. Sound' => Sound
    BY <2>1 DEF Sound
  <2>3. InStep => InStep'
    BY <1>1, DeviceKeepsSession, EnvironmentKeepsSession, DeliverKeepsSession,
       LineKeepsSession
  <2>4. QED
    BY <2>2, <2>3 DEF SessionIInv
<1>2. CASE Interrupt
  BY <1>2 DEF Interrupt, Ended, SessionIInv, Sound, Waiting
<1>3. QED
  BY <1>1, <1>2, RunKeepsSession, TakeAckKeepsSession, RefusedKeepsSession
  DEF OtaNext, Client

-----------------------------------------------------------------------------
(* Theorems *)

LEMMA SessionInit == OtaInit => IInv /\ AcceptedIntact /\ ClientInv /\ SessionIInv
<1> SUFFICES ASSUME OtaInit PROVE IInv /\ AcceptedIntact /\ ClientInv /\ SessionIInv
  OBVIOUS
<1>1. IInv /\ AcceptedIntact
  BY InitIInv DEF OtaInit
<1>2. host.at = "closed" /\ host \in Hosts /\ down = <<>> /\ up = <<>> /\ line \in Lines
  BY DEF OtaInit, Ended, Hosts
<1>3. Forward
  BY DEF OtaInit, Init, Forward
<1>4. ClientInv
  BY <1>2, <1>3, EmptySeq DEF ClientInv, Waiting
<1>5. SessionIInv
  BY <1>2 DEF SessionIInv, Sound, Waiting
<1>6. QED
  BY <1>1, <1>4, <1>5

\* The bootloader's invariant and the client's types.
LEMMA ClientInvariance == OtaSpec => [](IInv /\ ClientInv)
<1>1. IInv /\ ClientInv /\ [OtaNext]_otaVars => (IInv /\ ClientInv)'
  BY StepKeepsIInv, StepKeepsClient
<1>2. QED
  BY SessionInit, <1>1, PTL DEF OtaSpec

\* The session's invariant.
LEMMA SessionInvariance == OtaSpec => [](IInv /\ ClientInv /\ SessionIInv)
<1>1. IInv /\ ClientInv /\ SessionIInv /\ [OtaNext]_otaVars => SessionIInv'
  BY StepKeepsSession
<1>2. QED
  BY SessionInit, ClientInvariance, <1>1, PTL DEF OtaSpec

\* Type correctness of the client and the line.
THEOREM OtaTypes == OtaSpec => []OtaTypeOK
<1>1. IInv /\ ClientInv => OtaTypeOK
  BY FrameKinds, ElementOfSeq DEF IInv, ClientInv, OtaTypeOK, Answers
<1>2. QED
  BY ClientInvariance, <1>1, PTL

\* Whatever this client sends, over whatever line, the bootloader runs only
\* whole images, and an activated image stays whole until its slot is updated:
\* the client's frames do not wrap.
THEOREM SessionsAreSafe == OtaSpec => []RunsVerifiedImage /\ []AcceptedIntact
<1>1. IInv => RunsVerifiedImage
  BY DEF IInv
<1>2. IInv /\ ClientInv /\ AcceptedIntact /\ [OtaNext]_otaVars => AcceptedIntact'
  <2> SUFFICES ASSUME IInv, ClientInv, AcceptedIntact, [OtaNext]_otaVars,
                      NEW s \in Slots, accepted'[s] # <<>>
               PROVE  Whole(s)'
    BY DEF AcceptedIntact
  <2>1. Moves
    BY SessionMoves
  <2>2. ~ StrayWrite
    <3>1. at \in Int
      BY DEF IInv, TypeOK
    <3>2. QED
      BY <3>1 DEF ClientInv, Forward, StrayWrite
  <2>3. QED
    BY <2>1, <2>2, WholeKept DEF AcceptedIntact
<1>3. QED
  BY SessionInit, ClientInvariance, <1>1, <1>2, PTL DEF OtaSpec

\* Nor can any update this client makes take the old version away, but one of
\* the only bootable slot.
THEOREM UpdatesAreSafe == OtaSpec => UpdatesKeepOldVersion
<1>1. IInv /\ ClientInv /\ [OtaNext]_otaVars =>
        [HasImage /\ ~HasImage' =>
           \/ pc = "save_erase"
           \/ /\ pc \in {"erasing", "programming"}
              /\ ~Bootable(s10, Other(upd.slot))]_otaVars
  <2> SUFFICES ASSUME IInv, ClientInv, [OtaNext]_otaVars, HasImage, ~HasImage'
               PROVE  \/ pc = "save_erase"
                      \/ /\ pc \in {"erasing", "programming"}
                         /\ ~Bootable(s10, Other(upd.slot))
    OBVIOUS
  <2>1. Moves
    BY SessionMoves
  <2>2. ~ StrayWrite
    <3>1. at \in Int
      BY DEF IInv, TypeOK
    <3>2. QED
      BY <3>1 DEF ClientInv, Forward, StrayWrite
  <2>3. QED
    BY <2>1, <2>2, ImageKept
<1>2. QED
  BY ClientInvariance, <1>1, PTL DEF OtaSpec, UpdatesKeepOldVersion

\* What the client counts as sent is in flash, of a session that did not begin
\* in another's work and misread no answer.
THEOREM AcksAreTrue == OtaSpec => []AckedIsFlashed
<1>1. IInv /\ ClientInv /\ SessionIInv => AckedIsFlashed
  BY DEF SessionIInv, Sound, InStep, AckedIsFlashed, Waiting
<1>2. QED
  BY SessionInvariance, <1>1, PTL

\* An ACK of OTA_FINISH is one of an image the device has verified and activated,
\* even after chunks whose refusal the client misread.
THEOREM SuccessIsTrue == OtaSpec => SuccessMeansActivated
<1>1. IInv /\ ClientInv /\ SessionIInv /\ [OtaNext]_otaVars =>
        [(/\ host.at = "finish" /\ host'.at = "done" /\ Head(up) = Ack
          /\ host.doubt \subseteq {"data"})
         => accepted[host.slot] = host.img]_otaVars
  <2> SUFFICES ASSUME IInv, ClientInv, SessionIInv, OtaNext,
                      host.at = "finish", host'.at = "done", Head(up) = Ack,
                      host.doubt \subseteq {"data"}
               PROVE  accepted[host.slot] = host.img
    BY DEF otaVars, session
  <2>1. TakeAck
    BY DEF OtaNext, Device, Environment, Deliver, LoseFrame,
         LoseAnswer, Run, Client, TakeNak, Timeout, Refused, Interrupt, Ended
  <2>2. InStep
    BY DEF SessionIInv, Sound, Waiting
  <2>3. up = <<Ack>>
    BY <2>1, <2>2, TakeFrame DEF TakeAck, InStep, OneInv, ClientInv
  <2>4. QED
    BY <2>2, <2>3 DEF InStep, AckInv
<1>2. QED
  BY SessionInvariance, <1>1, PTL DEF OtaSpec, SuccessMeansActivated
=============================================================================
