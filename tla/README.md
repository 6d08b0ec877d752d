# Verification of oled_prj

TLA+ modules that model the firmware of an STM32F407 board with an OLED screen,
its IAP bootloader, the PC programs that talk to both over a serial line and the
RK3506 gateway; TLC configurations that check them on small instances; and TLAPS
proofs of their safety for every value of the constants. Paths in this text are
relative to the repository; short names are files of `stm32f407/src` unless
another directory is named.

Contents: 1 the system, 2 the modules, 3 the runs, 4 bounds, 5 fairness,
6 the proofs, 7 what the checks found, 8 what is not modelled, 9 what is left.

## 1. The system

| Part | Code | State it keeps | Operations |
|---|---|---|---|
| Bootloader | `stm32f407/iap/src` | record of both slots in flash sector S10 and its RAM copy, two firmware slots, OTA request in NOINIT SRAM, locals of the update session | start decision, load and save of the record, update mode (START, DATA, FINISH, ABORT), jump |
| OTA client | `tools/ota_tool` | position in the image, tries of the present chunk, input buffer of the port | `upgrade()`: START, chunks with retries, FINISH; ABORT after failure; Ctrl+C |
| UART driver | `uart_drv.c`, HAL handler | ring of received bytes, HAL reception state and error code | receive callback, error callback, `available`, `read_byte` |
| Frame protocol | `protocol.c`, `iap/src/boot_proto.c`, `pc_host/.../protocol.cpp`, `rk3506/src/protocol.c` | parser state, CRC, counters | feed a byte, reset after idle time, build a frame |
| comm_task | `user_app.c`, `freertos_app.c` | frame in work, results counted | take a frame, hand commands to their owners, wait for results, ACK or NAK |
| display_task | `freertos_app.c`, `display_mgr.c`, `ssd1306.c` | mode (local or remote), text, image assembly, driver buffer, dirty mark | apply commands, tick, redraw, send the buffer |
| Menu, key_task | `menu_mgr.c`, `menu_items.c`, `key_drv.c` | present menu, cursor, window, stack, dialog, active and dirty marks; key debounce | navigate, activate, leave, item callbacks, draw |
| storage_task | `sys_config.c` | configuration in RAM and in flash | set the boot text and save |
| led_task, cli_task, watchdog | `led_mgr.c`, `cli_cmds.c`, `app_watchdog.c` | blink timer, line, report slots | set mode, commands, report and check |
| PC program | `pc_host/oled_control` | frames not acknowledged with their retries, mode, image being sent | send, resend on a timer, ACK, images in segments |
| Gateway | `rk3506/src` | TCP and web clients, list of unacknowledged commands, transmit queue | forward, resend, answer |

**How they interact.** The PC (or the gateway) and the board exchange frames on
one UART. The interrupt handler puts bytes in a ring, `comm_task` parses them
and sends commands through FreeRTOS queues to the task that owns the data,
waits for the results in a result queue and answers. `key_task` sends display
commands through the same queue and changes the menu directly, while
`display_task` draws it. Display manager and menu draw in the one buffer of the
SSD1306 driver. The application asks for an update by writing a word in NOINIT
SRAM and resetting; the bootloader then talks to the OTA client until a new
image is verified, recorded and started.

**What is hard.** Power cuts and resets between any two flash operations; ACKs
without sequence numbers; frames lost, repeated and late; bounded queues whose
send may time out while the command stays queued; an interrupt handler and a
task sharing a ring without a lock; two tasks sharing the menu and the buffer;
a HAL that ends a reception after its own callback has restarted it; a send
buffer that four threads of the gateway share, and locks taken inside callbacks; a
hardware watchdog that counts while a flash erase stops code and tick.

**What makes each part correct.**

- Bootloader: only a whole verified image is started; an image once activated is
  not damaged by anything but an update of its slot (or an OTA_DATA whose offset
  wraps, which no client of the repository sends); an update of the inactive slot
  keeps the old version; the start decision finds an image if there is one.
- OTA client: what it counts as sent is in flash; success means the image is
  verified and activated; every session ends, and succeeds on a good line.
- UART ring: bytes come out once, in order, whatever the interleaving; a byte is
  refused only when the ring is full; reception goes on after an error.
- Command handling: an ACK means what was asked for was done; the wait ends.
- Display: an image leaves the assembly only with all its segments; while the menu
  is up its page is what one sees; afterwards it is gone; local mode shows the
  local text.
- Frame parser: a frame on a line in step arrives, whole and once; one wrong byte
  makes no command; a parser out of step comes back after a bounded loss.
- Key driver: no event is lost to the next one; events come in their order; a key
  that is held goes on giving events, whatever the other keys do.
- Menu: list, cursor, window and stack agree after any path; a dialog is the
  selected item's; a press acts once; cancelling restores; changes get drawn.
- Watchdog: a task that stops reporting resets the board in bounded time, and
  nothing resets a board without a cause.
- Gateway: no two waiting commands share a number; only what the device received
  counts as answered, but for number 0 and for frames that two threads build at
  once; a waiting command is answered or given up.

## 2. The modules

**`Bootloader`** (`iap/src/boot_main.c`, `boot_fw_info.c`, `boot_flash.c`,
`boot_ota_req.c`). One action per step of the start decision (`Load`,
`CheckRequest`, `CheckKey`, `TryActive`, `TryAlt`, `JumpAlt`), two for
`fw_info_save` (`SaveErase`, `SaveWrite`, with `ret` naming the caller), one per
frame of `enter_update_mode` (`RecvStart`, `RecvData`, `RecvFinish`, `RecvAbort`,
`RecvOther`), one turn each of the loops over sectors and words (`EraseSector`,
`ProgramWord`), and `FinishJump` for what follows the save of an OTA_FINISH.
`Crash` is a reset or a power cut at any point: an interrupted erase leaves any
contents, an interrupted program some of the new bits, an interrupted save the
old record or none. Data: a flash word is the set of its programmed (zero) bits,
so that programming twice is a union; a CRC32 is the sequence of words it covers;
the SP and PC tests depend on the first word of the slot. Addresses are `uint32_t`:
offset and length are added, and the offset to the base, modulo `AddressWords` words
(`FrameEnd`, `FirstWord`), so that an offset just below the modulus passes the range
test and is programmed before the slot; from a session of slot B that is the end of
slot A (`Cell`, `StrayWrite`). `accepted` is a history variable: the image last
activated in a slot.

**`OtaSession`** composes `Bootloader` with `ota_client.py` and the line between
them: `Run`, `TakeAck`, `TakeNak`, `Timeout` and `Interrupt` are the client,
`Deliver`, `LoseFrame` and `LoseAnswer` the line, `Device` a step of the
bootloader whose answer goes on the line. A damaged frame to the device is a lost
one, since the device checks the CRC. The client does not: it takes an answer by its
CMD byte, so on a noisy line an answer is lost, taken for what it is, or taken for
the other kind (`ReadsAsAck`, `ReadsAsNak`). The variable `line`, `clean` or `noisy`,
never changes, so that one run covers both kinds. `host.doubt` is history: `start` or
`data` when a refusal of that frame was taken for an ACK, `overlap` when the session
began while the device was still at the work of another.

**`ByteQueue`** is what a ring driver promises: a bounded FIFO that refuses bytes
only when full and in the end gives out what it holds. **`UartRx`** is the
receiver hardware (data register, RXNE, ORE), `HAL_UART_IRQHandler` up to the
end of an interrupt, the callback of `uart_drv.c` with its ring and the loop of
`user_app_comm_process` cut at every access to shared state. It implements
`ByteQueue` under the mapping at its end (property `Delivers`).

**`AppCommands`** is `comm_task`, `display_task` and `storage_task` with their
queues, and the PC's sending side (`main.cpp`, `frame_queue.h`). Two commands
stand for the rest: `text` has one owner and one result, `boot` has two of each.
A wait may run out while a command is queued, a result may come after its wait
has been given up, a save may fail, and a reset may come at any point. The history
variable `handled` holds the boot texts that `storage_task` has taken up since the
PC first sent them and since the last reset.

**`Screen`** is what one sees: `display_task`, the display manager with its
assembly of image segments, the menu as far as it decides who draws, `key_task`
and the PC's images over a lossy line. A picture names, for every segment of the
screen, whose content is there. The preview of the welcome text is the page
`Welcome`, which is drawn in local mode only (`Rendered`). The two places where `display_task` is busy
sending the buffer (`dt` is `send` or `flush`) are steps of their own, since
`key_task` has the higher priority and runs meanwhile. All state of the menu that
a page shows is one model value, a page.

**`FrameLink`** is one direction of a serial line: a builder, the wire and the
byte-wise parser. The repository has the parser four times (application,
bootloader, PC program, gateway) and the builder a fifth time (`proto.py`); a
record of three flags tells the copies apart: the SEQ byte, the reset after a
silence (`PROTO_RX_TIMEOUT_MS`, application and PC program only) and a builder
whose index is a `uint8_t`. The wire changes, loses and inserts bytes. `clean` and
`lost` are history: whether an earlier disturbance can still matter to this frame,
and how many bytes of undisturbed frames have been missed in a row. A silence may
pass unnoticed (`ProtoResetRx` may or may not happen between frames): the device looks
for it only when it begins to empty its ring, `user_app.c:102`.

**`KeyDriver`** is `key_drv.c`: four keys, debounced, one slot for a pending event
each; `SampleKeys` is a call of `key_drv_scan` that samples, `TakePending` one that
hands an event over and samples nothing. Time is counted in calls, and a call may
come late. **`Menu`** is `menu_mgr.c` and the variables of `menu_items.c` over any
tree of items: one operator per function, one action per key event, tick and mode
command. **`KeyTask`** composes the two as `user_app_key_process` does, with
`display_task`'s renders and the PC's mode commands between key events; its `acted`
(what KEY3 or KEY4 has done since it went down) and `entry` (the value when its
editing began) are history.

**`Watchdog`** is `app_watchdog.c`, the reporting tasks, the hardware watchdog and
what stops them all, the erase that stores the configuration: `Tick` is 50 ms,
`Die` a task that hangs, `Store` a save by `storage_task`, `Reset` the start with
the save `sys_config_init` makes when the sector holds no record. `silent`,
`deadFor` and `stores` are history.

**`Gateway`** is the RK3506 program (`rk3506/src`): the threads `main`, `reader`,
`web` and `tcp` as labels `pc[t]`, cut where one can see the other between two
accesses: reading the number and writing it back; building a frame in the shared
`proto.tx_buf`, first the code (`Begin`), then the number (`BuildSeq`), then data and
CRC (`BuildRest`), and copying it; queueing it and entering it in the pending list.
`json_mutex`, `client_mutex` and `pending_mutex` (which the main loop holds for its
whole pass) are modelled; `tx_mutex` and `event_mutex` are held within one step. The
CRC is computed over what the buffer then holds, so a mixture of two frames may be
valid. The device is the external part: it may receive a written frame whose CRC is of
its contents (`Received`), or not, and its answers come late or never (`up` holds their
numbers, so that two answers to one number are one). Lengths are taken as equal, so
that no mixture fails for its length. `raced` is history: the numbers of frames that
were built while another thread built one. `Most` bounds how much happens in all.

`MCBootloader`, `MCOtaSession`, `MCUartRx`, `MCAppCommands`, `MCScreen`,
`MCFrameLink`, `MCKeyTask` and `MCWatchdog` give the constants their values for TLC
(`KeyDriver` and `Gateway` need only numbers). The modules whose name ends in
`Proofs` hold the theorems. Operators that a comment calls a mutant are plausible
bugs (a dropped test, a missing reset, a wrong unit); each property is violated when
one of them takes the place of the definition below it, which shows that the
property can fail.

## 3. The runs

| Run | Result | What it shows |
|---|---|---|
| `boot` | holds, 130,939 states | With resets, power cuts, flash faults and wrapped offsets at every step: what runs is verified (`RunsVerifiedImage`), activated images stay whole but for a wrapped OTA_DATA (`ActivatedStaysWhole`), updates keep an image (`KeepsABootableImage`), the bootloader gives up only without one (`GivesUpOnlyWithoutImage`) and starts one it has (`BootsWhenPossible`) |
| `ota` | holds, 244,472 states | On a clean and on a noisy line: `AckedIsFlashed`, `AcceptedIntact` (no frame of this client wraps), `SuccessMeansActivated`, `SessionEnds`, and `UpgradeSucceeds` on the clean one |
| `uart` | holds, 119,050 states | The driver implements `ByteQueue` (`Delivers`); after a byte reception is on again (`ListensAfterByte`) |
| `commands` | holds, 93,752 states | ACKs of texts mean the text is shown (`TextAckMeansShown`), ACKs of boot texts that `storage_task` has taken this very frame up (`BootAckMeansHandled`), and `comm_task` never hangs (`CommReturns`) |
| `screen` | holds, 989,708 states | `MenuHoldsScreen`, `LocalShowsText`, `MenuLeavesScreen`, with the preview of the welcome text among the pages |
| `images` | holds, 3,049,848 states | What leaves the assembly as complete has every segment (`CompleteImagesHaveNoHole`), over a lossy line, images restarted and put after one another. What a redraw shows of an image in assembly is another question: `screen_redraw`, section 7 |
| `frames` | holds, 329,646 states | On all four kinds of link: `SyncedFramesArrive`, `OneBadByteIsRejected`, `BoundedLoss` |
| `keys` | holds, 91,042 states | Four bouncing keys and late calls: `NoEventOverwritten`, `EventsArePaired`, `HeldKeyRepeats` |
| `menu` | holds, 1,421,592 states | `MenuWellFormed`, `DialogIsTheItems`, `OneStepPerPress`, `CancelRestores`, `ChangesAreMarked` over a tree with an item of every kind |
| `watchdog` | holds, 114,144 states | `NoResetWithoutCause` and `DeadTaskResets` at the real periods |
| `gateway` | holds, 71,043 states | `OneNumberEach`; `AnsweredWasDelivered`, which excepts number 0 and frames built at once; `Settles` |
| `gateway_reply` | **violated** | The first message of a TCP client stops the TCP thread on a lock it holds |

The type invariants of `Bootloader`, `AppCommands`, `Screen`, `FrameLink` and `KeyTask`
are checked in the run of their module; those of the others
(`OtaTypeOK`, `RxTypeOK`, `KeyTypeOK`, `WatchdogTypeOK`, `GatewayTypeOK`) are proved. Deadlock is
checked in every run but the gateway's, where the messages of the bound run out and
the violated one stops by itself.

The mutant of `TextAckMeansShown` drops both comparisons of `comm_wait_results`: either
one alone still keeps the results of other commands out when `Prompt` holds. That of
`BootAckMeansHandled` drops the one with the number.

Seventeen more configurations state a claim that the code does not keep; section 7
lists them. To repeat one: `tlc -config <name>.cfg <module>`.

## 4. Bounds

- `boot`: two-bit words, a slot A of one sector and a slot B of two, as the real A
  is the smaller. Images for A, for B, a short one, an empty one, and by the
  choice of slots one too long and one linked for the wrong slot; payloads of one
  and two words; offsets inside, at the end and outside. Two sectors are the
  fewest with a half-erased slot, two bits the fewest with a half-programmed word.
  `AddressWords` is 8, so that offset 28 is the real 0xFFFFFFFC, one word before the
  slot. What lies before slot A (the sectors of the bootloader and of the record) is
  outside the model; a wrapped offset in a session of A changes nothing in it.
- `ota`: chunks of one word, so that an image is two frames; two tries of each; two
  images for slot B that differ in their last word, the fewest with which a session can
  be told the other's success; both kinds of line. The lengths of the two line
  directions need no bound: the client waits for an answer before it sends. That a
  damaged frame to the device passes its CRC-8 by chance is left out.
- `uart`: a ring of four cells, a tail that counts to eight as the real `uint16_t`
  counts over many rings, two byte values. The ring fills and both indices wrap;
  the order of bytes shows with two values.
- `commands`: two texts, two sequence numbers (so that they are reused at once, as
  256 are after a while), a display queue and a result queue of two and a storage
  queue of one (the real ones are 4, 8 and 4: shorter queues fill sooner), one frame
  in the ring, one outstanding command with one retry. `Pending` and `Waiting` are the
  bounds of the model; the proofs hold for any. A number in use is not given out
  again: 256 commands would have to be sent while one is about. `Prompt` says that
  `display_task` serves a command within the wait of `comm_task` (150 ms, and 800 ms for
  what is stored, against a round of 50 ms plus transfers).
- `screen` and `images`: two segments in the first and three in the second
  (`FRAME_SEG_COUNT` is 6): a first, a middle and a last one, so that the middle can be
  lost alone. One image, because the properties tell images only from other contents. The
  preview of the welcome text and in `screen` a page beside it. The display queue has its real length 4. `Pending`, the frames
  the PC has outstanding, and `Load`, the events in a round of `display_task`, are
  bounds of the model; the proofs of section 6 do without them. Two events in a
  round cannot fill the queue; with more, the redraw that takes the menu off the
  glass may be dropped, a hazard the theorem `LocalText` names as its assumption.
- `frames`: bytes of four bits, so that a length of 0 to 11 bytes, SOF and EOF are
  all values of one another's fields, as in the real frames; a CRC over a
  permutation of the values; messages empty, with SOF and EOF inside, and of the
  longest length whose frame a wrapping index can still hold; two disturbed bytes,
  the fewest with which a false start meets a second fault.
- `keys`: two debounce samples, a long press after three calls, repeats every two,
  one call in two late, two keys down at once: the fewest for a repeat to be due
  while another key's event is handed over. The real numbers (3, 50 and 8 calls of 20 ms)
  are longer counts to the same tests.
- `menu`: a tree with an item of each kind, lists longer than the window of two, a
  list two levels down and an INFO text of five rows; one key down at a time, no
  bounce (the run `keys` has them); values 0 and 1. `MaxActed` stops the count `acted`
  at 2, one above what the property allows.
- `watchdog`: the real periods in units of 50 ms (a look every 20, a report due within
  2, hardware at 20); three tasks that stand for a prompt one, one that may be a unit
  late and one that may be three; erases of 0, 0.5, 1 and 2 s; two stores after a death.
- `gateway`: at most one message of each kind of client, one time synchronisation and
  one key event, and of these any two (`Most`), which is what two threads need to meet in
  the shared buffer; one retry, a send queue and an event queue of one, which are full at
  times, a pending list of two, which is not. Two numbers (`Modulus`), so that the
  second message is not of number 0 and the counter wraps. A TCP message stops its thread
  (`gateway_reply`), so `Settles` is in effect about the web's command, and about the
  TCP client's until the main loop stands still with it. `gateway_mixed`,
  `gateway_number` and `gateway_untracked` have room for three. That two pending commands
  get one number by a wrap is beyond the run; the proofs cover every length of the list,
  every number of messages and every number of wraps.

## 5. Fairness

- `Bootloader`: weak fairness of `Step`, what the processor does by itself. The host,
  the user and resets promise nothing.
- `OtaSession`: weak fairness of the device and of the line (a frame is delivered or
  lost), strong fairness of the client: its wait is bounded by its clock, and a
  board that is reset again and again makes the wait disabled and enabled in turns.
- `UartRx`: weak fairness of the handler, which the hardware calls while an
  interrupt is pending, and of the task, which the callback wakes and which wakes
  by itself every 2 ms.
- `AppCommands`: weak fairness of each of the three tasks. FreeRTOS runs a ready
  task when those above it block, which they do except while they have work; every
  wait has a timeout. The PC program and resets have none.
- `Screen`: weak fairness of `display_task` only, which runs every 50 ms.
- `KeyDriver`: weak fairness of the scan; `key_task` calls it every 20 ms.
- `Gateway`: strong fairness of the main loop, of the TCP thread and of a web message
  once taken up, since the locks they wait for are free again and again: each is held
  for a short time, and the TCP thread sleeps 10 ms and the main loop 20 ms between
  rounds. Weak fairness of the clock. Nothing of the device or of the clients.

`FrameLink`, `KeyTask` and `Watchdog` have safety properties only: "comes back after a
bounded loss" and "resets in bounded time" are counted, not left to fairness. Liveness
is claimed only of what these justify: `UpgradeSucceeds`, for one, only of a line that
loses nothing and only until a reset or the user intervenes; `Settles` only unless the
TCP thread waits for its own lock (`gateway_reply`).

## 6. The proofs

`tlapm` checks eight modules to the last leaf; TLC evaluated the invariants below
before they were proved. Each proof has the same shape: an inductive invariant, one
lemma or step per action, and a last step that joins them.

**`OtaSessionProofs`**, first the bootloader alone, for all slot sizes, word widths,
images, payloads, `uint32_t` offsets and with or without flash faults, from the
assumptions of `Bootloader` on its constants
(the slots have at least a word; an erased word is no valid vector; an image is shorter
than the address space). `RunsVerifiedImage` is not inductive by itself: that the slot
jumped to is the verified one depends on what happened between the test and the jump.
The inductive invariant `IInv` adds

- `SessionInv`: where the loops over sectors and words are, and that the slot of the
  session holds no activated image any more;
- `SaveInv`: during the save between verification and jump the RAM record names the
  verified slot, and S10 is empty when it is about to be written.

`Invariance` proves `Spec => []IInv`, one step per action; `TypeCorrect`
and `OnlyVerifiedImagesRun` follow. `ActivatedImagesStayWhole` and `UpdatesKeepAnImage`
prove the action properties `ActivatedStaysWhole` and `KeepsABootableImage` from it; both
name the one other way an image can be lost, a wrapped OTA_DATA (`StrayWrite`).
`GivesUpLast` needs one
more invariant, `TriedInv`: while the other slot is tried, the active one has been
found unfit, and the record was not changed since.

Then the session, for every image, chunk size and number of attempts, on any line and
with resets and flash faults. `SessionsAreSafe`: with this client `AcceptedIntact` holds
without exception. `ClientInv` says why: every OTA_DATA on the line or in work ends inside
the address space, so no write is a `StrayWrite`. `UpdatesAreSafe` is the same of
`UpdatesKeepOldVersion`, which no run checks. `AcksAreTrue` and `SuccessIsTrue`: the
client is told no more than was done, whatever the line loses or damages and however long
an erase takes, in a session that did not begin in another's work; for the first no
refusal may have been misread, for the second none of OTA_START, since the CRC of
OTA_FINISH covers the chunks. The invariant `SessionIInv`, `Sound => InStep`, says of such
a session that one frame, the work on it or its answer is all there is between client
and device (`OneInv`, `FrameInv`), that the device works in the client's slot with the
client's image on flash that was erased (`SlotInv`, `WorkInv`), and what an ACK under way
stands for (`AckInv`). Outside it ACKs without numbers prove nothing: `ota_stale` is the
counterexample.

**`UartRxProofs`**, for every ring size and for indices that wrap at multiples of it.
`ReceiverListens` is `ListensAfterByte`. `ImplementsQueue` is the safety half of
`Delivers`: every step of handler and task is a step of `ByteQueue` or a stutter. The
work is the arithmetic of the ring, whose head counts modulo its size and whose tail
over the whole `uint16_t`.

**`AppCommandsProofs`**, for any queue lengths, numbers, retries and outstanding commands,
when `Prompt`. `UniqueInv`: of all the frames about no two have one number. `AloneInv`:
of a command that `storage_task` has not taken up there is at most one queued copy or
one result, and then `comm_task` waits for it with a count of 0. So a text's ACK comes
from its own result (`TextAckIsTrue`), and a boot text's second result from
`storage_task` (`BootAckIsTrue`).

**`ScreenProofs`**, for any number of segments, any images and pages, any queue
length, retries and bounds.

- `ScreenTypes`: every variable keeps its type.
- `NoHoles`: `CompleteImagesHaveNoHole`, from `AssemblyInv`: while an image is open,
  the count is the cardinality of the mask and every segment in the mask holds an
  image. When the count reaches the number of segments the mask is therefore full.
- `MenuOnTop`: `[]MenuHoldsScreen`, whose page is any but the preview of the welcome text
  (`screen_welcome`), from `MenuInv`: during a transfer of the menu the
  buffer is a page, and a menu that came up during a flush is still to be drawn.
- `LocalText`: `[]LocalShowsText` under `Load <= DispLen`, from `LocalInv`: the queue
  holds at most the events of the round, so the redraw that `menu_mgr_deactivate`
  sends is queued; and in local mode, outside the menu and with no redraw to come,
  the buffer holds the text and is shown or marked.

**`FrameLinkProofs`**, for every set of messages, every direction and any number of
disturbances. `FrameTypes` holds without more: the parser's state is the one its bytes
call for, and each byte fed brings the end of the frame being read nearer (lemma
`FeedKeeps`, whose `Left` counts the bytes that frame can still take). The other three
assume `IndexHolds`, that no message is long enough to wrap the builder's `uint8_t`;
`frames_long` is what happens otherwise. They need what a parser has taken of a frame
of which `pos` bytes have passed (`Tracks`): the body so far, the body in `WAIT_EOF`
after a good CRC byte, nothing after EOF. The four lemmas `FeedBody`, `FeedCrc`,
`FeedEof` and `FeedIdle` are one byte each, so that no induction over bytes is needed:
the behaviour is the induction.

- `SyncedArrive` and `OneBadByteRejected`, from `CleanInv`. An undisturbed frame is
  tracked. A frame with one wrong byte after LEN is tracked as the body with that byte
  in it, which is as long, until its CRC byte; then the parser is empty. Both leave an
  empty parser to the next frame.
- `LossIsBounded`, from `LossCounted`. The bound is on consecutive intact frames with no
  SOF inside: the count restarts at a disturbance and at a frame with an inner SOF, of
  which nothing is claimed. During an intact frame with no SOF inside, the
  parser is in step with it; or it is empty, past the SOF, and the loss with this frame
  is within the bound; or it is in a false frame, and the bytes missed, those of this
  frame and those the false frame can still take (`Left`) are at most `PROTO_MAX_DATA`
  + 5. When the false frame ends, one more frame is missed at most.

About the CRC they use only that one byte with another value gives another sum
(`CrcOneByteAssumption`): each of the five `crc8_table`s is a permutation of the bytes.

**`KeyTaskProofs`**, first the key driver alone, for all debounce, long-press and repeat
times and any lateness. `SlotInv`: the event in a slot fits what has been handed over of
the key. A sampling call is made only when no slot is filled, hence `OneSlotIsEnough`;
`EventOrder` follows from the slot.

Then the menu with the keys, for every tree of items, window, range of the value and
times. The invariant `Together` (theorem `KeyTaskInvariant`) joins the driver's with

- `MenuInv`: the present list is where the walk from the root along the saved cursors
  ends, each cursor is on an item, the dialogs open and the callback are the selected
  item's (`MenuIsWellFormed`, `DialogsMatch`);
- `PressInv`: a key whose short or long press is still to come, or waits in its slot,
  has not acted since it went down (`OnePressOneStep`);
- `EditInv`: while the value is edited, the menu's copy for KEY4 is `entry`, the value
  with which the dialog was opened (`EditCancelled`).

`ChangesMarked` is proved with them, action by action (`Kept`). `TaskDrivesKeys`: the
task makes of the driver what `KeyDriver` says, anew after each reset. `exit_submenu`
walks down from the root again. `Walk` is a recursive function, so what it computes
along a stack of any depth is an induction over data. `WalkExists` and `WalksAgree` make
it from the least number at which a walk would fail or two would differ, which needs
none of the library's rules with an operator as a parameter; `WalkEmpty` and
`WalkAppend` are what the actions use.

**`WatchdogProofs`**, for all tasks, erase times and stores, from
`Timeout < Period <= Iwdg <= 2 * Period - 2`. `QuietInv`: without silence or erase the
next look comes before the hardware gives up (`ResetHasCause`). `DeadInv`: the look
that finds a task dead is due before a bound that grows by one period with each
configuration stored (`DeadTaskIsNoticed`).

**`GatewayProofs`**, for all queue lengths, list lengths, numbers of messages and of wraps
of the counter. `NumberInv`: `json_mutex` covers everything from reading the number to
entering the command in the list, so that the read and the write-back do not race although
the adapter has no lock for them, and a command has the number of its place in the order,
modulo 256 (`Numbered`). With `PendingInv`, that the list holds each command once, two
pending ones share a number only a whole round apart (`NumbersAreDistinct`). `BuildInv`:
of threads that build at the same time the numbers are marked in `raced`; an unmarked
frame is in the buffer as its thread built it, as far as it has got. `LineInv`: what is
queued is empty, marked or genuine, and an answer under way is of a frame received, or
marked, or of number 0 (`AnswersAreTrue`).

Every safety and action property of the passing runs is proved. Only model-checked are
the liveness properties (`BootsWhenPossible`, `SessionEnds`, `UpgradeSucceeds`,
`CommReturns`, `MenuLeavesScreen`, `HeldKeyRepeats`, `Settles`, the progress half of
`Delivers`), since liveness under fairness and ENABLED are out of the prover's reach.

## 7. What the checks found

One is a run of section 3 that TLC finds violated; PROJECT.json quotes the line.
`gateway_reply`: `tcp_poll` holds `client_mutex` while it calls the message callback, which
sends the reply with `tcp_send`, which takes the same mutex
(`rk3506/src/tcp_server.c:112`). The TCP thread waits for itself for good; with the next
event the main loop waits too.

The seventeen others each check one claim of the repository's texts, and TLC finds each
violated:

| Configuration, module, property | The claim | The code |
|---|---|---|
| `boot_intact_slot`, MCBootloader, `IntactSlotStarts` | `docs/bootloader-design.md:195`: one slot with a good CRC is enough to start | `boot_fw_info.c:114` erases the only record before it writes the new one; a power cut in between leaves a board with two whole images that waits for firmware |
| `boot_offset`, MCBootloader, `AcceptedIntact` | `doc/learn/02-bootloader.md:401`: an update writes the inactive slot, the old one stays valid; `docs/bootloader-design.md:240` names an answer for an offset out of range | `boot_main.c:534`, `:542` add in `uint32_t`: in a session of slot B offset 0xFFFFFFFC passes and programs the last word of slot A. No client of the repository sends one |
| `ota_noise`, MCOtaSession, `RefusalIsReported` | `docs/ota-tool-design.md:94`: a NAK of OTA_FINISH is a failed update | `proto.py:120` looks at the CMD byte alone: a damaged NAK is an ACK, and the tool reports success |
| `ota_stale`, MCOtaSession, `AckConfirmsFrame` | `doc/learn/02-bootloader.md:405`: the ACK confirms that each frame arrived | ACKs carry no number (`ota_client.py:164`): run again in the middle of an erase that outlasted its wait, the client takes the late ACK of the old session for its own, on a line that loses nothing |
| `ota_interrupt`, MCOtaSession, `InterruptEndsSession` | `docs/ota-tool-design.md:195`: Ctrl+C sends an ABORT | `tools/ota_tool/ota_tool.py:95` only ends; the device stays in RECEIVING and refuses the next START |
| `uart_deaf`, MCUartRx, `RecoversFromErrors` | `docs/freertos-port-design.md:421`: reception recovers from errors | `stm32f4xx_hal_uart.c:2416` ends it on an overrun without a byte, and no callback starts it again |
| `commands_stored`, MCAppCommands, `BootAckMeansStored` | `docs/task-refactor-implementation-guide.md:2091`: the ACK comes when the text is stored | `sys_config.c:147`, `:152`: a retry finds the text in RAM and skips the save that failed |
| `screen_local`, MCScreen, `LocalCommandObeyed` | `最终需求文档.md:193`, `docs/protocol-uart.md:79`: local mode from the PC | `user_app.c:369` selects an effect only and acknowledges |
| `screen_menu`, MCScreen, `MenuShowsItsState` | `docs/menu-key-design.md:524`: what a key changes is drawn | `menu_mgr.c:1256` clears the mark a key set during the transfer |
| `screen_redraw`, MCScreen, `RedrawShowsWholeImage` | the comment at `display_mgr.c:853`: a redraw in remote mode shows the image completed last | `display_mgr.c:854` copies the area in which the next image is being put together |
| `screen_welcome`, MCScreen, `WelcomeIsShown` | the comments at `menu_items.c:421`, `:427`: the preview draws the welcome text | `display_mgr_set_text` draws nothing in remote mode (`display_mgr.c:594`), and the menu sends the buffer as it is |
| `frames_long`, MCFrameLink, `SyncedFramesArrive` | `docs/protocol-uart.md:33`: LEN is 0 to 251 | `protocol.c:203`, `rk3506/src/protocol.c:90`: with 250 or 251 data bytes the `uint8_t` index wraps |
| `menu_mode`, MCKeyTask, `ToggleShowsMode` | `docs/menu-design.md:467`, `:619`: `display_mgr_is_remote()` is the only source | `menu_items.c:33`, `:907`: the menu's own copy is set when it opens and by its own toggle |
| `watchdog_store`, MCWatchdog, `NoFalseReset` | `docs/freertos-port-design.md:52`: the watchdog makes no false reset | an erase of 1 to 2 s stops code and tick while the hardware counts 1008 ms; a reset before the record is written makes the next start save, and perhaps be reset, again |
| `gateway_number`, Gateway, `NumberNamesOneFrame` | `docs/protocol-uart.md:202`: numbers count on, and an answer carries the number of its frame | `cmd_dispatcher.c:513` sends the time every second under number 0, and its answer clears the command of number 0 |
| `gateway_mixed`, Gateway, `MixedAnswersAreTrue` | `docs/protocol-uart.md:202` again | `uart_adapter.c:176`: threads build in one buffer without a lock, the CRC last; a valid mixture has one command's number and another's code, and is answered |
| `gateway_untracked`, Gateway, `CommandsAreWaitedFor` | `uart_adapter.h:76`: a command is sent with a wait for its ACK | `uart_adapter.c:156`: with the list full it is sent and forgotten |

Read in the code and in no module: a key outside the menu acts on any of its events
(`user_app.c:176`; `docs/menu-key-design.md:285` names the short press), key event codes
are 1 to 3 where `docs/protocol-uart.md:152` numbers them otherwise, and a long press is
1000 ms (`key_drv.h:17`) where `docs/menu-key-design.md:85` says 2000.

## 8. What is not modelled

- The LED manager and the command line: sequential code that sends the same kinds of
  commands as the menu, and a third-party line editor. Drawing, fonts and board support:
  no state that another part depends on. The PC program's window, preview and Win32 port.
- In the display: images mixed of two (segments carry no image number, `display_mgr.c:547`)
  are reachable and no document rules them out; effects, fades, contrast, status data, sensor texts and power-on
  pictures are one local content. In the menu: what a page looks like, the stored
  selection and the buffer effects of the preview. Menu keys and renders are whole steps:
  the torn read at `menu_mgr.c:398` (a render preempted by a key) is not reached.
- In the command path: mode, time, weather and LED commands (as `text`), the power-on
  type, status reports, the OTA request.
- In the gateway: JSON and base64, sockets, a client's line buffer (an idle client is
  closed after nine empty reads, `tcp_server.c:208`; a line beyond 4096 bytes never
  drains), the reassembly of images for the web page (`cmd_dispatcher.c:294`).
- Milliseconds appear only as what may come before what, except in `KeyDriver` and
  `Watchdog`. The time since the last byte is in no module, so the notice of a silent line
  (`freertos_app.c:217`) is claimed by no property.
- Vendored code (HAL, CMSIS, FreeRTOS, mongoose), nine tenths of the repository's lines,
  is modelled only where the code above relies on it: the receive path of
  `HAL_UART_IRQHandler` in `UartRx`, queues as bounded sequences elsewhere.

## 9. What is left

- A render of the menu in steps, against keys that change the list meanwhile.
- A clock for `AppCommands`, to decide which of two boot texts a retry leaves in flash when
  an erase outlasts the wait (`pc_host/oled_control/main.cpp:113`).
- Reassembly of images in the gateway, against the segments of `Screen`.
