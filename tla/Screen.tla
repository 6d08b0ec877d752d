------------------------------- MODULE Screen -------------------------------
(***************************************************************************)
(* What is on the OLED: display_task, the display manager with its frame   *)
(* assembly, the menu as the key task drives it, and the PC program that   *)
(* sends its images in segments. The display manager and the menu draw in  *)
(* the one buffer of the SSD1306 driver; sending it to the glass takes     *)
(* 25 ms, in which the key task (of higher priority) runs.                 *)
(*                                                                         *)
(* A picture says for every segment of the screen what is drawn there:     *)
(* Blank, the Local text, a segment of an image of the PC, or a page of    *)
(* the menu. A page stands for all the menu's state that its rendering     *)
(* shows. Text commands, contrast and status reports are left out: they    *)
(* change no other picture than a mode command does.                       *)
(***************************************************************************)
EXTENDS Naturals, FiniteSets, Sequences

CONSTANTS
  Segs,     \* segments of an image, FRAME_SEG_COUNT
  Images,   \* images the PC program renders
  Pages,    \* pages of the menu
  Welcome,  \* the page that previews the welcome text
  Blank, Local, None,
  DispLen,  \* DISP_CMD_QUEUE_LEN
  Retries,  \* times the PC sends a frame again
  Pending,  \* bound: frames the PC has outstanding; an image is begun when it fits
  Load      \* bound: frames and key events in one round of display_task

ASSUME ScreenAssumption ==
  /\ {Segs, DispLen, Pending, Load} \subseteq Nat \ {0} /\ Retries \in Nat
  /\ Cardinality({Blank, Local, None}) = 3
  /\ {Blank, Local, None} \cap (Images \cup Pages) = {} /\ Images \cap Pages = {}
  /\ Welcome \in Pages

VARIABLES
  mgr,      \* the display manager and the driver's buffer
  screen,   \* the picture on the glass
  menu,     \* g_menu
  dt,       \* display_task: applying commands, sending a menu page, flushing
  drawn,    \* observer: the page the menu drew last, None after a tick without it
  dispQ,    \* g_disp_cmd_queue
  load,     \* frames and key events since display_task emptied its queue
  comm,     \* comm_task: the frame whose result it waits for
  pc,       \* PC program: mode selected, image and segment it sends next
  pending   \* PC program: g_pendingAcks

pcVars == <<pc, pending>>
screenVars == <<mgr, screen, menu, dt, drawn, dispQ, load, comm, pcVars>>

Index == 0..(Segs - 1)
Full(what) == [i \in Index |-> what]
SegmentFrames == [image : Images, seg : Index]
ModeFrames == [remote : BOOLEAN]
Frames == SegmentFrames \cup ModeFrames

\* Display commands; ask is need_result, set by comm_task only.
Segment(f) == [type |-> "segment", image |-> f.image, seg |-> f.seg, ask |-> TRUE]
Remote(on, ask) == [type |-> "remote", on |-> on, ask |-> ask]
Mode(ask) == [type |-> "mode", ask |-> ask]
Redraw == [type |-> "redraw", ask |-> FALSE]
Commands == {Segment(f) : f \in SegmentFrames}
  \cup {Remote(on, ask) : on, ask \in BOOLEAN} \cup {Mode(ask) : ask \in BOOLEAN} \cup {Redraw}

\* The menu is up, and a page waits to be drawn.
Marked(page) == [active |-> TRUE, dirty |-> TRUE, page |-> page]

\* Power-on: local mode, and the menu is up.
ScreenInit ==
  /\ mgr = [remote |-> FALSE, cells |-> Full(Blank), mask |-> {}, received |-> 0,
            open |-> FALSE, buffer |-> Full(Local), dirty |-> FALSE]
  /\ screen = Full(Local)
  /\ \E page \in Pages : menu = Marked(page)
  /\ dt = "apply" /\ drawn = None /\ dispQ = <<>> /\ load = 0
  /\ comm = None
  /\ \E image \in Images : pc = [remote |-> FALSE, image |-> image, seg |-> 0]
  /\ pending = <<>>

-----------------------------------------------------------------------------
(* The display manager *)

\* Entering remote mode empties the assembly area and the buffer.
EnterRemote(m) ==
  [remote |-> TRUE, cells |-> Full(Blank), mask |-> {}, received |-> 0, open |-> FALSE,
   buffer |-> Full(Blank), dirty |-> TRUE]
EnterLocal(m) ==
  [remote |-> FALSE, cells |-> m.cells, mask |-> m.mask, received |-> m.received,
   open |-> m.open, buffer |-> Full(Local), dirty |-> TRUE]
SetRemote(m, on) ==
  IF on = m.remote THEN m ELSE IF on THEN EnterRemote(m) ELSE EnterLocal(m)

\* The text is drawn in remote mode too, but not marked for sending.
SetMode(m) == [m EXCEPT !.buffer = Full(Local), !.dirty = m.dirty \/ ~m.remote]

\* display_mgr_set_text: nothing is drawn in remote mode.
SetText(m) == IF m.remote THEN m ELSE [m EXCEPT !.buffer = Full(Local), !.dirty = TRUE]

\* Mutant: the mark is left to the tick.
RedrawnUnmarked(m) == [m EXCEPT !.buffer = IF m.remote THEN m.cells ELSE Full(Local)]
\* In remote mode what is there of the image being put together is drawn.
Redrawn(m) ==
  [m EXCEPT !.buffer = IF m.remote THEN m.cells ELSE Full(Local), !.dirty = TRUE]

\* display_mgr_rx_frame_seg: segment 0 opens an image; a segment that is there
\* already is refused.
\* Mutant: segments are counted, not told apart.
AcceptsTwice(m, c) == m.remote /\ (c.seg = 0 \/ m.open)
Accepts(m, c) == m.remote /\ (c.seg = 0 \/ (m.open /\ c.seg \notin m.mask))
Opened(m) ==
  [remote |-> m.remote, cells |-> Full(Blank), mask |-> {}, received |-> 0, open |-> TRUE,
   buffer |-> m.buffer, dirty |-> m.dirty]
Stored(m, c) ==
  [remote |-> m.remote,
   cells |-> [i \in Index |-> IF i = c.seg THEN c.image ELSE m.cells[i]],
   mask |-> m.mask \cup {c.seg}, received |-> m.received + 1, open |-> m.open,
   buffer |-> m.buffer, dirty |-> m.dirty]
\* Mutant: the count of a complete image is not reset.
CompletedKeepsCount(m) ==
  [remote |-> m.remote, cells |-> m.cells, mask |-> {}, received |-> m.received,
   open |-> FALSE, buffer |-> m.cells, dirty |-> TRUE]
Completed(m) ==
  [remote |-> m.remote, cells |-> m.cells, mask |-> {}, received |-> 0, open |-> FALSE,
   buffer |-> m.cells, dirty |-> TRUE]
RxFrameSeg(m, c) ==
  LET w == Stored(IF c.seg = 0 THEN Opened(m) ELSE m, c)
  IN IF w.received < Segs THEN w ELSE Completed(w)

Applied(m, c) ==
  IF c.type = "segment" THEN IF Accepts(m, c) THEN RxFrameSeg(m, c) ELSE m
  ELSE IF c.type = "remote" THEN SetRemote(m, c.on)
  ELSE IF c.type = "mode" THEN SetMode(m)
  ELSE Redrawn(m)
Succeeds(m, c) == c.type = "segment" => Accepts(m, c)

-----------------------------------------------------------------------------
(* display_task *)

\* An ACK removes the frame from the PC's list unless the line loses it; NAKs
\* are not looked at. Sequence numbers are left out: the oldest equal frame goes.
PcAck(f) ==
  LET same == {i \in DOMAIN pending : pending[i].frame = f} IN
  \/ UNCHANGED pending
  \/ \E i \in same :
       /\ \A j \in same : i <= j
       /\ pending' = SubSeq(pending, 1, i - 1) \o SubSeq(pending, i + 1, Len(pending))

\* One command off the queue; the result wakes comm_task, which answers at once.
\* Mutant: a complete image is sent to the glass from here, menu or not.
ApplyAndShow ==
  /\ dt = "apply" /\ dispQ # <<>>
  /\ LET c == Head(dispQ) IN
     /\ mgr' = Applied(mgr, c)
     /\ screen' = IF c.type = "segment" /\ mgr.open /\ ~mgr'.open THEN mgr'.buffer ELSE screen
     /\ IF c.ask /\ Succeeds(mgr, c) THEN PcAck(comm) ELSE UNCHANGED pending
     /\ comm' = IF c.ask THEN None ELSE comm
  /\ dispQ' = Tail(dispQ)
  /\ UNCHANGED <<menu, dt, drawn, load, pc>>
Apply ==
  /\ dt = "apply" /\ dispQ # <<>>
  /\ LET c == Head(dispQ) IN
     /\ mgr' = Applied(mgr, c)
     /\ IF c.ask /\ Succeeds(mgr, c) THEN PcAck(comm) ELSE UNCHANGED pending
     /\ comm' = IF c.ask THEN None ELSE comm
  /\ dispQ' = Tail(dispQ)
  /\ UNCHANGED <<screen, menu, dt, drawn, load, pc>>

\* The queue is empty: menu_mgr_tick, if the menu is up, or display_mgr_tick
\* and display_mgr_flush. In local mode the tick may move the text on.
Rendered(m, page) == IF page = Welcome THEN SetText(m) ELSE [m EXCEPT !.buffer = Full(page)]
RenderMenu ==
  /\ dt = "apply" /\ dispQ = <<>> /\ menu.active
  /\ load' = 0
  /\ IF menu.dirty
       THEN dt' = "send" /\ drawn' = menu.page /\ mgr' = Rendered(mgr, menu.page)
       ELSE UNCHANGED <<dt, drawn, mgr>>
  /\ UNCHANGED <<screen, menu, dispQ, comm, pcVars>>
Tick ==
  /\ dt = "apply" /\ dispQ = <<>> /\ ~menu.active
  /\ load' = 0 /\ drawn' = None
  /\ \/ UNCHANGED mgr
     \/ /\ ~mgr.remote
        /\ \E b \in {mgr.buffer, Full(Local)} : mgr' = [mgr EXCEPT !.buffer = b, !.dirty = TRUE]
  /\ dt' = IF mgr'.dirty THEN "flush" ELSE "apply"
  /\ UNCHANGED <<screen, menu, dispQ, comm, pcVars>>

\* ssd1306_update_screen returns, and the mark is taken off.
MenuSent ==
  /\ dt = "send"
  /\ screen' = mgr.buffer
  /\ menu' = [menu EXCEPT !.dirty = FALSE]
  /\ dt' = "apply"
  /\ UNCHANGED <<mgr, drawn, dispQ, load, comm, pcVars>>
Flushed ==
  /\ dt = "flush"
  /\ screen' = mgr.buffer
  /\ mgr' = [mgr EXCEPT !.dirty = FALSE]
  /\ dt' = "apply"
  /\ UNCHANGED <<menu, drawn, dispQ, load, comm, pcVars>>

DisplayTask == Apply \/ RenderMenu \/ Tick \/ MenuSent \/ Flushed

-----------------------------------------------------------------------------
(* key_task *)

\* A command that finds the queue full is dropped.
Send(c) == dispQ' = IF Len(dispQ) < DispLen THEN Append(dispQ, c) ELSE dispQ

KeyEvent == load < Load /\ load' = load + 1

\* The cursor moves, a page opens or closes, a value changes.
Navigate ==
  /\ KeyEvent /\ menu.active
  /\ \E page \in Pages : menu' = Marked(page)
  /\ UNCHANGED <<mgr, screen, dt, drawn, dispQ, comm, pcVars>>

\* The mode toggle also changes the page; the content and effect actions do not.
Toggle(on) ==
  /\ KeyEvent /\ menu.active
  /\ \E page \in Pages : menu' = Marked(page)
  /\ Send(Remote(on, FALSE))
  /\ UNCHANGED <<mgr, screen, dt, drawn, comm, pcVars>>
MenuAction ==
  /\ KeyEvent /\ menu.active
  /\ Send(Remote(TRUE, FALSE)) \/ Send(Mode(FALSE))
  /\ UNCHANGED <<mgr, screen, menu, dt, drawn, comm, pcVars>>

\* Mutant: the display is left to redraw itself.
DeactivateSilently ==
  /\ KeyEvent /\ menu.active
  /\ menu' = [active |-> FALSE, dirty |-> FALSE, page |-> menu.page]
  /\ UNCHANGED <<mgr, screen, dt, drawn, dispQ, comm, pcVars>>
Deactivate ==
  /\ KeyEvent /\ menu.active
  /\ menu' = [active |-> FALSE, dirty |-> FALSE, page |-> menu.page]
  /\ Send(Redraw)
  /\ UNCHANGED <<mgr, screen, dt, drawn, comm, pcVars>>

Activate ==
  /\ KeyEvent /\ ~menu.active
  /\ \E page \in Pages : menu' = Marked(page)
  /\ UNCHANGED <<mgr, screen, dt, drawn, dispQ, comm, pcVars>>

\* KEY1 outside the menu.
NextMode ==
  /\ KeyEvent /\ ~menu.active
  /\ Send(Mode(FALSE))
  /\ UNCHANGED <<mgr, screen, menu, dt, drawn, comm, pcVars>>

KeyTask ==
  \/ Navigate \/ MenuAction \/ Deactivate \/ Activate \/ NextMode
  \/ \E on \in BOOLEAN : Toggle(on)

-----------------------------------------------------------------------------
(* comm_task and the PC program *)

\* The command for a frame. CMD_DISPLAY_MODE without the remote bit selects an
\* effect.
CommandOf(f) ==
  IF f \in SegmentFrames THEN Segment(f)
  ELSE IF f.remote THEN Remote(TRUE, TRUE) ELSE Mode(TRUE)

\* The line loses a frame or brings it to comm_task, which drops it with a NAK
\* or hands the command over and waits. (A frame counts as sent when it is lost
\* or comm_task is free to take it: what the line holds is not observed.)
CommTake(f) ==
  \/ UNCHANGED <<comm, dispQ, load>>
  \/ /\ comm = None /\ load < Load
     /\ load' = load + 1
     /\ IF (f \in SegmentFrames => mgr.remote) /\ Len(dispQ) < DispLen
          THEN comm' = f /\ dispQ' = Append(dispQ, CommandOf(f))
          ELSE UNCHANGED <<comm, dispQ>>

SendCommand(f) ==
  /\ Len(pending) < Pending
  /\ pending' = Append(pending, [frame |-> f, retries |-> 0])
  /\ CommTake(f)
  /\ UNCHANGED <<mgr, screen, menu, dt, drawn>>

\* SendFrameBuffer sends the segments of an image one after the other.
SendFrameBuffer ==
  /\ pc.remote
  /\ pc.seg = 0 => Len(pending) + Segs <= Pending
  /\ SendCommand([image |-> pc.image, seg |-> pc.seg])
  /\ IF pc.seg + 1 < Segs THEN pc' = [pc EXCEPT !.seg = @ + 1]
     ELSE \E image \in Images : pc' = [pc EXCEPT !.seg = 0, !.image = image]

SelectMode(remote) ==
  /\ pc.seg = 0
  /\ SendCommand([remote |-> remote])
  /\ pc' = [pc EXCEPT !.remote = remote]

\* Between images the oldest frame is sent again, or given up.
CheckRetransmit ==
  /\ pending # <<>> /\ pc.seg = 0
  /\ IF Head(pending).retries >= Retries
       THEN pending' = Tail(pending) /\ UNCHANGED <<comm, dispQ, load>>
       ELSE /\ pending' = [pending EXCEPT ![1].retries = @ + 1]
            /\ CommTake(Head(pending).frame)
  /\ UNCHANGED <<mgr, screen, menu, dt, drawn, pc>>

PcProgram ==
  \/ SendFrameBuffer \/ CheckRetransmit
  \/ \E remote \in BOOLEAN : SelectMode(remote)

-----------------------------------------------------------------------------
ScreenNext == DisplayTask \/ KeyTask \/ PcProgram

\* display_task runs every 50 ms; the tasks above it block most of the time.
ScreenSpec == ScreenInit /\ [][ScreenNext]_screenVars /\ WF_screenVars(DisplayTask)

-----------------------------------------------------------------------------
(* Properties *)

Pictures == [Index -> Images \cup Pages \cup {Blank, Local}]
Managers ==
  [remote : BOOLEAN, cells : [Index -> Images \cup {Blank}],
   mask : SUBSET Index, received : 0..(Segs - 1), open : BOOLEAN,
   buffer : Pictures, dirty : BOOLEAN]
Outstanding == [frame : Frames, retries : 0..Retries]

\* The type of every variable.
ScreenTypeOK ==
  /\ mgr \in Managers
  /\ screen \in Pictures
  /\ menu \in [active : BOOLEAN, dirty : BOOLEAN, page : Pages]
  /\ dt \in {"apply", "send", "flush"} /\ drawn \in Pages \cup {None}
  /\ dispQ \in Seq(Commands) /\ Len(dispQ) <= DispLen
  /\ load \in 0..Load
  /\ comm \in Frames \cup {None}
  /\ pc \in [remote : BOOLEAN, image : Images, seg : Index]
  /\ pending \in Seq(Outstanding) /\ Len(pending) <= Pending

\* An image leaves the assembly for the buffer only when each of its segments
\* has come since a segment 0, however segments were lost, repeated and put after
\* others. (What a redraw copies is RedrawShowsWholeImage.)
CompleteImagesHaveNoHole ==
  [][mgr.open /\ mgr.remote /\ mgr'.remote /\ ~mgr'.open =>
       \A i \in Index : mgr'.buffer[i] \in Images]_screenVars

\* While the menu is up and drawn, the glass shows the page drawn last: no image,
\* text or effect that goes on behind it gets through. The preview of the welcome
\* text is WelcomeIsShown.
MenuDrawn == menu.active /\ ~menu.dirty /\ dt = "apply"
MenuHoldsScreen == MenuDrawn /\ drawn # Welcome => screen = Full(drawn)

\* In local mode, outside the menu, a display with nothing left to send shows the
\* local text: nothing of an image or of the menu stays behind.
RedrawQueued == \E i \in DOMAIN dispQ : dispQ[i] = Redraw
LocalShowsText ==
  ~mgr.remote /\ ~mgr.dirty /\ ~menu.active /\ dt = "apply" /\ ~RedrawQueued =>
    screen = Full(Local)

\* A menu that is left disappears from the glass, in either mode.
MenuGone == \A i \in Index : screen[i] \notin Pages
MenuLeavesScreen == (~menu.active /\ ~MenuGone) ~> (menu.active \/ MenuGone)

\* An acknowledged CMD_DISPLAY_MODE without the remote bit leaves the device in
\* local mode (docs/protocol-uart.md:79 and the requirements document).
LocalCommandObeyed ==
  [][(comm \in ModeFrames /\ comm' = None) => (comm.remote \/ ~mgr'.remote)]_screenVars

\* A menu with nothing left to draw has drawn its present state
\* (docs/menu-key-design.md:524: a key marks it and the next tick draws it).
MenuShowsItsState == MenuDrawn => drawn = menu.page

\* A redraw in remote mode shows the image completed last, or an empty screen
\* before the first (display_mgr.c:853).
RedrawShowsWholeImage ==
  [][dispQ # <<>> /\ dispQ' = Tail(dispQ) /\ Head(dispQ) = Redraw /\ mgr.remote =>
       \/ mgr'.buffer = Full(Blank)
       \/ \A i \in Index : mgr'.buffer[i] \in Images]_screenVars

\* The preview of the welcome text shows a text (menu_items.c:420, :427).
WelcomeIsShown == MenuDrawn /\ drawn = Welcome => screen = Full(Local)
=============================================================================
