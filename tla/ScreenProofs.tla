---------------------------- MODULE ScreenProofs ----------------------------
(***************************************************************************)
(* Safety of the display for every number of segments, every set of images *)
(* and menu pages, every bound and any loss: the types, no hole in an      *)
(* image that leaves the assembly, the menu's hold on the glass, and, as   *)
(* long as a round cannot fill the command queue, the text of local mode.  *)
(***************************************************************************)
EXTENDS Screen, TLAPS, FiniteSetTheorems, SequenceTheorems

\* While an image is open the count is the number of its segments that are
\* there, and those that are there hold an image.
Assembly(m) ==
  m.open =>
    /\ m.received = Cardinality(m.mask)
    /\ \A i \in m.mask : m.cells[i] \in Images
AssemblyInv == Assembly(mgr)

\* During the transfer of a page the buffer holds the page drawn last, unless that
\* is the preview of the welcome text; a menu that came up during a flush has not
\* been drawn.
MenuInv ==
  /\ dt = "send" /\ drawn # Welcome => mgr.buffer = Full(drawn)
  /\ dt = "flush" /\ menu.active => menu.dirty
  /\ MenuHoldsScreen

\* In local mode, outside the menu and with no redraw to come, the buffer holds
\* the text, and the glass does too or the buffer is marked for sending.
LocalInv ==
  /\ Len(dispQ) <= load
  /\ ~mgr.remote /\ ~menu.active /\ ~RedrawQueued =>
       /\ dt # "send"
       /\ mgr.buffer = Full(Local)
       /\ mgr.dirty \/ screen = Full(Local)

-----------------------------------------------------------------------------
(* The display manager *)

\* The numbers among the constants.
LEMMA Numbers ==
  /\ Segs \in Nat /\ Segs > 0 /\ DispLen \in Nat /\ DispLen > 0
  /\ Pending \in Nat /\ Load \in Nat /\ Load > 0 /\ Retries \in Nat
  BY ScreenAssumption

\* One picture in every segment is a picture.
LEMMA FullTypes ==
  /\ Full(Blank) \in [Index -> Images \cup {Blank}]
  /\ Full(Blank) \in Pictures /\ Full(Local) \in Pictures
  /\ \A page \in Pages : Full(page) \in Pictures
  BY DEF Full, Pictures

\* An assembly area is a picture.
LEMMA CellsArePicture ==
  ASSUME NEW m \in Managers PROVE m.cells \in Pictures
  BY DEF Managers, Pictures

\* The cells after a segment was put in its place.
LEMMA StoredFields ==
  ASSUME NEW m \in Managers, NEW f \in SegmentFrames
  PROVE  LET w == Stored(m, Segment(f)) IN
         /\ w.cells \in [Index -> Images \cup {Blank}]
         /\ \A i \in Index : w.cells[i] = IF i = f.seg THEN f.image ELSE m.cells[i]
         /\ w.mask = m.mask \cup {f.seg} /\ w.mask \in SUBSET Index
         /\ w.received = m.received + 1
         /\ w.remote = m.remote /\ w.open = m.open
         /\ w.buffer = m.buffer /\ w.dirty = m.dirty
         /\ w = [remote |-> w.remote, cells |-> w.cells, mask |-> w.mask,
                 received |-> w.received, open |-> w.open,
                 buffer |-> w.buffer, dirty |-> w.dirty]
<1>1. PICK p : p = [i \in Index |-> IF i = f.seg THEN f.image ELSE m.cells[i]]
  OBVIOUS
<1>2. /\ p \in [Index -> Images \cup {Blank}]
      /\ \A i \in Index : p[i] = IF i = f.seg THEN f.image ELSE m.cells[i]
  BY <1>1 DEF Managers, SegmentFrames
<1>3. Stored(m, Segment(f)) =
        [remote |-> m.remote, cells |-> p, mask |-> m.mask \cup {f.seg},
         received |-> m.received + 1, open |-> m.open,
         buffer |-> m.buffer, dirty |-> m.dirty]
  BY <1>1 DEF Stored, Segment
<1>4. m.mask \cup {f.seg} \in SUBSET Index
  BY DEF Managers, SegmentFrames
<1>5. QED
  BY <1>2, <1>3, <1>4

\* Opening an image keeps the manager well-typed.
LEMMA OpenedTypes ==
  ASSUME NEW m \in Managers PROVE Opened(m) \in Managers
  BY FullTypes, Numbers DEF Opened, Managers

\* A frame segment keeps the manager well-typed.
LEMMA SegmentTypes ==
  ASSUME NEW m \in Managers, NEW f \in SegmentFrames
  PROVE  RxFrameSeg(m, Segment(f)) \in Managers
<1>1. PICK n \in Managers : n = IF Segment(f).seg = 0 THEN Opened(m) ELSE m
  BY OpenedTypes
<1>2. PICK w : w = Stored(n, Segment(f))
  OBVIOUS
<1>3. w.cells \in Pictures
  BY <1>2, StoredFields DEF Pictures
<1>4. CASE w.received < Segs
  <2>1. w.received \in 0..(Segs - 1)
    BY <1>2, <1>4, StoredFields, Numbers DEF Managers
  <2>2. w \in Managers
    BY <1>2, <2>1, StoredFields DEF Managers
  <2>3. QED
    BY <1>1, <1>2, <1>4, <2>2 DEF RxFrameSeg
<1>5. CASE ~(w.received < Segs)
  <2>1. Completed(w) \in Managers
    BY <1>2, <1>3, StoredFields, Numbers DEF Completed, Managers
  <2>2. QED
    BY <1>1, <1>2, <1>5, <2>1 DEF RxFrameSeg
<1>6. QED
  BY <1>4, <1>5

\* Every command keeps the manager well-typed.
LEMMA AppliedTypes ==
  ASSUME NEW m \in Managers, NEW c \in Commands
  PROVE  Applied(m, c) \in Managers
<1>1. CASE \E f \in SegmentFrames : c = Segment(f)
  BY <1>1, SegmentTypes DEF Applied, Segment
<1>2. CASE \E on, ask \in BOOLEAN : c = Remote(on, ask)
  <2>1. PICK on \in BOOLEAN, ask \in BOOLEAN : c = Remote(on, ask)
    BY <1>2
  <2>2. SetRemote(m, on) \in Managers
    BY FullTypes, Numbers DEF SetRemote, EnterRemote, EnterLocal, Managers
  <2>3. QED
    BY <2>1, <2>2 DEF Applied, Remote
<1>3. CASE \E ask \in BOOLEAN : c = Mode(ask)
  <2>1. SetMode(m) \in Managers
    BY FullTypes DEF SetMode, Managers
  <2>2. QED
    BY <1>3, <2>1 DEF Applied, Mode
<1>4. CASE c = Redraw
  <2>1. Redrawn(m) \in Managers
    BY FullTypes, CellsArePicture DEF Redrawn, Managers
  <2>2. QED
    BY <1>4, <2>1 DEF Applied, Redraw
<1>5. QED
  BY <1>1, <1>2, <1>3, <1>4 DEF Commands

-----------------------------------------------------------------------------
(* Types *)

\* An acknowledgement leaves a list of frames, not longer than before.
LEMMA PcAckTypes ==
  ASSUME ScreenTypeOK, NEW f, PcAck(f)
  PROVE  pending' \in Seq(Outstanding) /\ Len(pending') <= Pending
<1>1. pending \in Seq(Outstanding) /\ Len(pending) <= Pending
  BY DEF ScreenTypeOK
<1>2. CASE UNCHANGED pending
  BY <1>1, <1>2
<1>3. ASSUME NEW i \in 1..Len(pending),
             pending' = SubSeq(pending, 1, i - 1) \o SubSeq(pending, i + 1, Len(pending))
      PROVE  pending' \in Seq(Outstanding) /\ Len(pending') <= Pending
  <2>1. Len(pending) \in Nat /\ \A j \in 1..Len(pending) : pending[j] \in Outstanding
    BY <1>1
  <2>2. /\ SubSeq(pending, 1, i - 1) \in Seq(Outstanding)
        /\ Len(SubSeq(pending, 1, i - 1)) = i - 1
    BY <2>1, SubSeqProperties
  <2>3. /\ SubSeq(pending, i + 1, Len(pending)) \in Seq(Outstanding)
        /\ Len(SubSeq(pending, i + 1, Len(pending))) = Len(pending) - i
    BY <2>1, SubSeqProperties
  <2>4. ASSUME NEW s \in Seq(Outstanding), NEW t \in Seq(Outstanding)
        PROVE  s \o t \in Seq(Outstanding) /\ Len(s \o t) = Len(s) + Len(t)
    BY ConcatProperties
  <2>5. PICK s \in Seq(Outstanding), t \in Seq(Outstanding) :
               pending' = s \o t /\ Len(s) = i - 1 /\ Len(t) = Len(pending) - i
    BY <1>3, <2>2, <2>3
  <2>6. pending' \in Seq(Outstanding) /\ Len(pending') = Len(s) + Len(t)
    BY <2>4, <2>5
  <2>7. QED
    BY <1>1, <2>1, <2>5, <2>6, Numbers
<1>4. DOMAIN pending = 1..Len(pending)
  BY <1>1
<1>5. QED
  BY <1>2, <1>3, <1>4 DEF PcAck

\* What key_task and comm_task put into the command queue keeps its type.
LEMMA SendTypes ==
  ASSUME ScreenTypeOK, NEW c \in Commands, Send(c)
  PROVE  dispQ' \in Seq(Commands) /\ Len(dispQ') <= DispLen
  BY Numbers, AppendProperties DEF ScreenTypeOK, Send

\* The commands of the menu and of frames are commands.
LEMMA CommandTypes ==
  /\ \A f \in Frames : CommandOf(f) \in Commands
  /\ \A on, ask \in BOOLEAN : Remote(on, ask) \in Commands /\ Mode(ask) \in Commands
  /\ Redraw \in Commands
<1>1. \A on, ask \in BOOLEAN : Remote(on, ask) \in Commands /\ Mode(ask) \in Commands
  BY DEF Commands
<1>2. ASSUME NEW f \in Frames PROVE CommandOf(f) \in Commands
  <2>1. CASE f \in SegmentFrames
    BY <2>1 DEF CommandOf, Commands
  <2>2. CASE f \notin SegmentFrames
    <3>1. f.remote \in BOOLEAN
      BY <2>2 DEF Frames, ModeFrames
    <3>2. QED
      BY <1>1, <2>2, <3>1 DEF CommandOf
  <2>3. QED
    BY <2>1, <2>2
<1>3. Redraw \in Commands
  BY DEF Commands
<1>4. QED
  BY <1>1, <1>2, <1>3

\* comm_task keeps its variables well-typed.
LEMMA CommTakeTypes ==
  ASSUME ScreenTypeOK, NEW f \in Frames, CommTake(f)
  PROVE  /\ comm' \in Frames \cup {None}
         /\ dispQ' \in Seq(Commands) /\ Len(dispQ') <= DispLen
         /\ load' \in 0..Load
<1>1. CommandOf(f) \in Commands
  BY CommandTypes
<1>2. CASE UNCHANGED <<comm, dispQ, load>>
  BY <1>2 DEF ScreenTypeOK
<1>3. CASE load < Load /\ load' = load + 1
  <2>1. load' \in 0..Load
    BY <1>3, Numbers DEF ScreenTypeOK
  <2>2. CASE UNCHANGED <<comm, dispQ>>
    BY <2>1, <2>2 DEF ScreenTypeOK
  <2>3. CASE Len(dispQ) < DispLen /\ comm' = f /\ dispQ' = Append(dispQ, CommandOf(f))
    BY <1>1, <2>1, <2>3, Numbers, AppendProperties DEF ScreenTypeOK
  <2>4. QED
    BY <1>3, <2>2, <2>3 DEF CommTake, ScreenTypeOK
<1>4. QED
  BY <1>2, <1>3 DEF CommTake

\* What the PC program sends is put on its list.
LEMMA SendCommandTypes ==
  ASSUME ScreenTypeOK, NEW f \in Frames, SendCommand(f)
  PROVE  pending' \in Seq(Outstanding) /\ Len(pending') <= Pending
<1>1. [frame |-> f, retries |-> 0] \in Outstanding
  BY Numbers DEF Outstanding
<1>2. QED
  BY <1>1, Numbers, AppendProperties DEF ScreenTypeOK, SendCommand

\* The program starts well-typed.
LEMMA InitTypes == ScreenInit => ScreenTypeOK
  BY FullTypes, Numbers DEF ScreenInit, ScreenTypeOK, Managers, Index

\* Steps of display_task keep the types.
LEMMA DisplayTaskTypes == ScreenTypeOK /\ DisplayTask => ScreenTypeOK'
<1> SUFFICES ASSUME ScreenTypeOK, DisplayTask PROVE ScreenTypeOK'
  OBVIOUS
<1>1. CASE Apply
  <2>1. /\ Head(dispQ) \in Commands
        /\ Tail(dispQ) \in Seq(Commands) /\ Len(Tail(dispQ)) <= DispLen
    BY <1>1, HeadTailProperties, Numbers DEF Apply, ScreenTypeOK
  <2>2. mgr' \in Managers
    BY <1>1, <2>1, AppliedTypes DEF Apply, ScreenTypeOK
  <2>3. pending' \in Seq(Outstanding) /\ Len(pending') <= Pending
    BY <1>1, PcAckTypes DEF Apply, ScreenTypeOK
  <2>4. QED
    BY <1>1, <2>1, <2>2, <2>3 DEF Apply, ScreenTypeOK
<1>2. CASE RenderMenu
  <2>1. menu.page \in Pages /\ Full(menu.page) \in Pictures
    BY FullTypes DEF ScreenTypeOK
  <2>2. Rendered(mgr, menu.page) \in Managers
    BY <2>1, FullTypes DEF Rendered, SetText, ScreenTypeOK, Managers
  <2>3. QED
    BY <1>2, <2>1, <2>2, Numbers DEF RenderMenu, ScreenTypeOK, pcVars
<1>3. CASE Tick
  <2>1. mgr \in Managers /\ mgr.buffer \in Pictures
    BY DEF ScreenTypeOK, Managers
  <2>2. mgr' \in Managers
    <3>1. ASSUME NEW b \in Pictures
          PROVE  [mgr EXCEPT !.buffer = b, !.dirty = TRUE] \in Managers
      BY <2>1 DEF Managers
    <3>2. QED
      BY <1>3, <2>1, <3>1, FullTypes DEF Tick
  <2>3. dt' \in {"apply", "send", "flush"} /\ load' \in 0..Load
    BY <1>3, Numbers DEF Tick
  <2>4. QED
    BY <1>3, <2>2, <2>3 DEF Tick, ScreenTypeOK, pcVars
<1>4. CASE MenuSent
  BY <1>4 DEF MenuSent, ScreenTypeOK, Managers, pcVars
<1>5. CASE Flushed
  BY <1>5 DEF Flushed, ScreenTypeOK, Managers, pcVars
<1>6. QED
  BY <1>1, <1>2, <1>3, <1>4, <1>5 DEF DisplayTask

\* Steps of key_task keep the types.
LEMMA KeyTaskTypes == ScreenTypeOK /\ KeyTask => ScreenTypeOK'
<1> SUFFICES ASSUME ScreenTypeOK, KeyTask PROVE ScreenTypeOK'
  OBVIOUS
<1>1. load < Load /\ load' = load + 1 /\ UNCHANGED <<mgr, screen, dt, drawn, comm, pcVars>>
  BY Zenon DEF KeyTask, KeyEvent, Navigate, Toggle, MenuAction, Deactivate, Activate, NextMode
<1>2. menu' \in [active : BOOLEAN, dirty : BOOLEAN, page : Pages]
  <2>1. menu \in [active : BOOLEAN, dirty : BOOLEAN, page : Pages]
    BY DEF ScreenTypeOK
  <2>2. CASE UNCHANGED menu
    BY <2>1, <2>2
  <2>3. CASE \E page \in Pages : menu' = Marked(page)
    BY <2>3 DEF Marked
  <2>4. CASE Deactivate
    BY <2>1, <2>4 DEF Deactivate
  <2>5. QED
    BY <2>2, <2>3, <2>4, Zenon DEF KeyTask, Navigate, Toggle, MenuAction, Activate, NextMode
<1>3. dispQ' = dispQ \/ \E c \in Commands : Send(c)
  BY CommandTypes
     DEF KeyTask, Navigate, Toggle, MenuAction, Deactivate, Activate, NextMode
<1>4. dispQ' \in Seq(Commands) /\ Len(dispQ') <= DispLen
  BY <1>3, SendTypes DEF ScreenTypeOK
<1>5. QED
  BY <1>1, <1>2, <1>4, Numbers DEF ScreenTypeOK, pcVars

\* Steps of the PC program keep the types.
LEMMA PcProgramTypes == ScreenTypeOK /\ PcProgram => ScreenTypeOK'
<1> SUFFICES ASSUME ScreenTypeOK, PcProgram PROVE ScreenTypeOK'
  OBVIOUS
<1>1. CASE SendFrameBuffer
  <2>1. [image |-> pc.image, seg |-> pc.seg] \in Frames
    BY DEF ScreenTypeOK, Frames, SegmentFrames
  <2>2. pc' \in [remote : BOOLEAN, image : Images, seg : Index]
    <3>1. pc \in [remote : BOOLEAN, image : Images, seg : Index]
      BY DEF ScreenTypeOK
    <3>2. CASE pc.seg + 1 < Segs
      <4>1. pc.seg + 1 \in Index
        BY <3>1, <3>2, Numbers DEF Index
      <4>2. pc' = [pc EXCEPT !.seg = pc.seg + 1]
        BY <1>1, <3>2 DEF SendFrameBuffer
      <4>3. QED
        BY <3>1, <4>1, <4>2
    <3>3. CASE ~(pc.seg + 1 < Segs)
      <4>1. 0 \in Index
        BY Numbers DEF Index
      <4>2. PICK image \in Images : pc' = [pc EXCEPT !.seg = 0, !.image = image]
        BY <1>1, <3>3 DEF SendFrameBuffer
      <4>3. QED
        BY <3>1, <4>1, <4>2
    <3>4. QED
      BY <3>2, <3>3
  <2>3. QED
    BY <1>1, <2>1, <2>2, SendCommandTypes, CommTakeTypes
       DEF SendFrameBuffer, SendCommand, ScreenTypeOK
<1>2. ASSUME NEW remote \in BOOLEAN, SelectMode(remote) PROVE ScreenTypeOK'
  <2>1. [remote |-> remote] \in Frames
    BY DEF Frames, ModeFrames
  <2>2. pc' \in [remote : BOOLEAN, image : Images, seg : Index]
    BY <1>2 DEF SelectMode, ScreenTypeOK
  <2>3. QED
    BY <1>2, <2>1, <2>2, SendCommandTypes, CommTakeTypes
       DEF SelectMode, SendCommand, ScreenTypeOK
<1>3. CASE CheckRetransmit
  <2>1. /\ Head(pending) = pending[1] /\ Head(pending) \in Outstanding
        /\ Tail(pending) \in Seq(Outstanding) /\ Len(Tail(pending)) <= Pending
    BY <1>3, HeadTailProperties, Numbers DEF CheckRetransmit, ScreenTypeOK
  <2>2. CASE Head(pending).retries >= Retries
    BY <1>3, <2>1, <2>2 DEF CheckRetransmit, ScreenTypeOK
  <2>3. CASE ~(Head(pending).retries >= Retries)
    <3>1. [pending[1] EXCEPT !.retries = @ + 1] \in Outstanding
      BY SMTT(30), <2>1, <2>3, Numbers DEF Outstanding
    <3>2. pending' \in Seq(Outstanding) /\ Len(pending') <= Pending
      BY SMTT(30), <1>3, <2>3, <3>1, ExceptSeq DEF CheckRetransmit, ScreenTypeOK
    <3>3. Head(pending).frame \in Frames
      BY <2>1 DEF Outstanding
    <3>4. QED
      BY <1>3, <2>3, <3>2, <3>3, CommTakeTypes DEF CheckRetransmit, ScreenTypeOK
  <2>4. QED
    BY <2>2, <2>3
<1>4. QED
  BY <1>1, <1>2, <1>3 DEF PcProgram

\* Every step keeps the types.
LEMMA StepTypes == ScreenTypeOK /\ [ScreenNext]_screenVars => ScreenTypeOK'
<1>1. ScreenTypeOK /\ UNCHANGED screenVars => ScreenTypeOK'
  BY DEF ScreenTypeOK, screenVars, pcVars
<1>2. QED
  BY <1>1, DisplayTaskTypes, KeyTaskTypes, PcProgramTypes DEF ScreenNext

\* Every variable keeps its type.
THEOREM ScreenTypes == ScreenSpec => []ScreenTypeOK
  BY InitTypes, StepTypes, PTL DEF ScreenSpec

-----------------------------------------------------------------------------
(* The assembly of images *)

\* A segment that is accepted keeps Assembly up to the test of the count; if the
\* count is full then every segment is there.
LEMMA StoredAssembly ==
  ASSUME NEW m \in Managers, Assembly(m), m.open, NEW f \in SegmentFrames,
         f.seg \notin m.mask
  PROVE  LET w == Stored(m, Segment(f)) IN
         /\ Assembly(w)
         /\ ~(w.received < Segs) => \A i \in Index : w.cells[i] \in Images
<1>1. PICK w : w = Stored(m, Segment(f))
  OBVIOUS
<1>2. f.seg \in Index /\ f.image \in Images
  BY DEF SegmentFrames
<1>3. IsFiniteSet(Index) /\ Cardinality(Index) = Segs
  BY Numbers, FS_Interval DEF Index
<1>4. IsFiniteSet(m.mask)
  BY <1>3, FS_Subset DEF Managers
<1>5. Cardinality(w.mask) = Cardinality(m.mask) + 1
  <2>1. w.mask = m.mask \cup {f.seg}
    BY <1>1, StoredFields
  <2>2. Cardinality(m.mask \cup {f.seg}) = Cardinality(m.mask) + 1
    BY <1>4, FS_AddElement
  <2>3. QED
    BY <2>1, <2>2
<1>6. w.received = Cardinality(w.mask) /\ w.mask \in SUBSET Index
  BY <1>1, <1>5, StoredFields DEF Assembly
<1>7. \A i \in w.mask : w.cells[i] \in Images
  BY <1>1, <1>2, <1>6, StoredFields DEF Assembly
<1>8. ASSUME ~(w.received < Segs) PROVE w.mask = Index
  <2>1. Cardinality(w.mask) <= Cardinality(Index)
    BY <1>3, <1>6, FS_Subset
  <2>2. m.received \in Nat
    BY Numbers DEF Managers
  <2>3. w.received \in Nat
    BY <1>1, <2>2, StoredFields
  <2>4. Cardinality(w.mask) = Cardinality(Index)
    BY <1>3, <1>6, <1>8, <2>1, <2>3, Numbers
  <2>5. QED
    BY <1>3, <1>6, <2>4, FS_Subset
<1>9. QED
  BY <1>1, <1>6, <1>7, <1>8 DEF Assembly

\* A segment keeps Assembly, and the image it completes has no hole.
LEMMA SegmentAssembly ==
  ASSUME NEW m \in Managers, Assembly(m), NEW f \in SegmentFrames, Accepts(m, Segment(f))
  PROVE  LET r == RxFrameSeg(m, Segment(f)) IN
         /\ Assembly(r)
         /\ ~r.open => \A i \in Index : r.buffer[i] \in Images
<1>1. PICK n : n = IF Segment(f).seg = 0 THEN Opened(m) ELSE m
  OBVIOUS
<1>2. /\ n \in Managers /\ Assembly(n) /\ n.open
      /\ f.seg \notin n.mask
  <2>1. CASE f.seg = 0
    <3>1. n = Opened(m)
      BY <1>1, <2>1 DEF Segment
    <3>2. QED
      BY <3>1, OpenedTypes, FS_EmptySet DEF Opened, Assembly
  <2>2. CASE f.seg # 0
    BY <1>1, <2>2 DEF Segment, Accepts
  <2>3. QED
    BY <2>1, <2>2
<1>3. PICK w : w = Stored(n, Segment(f))
  OBVIOUS
<1>4. /\ Assembly(w) /\ w.open
      /\ ~(w.received < Segs) => \A i \in Index : w.cells[i] \in Images
  BY <1>2, <1>3, StoredAssembly, StoredFields
<1>5. RxFrameSeg(m, Segment(f)) = IF w.received < Segs THEN w ELSE Completed(w)
  BY <1>1, <1>3 DEF RxFrameSeg
<1>6. QED
  BY <1>4, <1>5 DEF Completed, Assembly

\* Every command keeps Assembly, and an image leaves the assembly only whole.
LEMMA AppliedAssembly ==
  ASSUME NEW m \in Managers, Assembly(m), NEW c \in Commands
  PROVE  LET r == Applied(m, c) IN
         /\ Assembly(r)
         /\ m.open /\ m.remote /\ r.remote /\ ~r.open =>
              \A i \in Index : r.buffer[i] \in Images
<1>1. CASE \E f \in SegmentFrames : c = Segment(f)
  <2>1. PICK f \in SegmentFrames : c = Segment(f)
    BY <1>1
  <2>2. Applied(m, c) = IF Accepts(m, c) THEN RxFrameSeg(m, c) ELSE m
    BY <2>1 DEF Applied, Segment
  <2>3. QED
    BY <2>1, <2>2, SegmentAssembly
<1>2. CASE \E on, ask \in BOOLEAN : c = Remote(on, ask)
  <2>1. PICK on \in BOOLEAN, ask \in BOOLEAN : c = Remote(on, ask)
    BY <1>2
  <2>2. Applied(m, c) = SetRemote(m, on)
    BY <2>1 DEF Applied, Remote
  <2>3. m.remote \in BOOLEAN
    BY DEF Managers
  <2>4. QED
    BY <2>2, <2>3 DEF SetRemote, EnterRemote, EnterLocal, Assembly
<1>3. CASE \E ask \in BOOLEAN : c = Mode(ask)
  <2>1. Applied(m, c) = SetMode(m)
    BY <1>3 DEF Applied, Mode
  <2>2. QED
    BY <2>1 DEF SetMode, Assembly, Managers
<1>4. CASE c = Redraw
  <2>1. Applied(m, c) = Redrawn(m)
    BY <1>4 DEF Applied, Redraw
  <2>2. QED
    BY <2>1 DEF Redrawn, Assembly, Managers
<1>5. QED
  BY <1>1, <1>2, <1>3, <1>4 DEF Commands

\* What a step of display_task does to the manager besides applying a command.
LEMMA Drawing ==
  ASSUME ScreenTypeOK, [ScreenNext]_screenVars, ~Apply
  PROVE  /\ mgr'.remote = mgr.remote /\ mgr'.open = mgr.open
         /\ mgr'.mask = mgr.mask /\ mgr'.received = mgr.received
         /\ mgr'.cells = mgr.cells
<1>1. CASE RenderMenu
  BY <1>1 DEF RenderMenu, Rendered, SetText, ScreenTypeOK, Managers
<1>2. CASE Tick
  <2>1. CASE UNCHANGED mgr
    BY <2>1
  <2>2. CASE \E b : mgr' = [mgr EXCEPT !.buffer = b, !.dirty = TRUE]
    BY <2>2 DEF ScreenTypeOK, Managers
  <2>3. QED
    BY <1>2, <2>1, <2>2 DEF Tick
<1>3. CASE Flushed
  BY <1>3 DEF Flushed, ScreenTypeOK, Managers
<1>4. CASE MenuSent \/ KeyTask \/ PcProgram \/ UNCHANGED screenVars
  BY <1>4, Zenon DEF MenuSent, KeyTask, Navigate, Toggle, MenuAction, Deactivate, Activate,
     NextMode, PcProgram, SendFrameBuffer, SelectMode, SendCommand, CheckRetransmit, screenVars
<1>5. QED
  BY <1>1, <1>2, <1>3, <1>4 DEF ScreenNext, DisplayTask

\* Every step keeps AssemblyInv and lets only whole images out.
LEMMA AssemblyStep ==
  ASSUME ScreenTypeOK, AssemblyInv, [ScreenNext]_screenVars
  PROVE  /\ AssemblyInv'
         /\ mgr.open /\ mgr.remote /\ mgr'.remote /\ ~mgr'.open =>
              \A i \in Index : mgr'.buffer[i] \in Images
<1>1. CASE Apply
  <2>1. Head(dispQ) \in Commands /\ mgr \in Managers /\ mgr' = Applied(mgr, Head(dispQ))
    BY <1>1, HeadTailProperties DEF Apply, ScreenTypeOK
  <2>2. QED
    BY <2>1, AppliedAssembly DEF AssemblyInv
<1>2. CASE ~Apply
  BY <1>2, Drawing DEF AssemblyInv, Assembly
<1>3. QED
  BY <1>1, <1>2

\* No image leaves the assembly with a hole, whatever was lost or sent twice.
THEOREM NoHoles == ScreenSpec => CompleteImagesHaveNoHole
<1>1. ScreenInit => AssemblyInv
  BY DEF ScreenInit, AssemblyInv, Assembly
<1>2. ScreenTypeOK /\ AssemblyInv /\ [ScreenNext]_screenVars => AssemblyInv'
  BY AssemblyStep
<1>3. ScreenTypeOK /\ AssemblyInv /\ [ScreenNext]_screenVars =>
        [(mgr.open /\ mgr.remote /\ mgr'.remote /\ ~mgr'.open =>
            \A i \in Index : mgr'.buffer[i] \in Images)]_screenVars
  BY AssemblyStep
<1>4. QED
  BY ScreenTypes, <1>1, <1>2, <1>3, PTL DEF ScreenSpec, CompleteImagesHaveNoHole

-----------------------------------------------------------------------------
(* The menu *)

\* What key_task and the PC program leave alone, and the mark a key event leaves.
LEMMA Events ==
  ASSUME KeyTask \/ PcProgram \/ UNCHANGED screenVars
  PROVE  /\ UNCHANGED <<mgr, screen, dt, drawn>>
         /\ menu' = menu \/ ~menu'.active \/ menu'.dirty
<1>1. CASE PcProgram \/ UNCHANGED screenVars
  BY <1>1, Zenon DEF PcProgram, SendFrameBuffer, SelectMode, SendCommand, CheckRetransmit,
                     screenVars
<1>2. CASE KeyTask
  <2>1. UNCHANGED <<mgr, screen, dt, drawn>>
    BY <1>2, Zenon DEF KeyTask, Navigate, Toggle, MenuAction, Deactivate, Activate, NextMode
  <2>2. menu' = menu \/ (\E page \in Pages : menu' = Marked(page))
          \/ menu' = [active |-> FALSE, dirty |-> FALSE, page |-> menu.page]
    BY <1>2, Zenon DEF KeyTask, Navigate, Toggle, MenuAction, Deactivate, Activate, NextMode
  <2>3. QED
    BY <2>1, <2>2 DEF Marked
<1>3. QED
  BY <1>1, <1>2

\* Every step keeps MenuInv.
LEMMA MenuStep ==
  ASSUME ScreenTypeOK, MenuInv, [ScreenNext]_screenVars
  PROVE  MenuInv'
<1>1. CASE Apply
  BY <1>1 DEF Apply, MenuInv, MenuHoldsScreen, MenuDrawn
<1>2. CASE RenderMenu
  <2>1. CASE menu.dirty
    <3>1. drawn' = menu.page /\ (drawn' # Welcome => mgr'.buffer = Full(drawn'))
      BY <1>2, <2>1 DEF RenderMenu, Rendered, ScreenTypeOK, Managers
    <3>2. QED
      BY <1>2, <2>1, <3>1 DEF RenderMenu, MenuInv, MenuHoldsScreen, MenuDrawn
  <2>2. CASE ~menu.dirty
    BY <1>2, <2>2 DEF RenderMenu, MenuInv, MenuHoldsScreen, MenuDrawn
  <2>3. QED
    BY <2>1, <2>2
<1>3. CASE Tick
  BY <1>3 DEF Tick, MenuInv, MenuHoldsScreen, MenuDrawn
<1>4. CASE MenuSent
  BY <1>4 DEF MenuSent, MenuInv, MenuHoldsScreen, MenuDrawn
<1>5. CASE Flushed
  BY <1>5 DEF Flushed, MenuInv, MenuHoldsScreen, MenuDrawn
<1>6. CASE KeyTask \/ PcProgram \/ UNCHANGED screenVars
  <2>1. /\ UNCHANGED <<mgr, screen, dt, drawn>>
        /\ menu' = menu \/ ~menu'.active \/ menu'.dirty
    BY <1>6, Events
  <2>2. QED
    BY <2>1 DEF MenuInv, MenuHoldsScreen, MenuDrawn
<1>7. QED
  BY <1>1, <1>2, <1>3, <1>4, <1>5, <1>6 DEF ScreenNext, DisplayTask

\* Nothing that goes on behind the menu gets through to the glass: it shows the page
\* the menu drew last, unless that is the preview of the welcome text.
THEOREM MenuOnTop == ScreenSpec => []MenuHoldsScreen
<1>1. ScreenInit => MenuInv
  BY DEF ScreenInit, MenuInv, MenuHoldsScreen, MenuDrawn, Marked
<1>2. ScreenTypeOK /\ MenuInv /\ [ScreenNext]_screenVars => MenuInv'
  BY MenuStep
<1>3. MenuInv => MenuHoldsScreen
  BY DEF MenuInv
<1>4. QED
  BY ScreenTypes, <1>1, <1>2, <1>3, PTL DEF ScreenSpec

-----------------------------------------------------------------------------
(* Local mode *)

\* A redraw in the queue stays there when something is put behind it.
LEMMA RedrawStays ==
  ASSUME ScreenTypeOK, NEW c \in Commands,
         dispQ' = dispQ \/ dispQ' = Append(dispQ, c)
  PROVE  RedrawQueued => RedrawQueued'
<1>1. dispQ \in Seq(Commands)
  BY DEF ScreenTypeOK
<1>2. ASSUME NEW i \in DOMAIN dispQ, dispQ[i] = Redraw, dispQ' = Append(dispQ, c)
      PROVE  i \in DOMAIN dispQ' /\ dispQ'[i] = Redraw
  BY <1>1, <1>2, AppendProperties
<1>3. QED
  BY <1>2 DEF RedrawQueued

\* While a round cannot fill the queue, what is sent is queued.
LEMMA SendQueues ==
  ASSUME ScreenTypeOK, Load <= DispLen, Len(dispQ) <= load, KeyEvent,
         NEW c \in Commands, Send(c)
  PROVE  /\ dispQ' = Append(dispQ, c) /\ Len(dispQ') = Len(dispQ) + 1
         /\ c = Redraw => RedrawQueued'
<1>1. dispQ \in Seq(Commands) /\ Len(dispQ) \in Nat /\ load \in Nat
  BY Numbers DEF ScreenTypeOK
<1>2. dispQ' = Append(dispQ, c)
  BY <1>1, Numbers DEF KeyEvent, Send
<1>3. /\ Len(dispQ') = Len(dispQ) + 1
      /\ dispQ'[Len(dispQ) + 1] = c /\ Len(dispQ) + 1 \in DOMAIN dispQ'
  BY <1>1, <1>2, AppendProperties
<1>4. QED
  BY <1>2, <1>3 DEF RedrawQueued

\* A command leaves the text in the buffer or was the redraw.
LEMMA AppliedLocal ==
  ASSUME NEW m \in Managers, NEW c \in Commands
  PROVE  LET r == Applied(m, c) IN
         ~r.remote =>
           (r = m /\ c # Redraw) \/ (r.buffer = Full(Local) /\ r.dirty)
<1>1. CASE \E f \in SegmentFrames : c = Segment(f)
  <2>1. PICK f \in SegmentFrames : c = Segment(f)
    BY <1>1
  <2>2. Applied(m, c) = (IF Accepts(m, c) THEN RxFrameSeg(m, c) ELSE m) /\ c # Redraw
    BY <2>1 DEF Applied, Segment, Redraw
  <2>3. RxFrameSeg(m, c).remote = m.remote
    BY DEF RxFrameSeg, Stored, Opened, Completed
  <2>4. QED
    BY <2>2, <2>3 DEF Accepts
<1>2. CASE \E on, ask \in BOOLEAN : c = Remote(on, ask)
  <2>1. PICK on \in BOOLEAN, ask \in BOOLEAN : c = Remote(on, ask)
    BY <1>2
  <2>2. Applied(m, c) = SetRemote(m, on) /\ c # Redraw
    BY <2>1 DEF Applied, Remote, Redraw
  <2>3. QED
    BY <2>2 DEF SetRemote, EnterRemote, EnterLocal
<1>3. CASE \E ask \in BOOLEAN : c = Mode(ask)
  <2>1. Applied(m, c) = SetMode(m)
    BY <1>3 DEF Applied, Mode
  <2>2. QED
    BY <2>1 DEF SetMode, Managers
<1>4. CASE c = Redraw
  <2>1. Applied(m, c) = Redrawn(m)
    BY <1>4 DEF Applied, Redraw
  <2>2. QED
    BY <2>1 DEF Redrawn, Managers
<1>5. QED
  BY <1>1, <1>2, <1>3, <1>4 DEF Commands

\* Every step keeps LocalInv.
LEMMA LocalStep ==
  ASSUME Load <= DispLen, ScreenTypeOK, LocalInv, [ScreenNext]_screenVars
  PROVE  LocalInv'
<1>1. dispQ \in Seq(Commands) /\ Len(dispQ) \in Nat /\ load \in Nat /\ mgr \in Managers
  BY Numbers DEF ScreenTypeOK
<1>2. CASE Apply
  <2>1. /\ Head(dispQ) \in Commands /\ Head(dispQ) = dispQ[1]
        /\ Len(dispQ') = Len(dispQ) - 1
        /\ \A i \in DOMAIN dispQ \ {1} : i - 1 \in DOMAIN dispQ' /\ dispQ'[i - 1] = dispQ[i]
    BY <1>1, <1>2, HeadTailProperties DEF Apply
  <2>2. RedrawQueued /\ Head(dispQ) # Redraw => RedrawQueued'
    BY <2>1 DEF RedrawQueued
  <2>3. /\ UNCHANGED <<screen, menu, dt, load>> /\ dt = "apply"
        /\ mgr' = Applied(mgr, Head(dispQ))
    BY <1>2 DEF Apply
  <2>4. Len(dispQ') <= load'
    BY <1>1, <2>1, <2>3 DEF LocalInv
  <2>5. ~mgr'.remote =>
          (mgr' = mgr /\ Head(dispQ) # Redraw) \/ (mgr'.buffer = Full(Local) /\ mgr'.dirty)
    BY <1>1, <2>1, <2>3, AppliedLocal
  <2>6. QED
    BY <2>2, <2>3, <2>4, <2>5 DEF LocalInv
<1>3. CASE RenderMenu
  BY <1>1, <1>3 DEF RenderMenu, LocalInv
<1>4. CASE Tick
  <2>1. Len(dispQ') = 0 /\ load' = 0 /\ UNCHANGED <<screen, menu, dispQ>> /\ dt' # "send"
    BY <1>4 DEF Tick
  <2>2. RedrawQueued' = RedrawQueued
    BY <2>1 DEF RedrawQueued
  <2>3. \/ UNCHANGED mgr
        \/ /\ mgr'.buffer \in {mgr.buffer, Full(Local)}
           /\ mgr'.dirty /\ mgr'.remote = mgr.remote
    BY <1>1, <1>4 DEF Tick, Managers
  <2>4. QED
    BY <2>1, <2>2, <2>3 DEF LocalInv
<1>5. CASE MenuSent
  <2>1. /\ UNCHANGED <<mgr, dispQ, load>> /\ menu'.active = menu.active /\ dt = "send"
        /\ RedrawQueued' = RedrawQueued
    BY <1>5 DEF MenuSent, ScreenTypeOK, RedrawQueued
  <2>2. QED
    BY <2>1 DEF LocalInv
<1>6. CASE Flushed
  <2>1. /\ UNCHANGED <<menu, dispQ, load>> /\ dt' = "apply" /\ screen' = mgr.buffer
        /\ RedrawQueued' = RedrawQueued
        /\ mgr'.buffer = mgr.buffer /\ mgr'.remote = mgr.remote
    BY <1>1, <1>6 DEF Flushed, Managers, RedrawQueued
  <2>2. QED
    BY <2>1 DEF LocalInv
<1>7. CASE KeyTask
  <2>1. UNCHANGED <<mgr, screen, dt, drawn>> /\ KeyEvent
    BY <1>7, Events, Zenon
       DEF KeyTask, Navigate, Toggle, MenuAction, Deactivate, Activate, NextMode
  <2>2. ASSUME NEW c \in Commands, Send(c)
        PROVE  /\ Len(dispQ') <= load' /\ (RedrawQueued => RedrawQueued')
               /\ c = Redraw => RedrawQueued'
    <3>1. /\ dispQ' = Append(dispQ, c) /\ Len(dispQ') = Len(dispQ) + 1
          /\ c = Redraw => RedrawQueued'
      BY <2>1, <2>2, SendQueues DEF LocalInv
    <3>2. QED
      BY <1>1, <2>1, <3>1, RedrawStays DEF KeyEvent, LocalInv
  <2>3. CASE Deactivate
    BY <2>1, <2>2, <2>3, CommandTypes DEF Deactivate, LocalInv
  <2>4. CASE Navigate \/ Activate
    <3>1. menu'.active /\ dispQ' = dispQ
      BY <2>4 DEF Navigate, Activate, Marked
    <3>2. QED
      BY <1>1, <2>1, <3>1 DEF KeyEvent, LocalInv
  <2>5. CASE MenuAction \/ NextMode \/ \E on \in BOOLEAN : Toggle(on)
    <3>1. \E c \in Commands : Send(c)
      BY <2>5, CommandTypes, Zenon DEF MenuAction, NextMode, Toggle
    <3>2. menu' = menu \/ \E page \in Pages : menu' = Marked(page)
      BY <2>5, Zenon DEF MenuAction, NextMode, Toggle
    <3>3. menu' = menu \/ menu'.active
      BY <3>2 DEF Marked
    <3>4. QED
      BY <2>1, <2>2, <3>1, <3>3 DEF LocalInv
  <2>6. QED
    BY <1>7, <2>3, <2>4, <2>5 DEF KeyTask
<1>8. CASE PcProgram \/ UNCHANGED screenVars
  <2>1. UNCHANGED <<mgr, screen, dt, menu>>
    BY <1>8, Zenon DEF PcProgram, SendFrameBuffer, SelectMode, SendCommand, CheckRetransmit,
                       screenVars
  <2>2. \/ UNCHANGED <<dispQ, load>>
        \/ load' = load + 1 /\ \E c \in Commands : dispQ' = dispQ \/ dispQ' = Append(dispQ, c)
    <3>1. ASSUME NEW f \in Frames, CommTake(f)
          PROVE  \/ UNCHANGED <<dispQ, load>>
                 \/ /\ load' = load + 1
                    /\ \E c \in Commands : dispQ' = dispQ \/ dispQ' = Append(dispQ, c)
      BY <3>1, CommandTypes DEF CommTake
    <3>2. CASE SendFrameBuffer
      <4>1. [image |-> pc.image, seg |-> pc.seg] \in Frames
        BY DEF ScreenTypeOK, Frames, SegmentFrames
      <4>2. QED
        BY <3>1, <3>2, <4>1 DEF SendFrameBuffer, SendCommand
    <3>3. CASE \E remote \in BOOLEAN : SelectMode(remote)
      <4>1. \A remote \in BOOLEAN : [remote |-> remote] \in Frames
        BY DEF Frames, ModeFrames
      <4>2. QED
        BY <3>1, <3>3, <4>1 DEF SelectMode, SendCommand
    <3>4. CASE CheckRetransmit
      <4>1. pending # <<>> => Head(pending).frame \in Frames
        <5>1. pending # <<>> => Head(pending) \in Outstanding
          BY HeadTailProperties DEF ScreenTypeOK
        <5>2. QED
          BY <5>1 DEF Outstanding
      <4>2. QED
        BY <3>1, <3>4, <4>1 DEF CheckRetransmit
    <3>5. QED
      BY <1>8, <3>2, <3>3, <3>4 DEF PcProgram, screenVars
  <2>3. CASE UNCHANGED <<dispQ, load>>
    BY <2>1, <2>3 DEF LocalInv, RedrawQueued
  <2>4. ASSUME load' = load + 1, NEW c \in Commands,
               dispQ' = dispQ \/ dispQ' = Append(dispQ, c)
        PROVE  LocalInv'
    <3>1. Len(dispQ') <= Len(dispQ) + 1 /\ Len(dispQ') \in Nat
      BY <1>1, <2>4, AppendProperties
    <3>2. RedrawQueued => RedrawQueued'
      BY <2>4, RedrawStays
    <3>3. QED
      BY <1>1, <2>1, <2>4, <3>1, <3>2 DEF LocalInv
  <2>5. QED
    BY <2>2, <2>3, <2>4
<1>9. QED
  BY <1>2, <1>3, <1>4, <1>5, <1>6, <1>7, <1>8 DEF ScreenNext, DisplayTask

\* While a round cannot fill the command queue, the redraw that takes the menu
\* away is never lost, and local mode shows its text.
THEOREM LocalText ==
  ASSUME Load <= DispLen
  PROVE  ScreenSpec => []LocalShowsText
<1>1. ScreenInit => LocalInv
  BY DEF ScreenInit, LocalInv, Marked
<1>2. ScreenTypeOK /\ LocalInv /\ [ScreenNext]_screenVars => LocalInv'
  BY LocalStep
<1>3. LocalInv => LocalShowsText
  BY DEF LocalInv, LocalShowsText
<1>4. QED
  BY ScreenTypes, <1>1, <1>2, <1>3, PTL DEF ScreenSpec
=============================================================================
