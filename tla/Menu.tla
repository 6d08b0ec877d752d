-------------------------------- MODULE Menu --------------------------------
(***************************************************************************)
(* menu_mgr.c: the menu the four keys drive, over any tree of items, and   *)
(* the menu variables the callbacks of menu_items.c change.                *)
(*                                                                         *)
(* g_menu is the record "menu".  Its four dialog flags are the set "open"; *)
(* its stack has "depth" entries (what lies above is never read, and the   *)
(* tree is no deeper than MENU_MAX_DEPTH).  A list is named by the item    *)
(* whose submenu it is.                                                    *)
(***************************************************************************)
EXTENDS Integers, Sequences

CONSTANTS Items,        \* the items of the tree
          Root,         \* menu_root
          Kind,         \* Kind[i]: the type of item i
          Submenu,      \* Submenu[i]: its items, if it is a SUBMENU
          Rows,         \* Rows[i]: rows of the text of an INFO item
          Checked,      \* Checked[i]: checked_value of a TOGGLE
          Shows,        \* items whose action puts the display in remote mode
          Visible,      \* MENU_ROWS_VISIBLE
          ValueMax, Step  \* of the VALUE item (its minimum is 0)

Kinds == {"SUBMENU", "TOGGLE", "VALUE", "ACTION", "INFO", "PREVIEW", "CONFIRM"}

ASSUME MenuAssumption ==
  /\ Root \in Items /\ Kind \in [Items -> Kinds] /\ Kind[Root] = "SUBMENU"
  /\ Submenu \in [Items -> Seq(Items)]
  /\ \A i \in Items : (Kind[i] = "SUBMENU") <=> (Submenu[i] # <<>>)
  /\ Rows \in [Items -> Nat] /\ Checked \in [Items -> {0, 1}] /\ Shows \subseteq Items
  /\ Visible \in Nat \ {0} /\ ValueMax \in Nat /\ Step \in Nat \ {0}

VARIABLES menu,         \* g_menu
          contrast,     \* g_contrast
          remote_mode,  \* g_remote_mode, the menu's copy of the display's mode
          is_remote     \* display manager: the mode, display_mgr_is_remote()

menuVars == <<menu, contrast, remote_mode, is_remote>>

Dialogs == {"value", "info", "preview", "confirm"}
Lists == {i \in Items : Kind[i] = "SUBMENU"}
Entries == [cursor : Nat, scroll : Nat]

Count(list) == Len(Submenu[list])
Selected == Submenu[menu.current][menu.cursor + 1]
Depth == Len(menu.stack)

\* menu_mgr_init, and menu_mgr_activate: the root list, its first item
AtRoot == [active |-> TRUE, dirty |-> TRUE, current |-> Root, cursor |-> 0, scroll |-> 0,
           stack |-> <<>>, open |-> {}, detail |-> Root, info_row |-> 0, info_total |-> 0,
           backup |-> 0, callback |-> Root]

MenuInit ==
  /\ menu = AtRoot
  /\ contrast = ValueMax
  /\ is_remote = 0 /\ remote_mode = is_remote

-----------------------------------------------------------------------------
(* Positions *)

\* adjust_scroll: where the window of n items goes so that it shows cursor c
AdjustScroll(n, c, s) ==
  LET shown == IF c < s THEN c ELSE IF c >= s + Visible THEN c - Visible + 1 ELSE s
  IN  IF n <= Visible THEN 0
      ELSE IF shown + Visible > n THEN n - Visible ELSE shown

MovedTo(c) ==
  [menu EXCEPT !.cursor = c, !.dirty = TRUE,
               !.scroll = AdjustScroll(Count(menu.current), c, menu.scroll)]

CursorDown ==
  menu' = MovedTo(IF menu.cursor + 1 < Count(menu.current) THEN menu.cursor + 1 ELSE menu.cursor)
CursorUp == menu' = MovedTo(IF menu.cursor > 0 THEN menu.cursor - 1 ELSE 0)

EnterSubmenu(item) ==
  [menu EXCEPT !.stack = Append(@, [cursor |-> menu.cursor, scroll |-> menu.scroll]),
               !.current = item, !.cursor = 0, !.scroll = 0, !.dirty = TRUE]

\* exit_submenu finds the list again by walking from the root along the
\* cursors on the stack.
Walk(stack) ==
  LET down[d \in 0 .. Len(stack)] ==
        IF d = 0 THEN Root ELSE Submenu[down[d - 1]][stack[d].cursor + 1]
  IN  down[Len(stack)]

\* Mutant: the walk is made before the entry is taken off.
ExitToSameList ==
  LET top == menu.stack[Depth]
  IN  [menu EXCEPT !.stack = SubSeq(@, 1, Depth - 1), !.cursor = top.cursor,
                   !.scroll = AdjustScroll(Count(menu.current), top.cursor, top.scroll),
                   !.dirty = TRUE]
ExitSubmenu ==
  LET top == menu.stack[Depth]
      rest == SubSeq(menu.stack, 1, Depth - 1)
      list == Walk(rest)
  IN  [menu EXCEPT !.stack = rest, !.current = list, !.cursor = top.cursor,
                   !.scroll = AdjustScroll(Count(list), top.cursor, top.scroll),
                   !.dirty = TRUE]

GotoRoot == [menu EXCEPT !.stack = <<>>, !.current = Root, !.cursor = 0, !.scroll = 0,
                         !.open = {}, !.dirty = TRUE]

Deactivated == [menu EXCEPT !.active = FALSE, !.dirty = FALSE, !.open = {}]

-----------------------------------------------------------------------------
(* Callbacks.  A command to the display may be refused by a full queue. *)

Opened(dialog) == [menu EXCEPT !.open = @ \cup {dialog}, !.dirty = TRUE]
\* Mutant: what is behind the dialog is not drawn again.
ClosedUnmarked(dialog) == [menu EXCEPT !.open = @ \ {dialog}]
Closed(dialog) == [menu EXCEPT !.open = @ \ {dialog}, !.dirty = TRUE]

\* Mutant: the backup of an earlier editing is kept.
EditValueKept == IF menu.backup = 0 THEN [Opened("value") EXCEPT !.backup = contrast] ELSE Opened("value")
EditValue == [Opened("value") EXCEPT !.backup = contrast]

SetRemote(mode) == is_remote' \in {mode, is_remote}

SetContrast(v) == contrast' = v /\ UNCHANGED <<remote_mode, is_remote>>
\* Mutant: the last step overshoots.
HigherPast(step) == IF contrast < ValueMax THEN contrast + step ELSE ValueMax
Higher(step) == IF contrast + step <= ValueMax THEN contrast + step ELSE ValueMax
Lower(step) == IF contrast >= step THEN contrast - step ELSE 0

Flipped(item) == IF remote_mode = Checked[item] THEN 1 - Checked[item] ELSE Checked[item]

\* handle_confirm
Confirm(item) ==
  \/ /\ Kind[item] = "SUBMENU"
     /\ menu' = EnterSubmenu(item)
     /\ UNCHANGED <<contrast, remote_mode, is_remote>>
  \/ /\ Kind[item] = "TOGGLE"
     /\ remote_mode' = Flipped(item)
     /\ SetRemote(remote_mode')
     /\ menu' = [menu EXCEPT !.dirty = TRUE]
     /\ UNCHANGED contrast
  \/ /\ Kind[item] = "VALUE"
     /\ menu' = EditValue
     /\ UNCHANGED <<contrast, remote_mode, is_remote>>
  \/ /\ Kind[item] = "ACTION"
     /\ IF item \in Shows THEN SetRemote(1) ELSE UNCHANGED is_remote
     /\ UNCHANGED <<menu, contrast, remote_mode>>
  \/ /\ Kind[item] = "INFO"
     /\ menu' = [Opened("info") EXCEPT !.detail = item, !.info_row = 0]
     /\ UNCHANGED <<contrast, remote_mode, is_remote>>
  \/ /\ Kind[item] = "PREVIEW"
     /\ menu' = Opened("preview")
     /\ UNCHANGED <<contrast, remote_mode, is_remote>>
  \/ /\ Kind[item] = "CONFIRM"
     /\ menu' = [Opened("confirm") EXCEPT !.callback = item]
     /\ UNCHANGED <<contrast, remote_mode, is_remote>>

-----------------------------------------------------------------------------
(* menu_mgr_handle_key: the first flag that is set decides *)

Fast == {"LONG_PRESS", "LONG_PRESS_REPEAT"}
Stay == UNCHANGED menuVars
Only(m) == menu' = m /\ UNCHANGED <<contrast, remote_mode, is_remote>>

\* KEY3 also stores the selection, the storage task's business.
PreviewKey(k, e) ==
  IF e = "SHORT_PRESS" /\ k \in {3, 4} THEN Only(Closed("preview")) ELSE Stay

\* KEY3 runs confirm_callback, and both callbacks reset the device.
ConfirmKey(k, e) ==
  IF e = "SHORT_PRESS" /\ k = 4 THEN Only(Closed("confirm")) ELSE Stay
Resets(k, e) ==
  menu.active /\ "preview" \notin menu.open /\ "confirm" \in menu.open /\ k = 3 /\ e = "SHORT_PRESS"

InfoKey(k, e) ==
  IF e = "SHORT_PRESS" /\ k \in {3, 4}
  THEN Only([Closed("info") EXCEPT !.info_row = 0])
  ELSE IF e \in Fast \cup {"SHORT_PRESS"} /\ k = 1 /\ menu.info_row + 4 < menu.info_total
  THEN Only([menu EXCEPT !.info_row = @ + 1, !.dirty = TRUE])
  ELSE IF e \in Fast \cup {"SHORT_PRESS"} /\ k = 2 /\ menu.info_row > 0
  THEN Only([menu EXCEPT !.info_row = @ - 1, !.dirty = TRUE])
  ELSE Stay

EditKey(k, e) ==
  LET step == IF e = "SHORT_PRESS" THEN Step ELSE 5 * Step
  IN  \/ /\ e \in Fast \cup {"SHORT_PRESS"} /\ k \in {1, 2}
         /\ SetContrast(IF k = 1 THEN Lower(step) ELSE Higher(step))
         /\ menu' = [menu EXCEPT !.dirty = TRUE]
      \/ /\ e = "SHORT_PRESS" /\ k = 3
         /\ Only(Closed("value"))
      \/ /\ e = "SHORT_PRESS" /\ k = 4
         /\ SetContrast(menu.backup)
         /\ menu' = Closed("value")
      \/ /\ e = "RELEASE" \/ (k \in {3, 4} /\ e \in Fast)
         /\ Stay

\* Mutant: a key that is held on goes on leaving.
LeavingRepeats == {"SHORT_PRESS", "LONG_PRESS", "LONG_PRESS_REPEAT"}
LeavingEvents == {"SHORT_PRESS", "LONG_PRESS"}

ListKey(k, e) ==
  \/ /\ k \in {1, 2} /\ e \in {"SHORT_PRESS", "LONG_PRESS_REPEAT"}
     /\ IF k = 1 THEN CursorDown ELSE CursorUp
     /\ UNCHANGED <<contrast, remote_mode, is_remote>>
  \/ /\ k = 3 /\ e = "SHORT_PRESS"
     /\ Confirm(Selected)
  \/ /\ k = 4 /\ e \in LeavingEvents
     /\ Only(IF Depth = 0 THEN Deactivated
             ELSE IF e = "SHORT_PRESS" THEN ExitSubmenu ELSE GotoRoot)
  \/ /\ e = "RELEASE" \/ (k \in {1, 2} /\ e = "LONG_PRESS")
        \/ (k = 3 /\ e \in Fast) \/ (k = 4 /\ e \notin LeavingEvents)
     /\ Stay

\* Mutant: keys the page does not use move the list behind it.
HandleKeyInfoLast(k, e) ==
  IF "preview" \in menu.open THEN PreviewKey(k, e)
  ELSE IF "confirm" \in menu.open THEN ConfirmKey(k, e)
  ELSE IF "info" \in menu.open /\ k \in {3, 4} THEN InfoKey(k, e)
  ELSE IF "value" \in menu.open THEN EditKey(k, e)
  ELSE ListKey(k, e)
HandleKey(k, e) ==
  IF "preview" \in menu.open THEN PreviewKey(k, e)
  ELSE IF "confirm" \in menu.open THEN ConfirmKey(k, e)
  ELSE IF "info" \in menu.open THEN InfoKey(k, e)
  ELSE IF "value" \in menu.open THEN EditKey(k, e)
  ELSE ListKey(k, e)

\* menu_mgr_activate: what is not set again keeps its value.
Activate ==
  /\ menu' = [menu EXCEPT !.active = TRUE, !.dirty = TRUE, !.current = Root, !.cursor = 0,
                          !.scroll = 0, !.stack = <<>>, !.open = {}]
  /\ remote_mode' = is_remote
  /\ UNCHANGED <<contrast, is_remote>>

\* menu_mgr_tick in display_task; render_info counts the rows of its text.
Tick ==
  /\ menu.active /\ menu.dirty
  /\ Only(IF "info" \in menu.open /\ "preview" \notin menu.open /\ "confirm" \notin menu.open
          THEN [menu EXCEPT !.dirty = FALSE, !.info_total = Rows[menu.detail]]
          ELSE [menu EXCEPT !.dirty = FALSE])

\* A mode command of the PC program, applied by display_task
PcMode(mode) ==
  /\ is_remote' = mode
  /\ UNCHANGED <<menu, contrast, remote_mode>>

=============================================================================
