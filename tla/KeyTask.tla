------------------------------- MODULE KeyTask -------------------------------
(***************************************************************************)
(* key_task: user_app_key_process scans the keys and hands an event to the *)
(* menu while it is active, to the mode keys otherwise.  display_task      *)
(* renders the menu and applies the PC program's mode commands.            *)
(*                                                                         *)
(* "acted" and "entry" are history.                                        *)
(***************************************************************************)
EXTENDS KeyDriver, Menu

VARIABLES acted,   \* KEY3 and KEY4: what the key has done since its press
          entry    \* contrast when the value being edited was opened

vars == <<keyVars, menuVars, acted, entry>>

MaxActed == 2      \* bound of the count

Init ==
  /\ KeyDriverInit
  /\ MenuInit
  /\ acted = [k \in {3, 4} |-> 0]
  /\ entry = 0

-----------------------------------------------------------------------------
\* What the keys can do besides scrolling: open, leave, confirm, switch
Place(m) == <<m.active, m.stack, m.open>>

Acts(k, does) ==
  acted' = [j \in {3, 4} |-> IF j = k /\ does /\ acted[j] < MaxActed THEN acted[j] + 1 ELSE acted[j]]

\* An event while the menu is active
MenuKey(k, d) ==
  LET e == keys[k].pending IN
  /\ TakePending(k, d)
  /\ menu.active /\ ~ Resets(k, e)
  /\ HandleKey(k, e)
  /\ Acts(k, Place(menu') # Place(menu) \/ remote_mode' # remote_mode)
  /\ entry' = IF "value" \notin menu'.open THEN 0
              ELSE IF "value" \in menu.open THEN entry ELSE contrast

\* KEY1 steps the display mode and KEY2 the LED's; a KEY4 long press activates.
ModeKey(k, d) ==
  LET e == keys[k].pending IN
  /\ TakePending(k, d)
  /\ ~ menu.active
  /\ IF k = 4 /\ e = "LONG_PRESS" THEN Activate ELSE UNCHANGED menuVars
  /\ Acts(k, k = 4 /\ e = "LONG_PRESS")
  /\ UNCHANGED entry

\* The two callbacks of CONFIRM items reset the device; it comes back as from
\* power-on (after an update, if that is what was confirmed).
Reset(k, d) ==
  /\ k \in HasPending /\ \A j \in HasPending : k <= j
  /\ Resets(k, keys[k].pending)
  /\ keys' = [j \in KeyIds |-> Released]
  /\ menu' = AtRoot
  /\ contrast' = ValueMax /\ is_remote' = 0 /\ remote_mode' = 0
  /\ told' = {} /\ acted' = [j \in {3, 4} |-> 0] /\ entry' = 0

Scan(d, down) ==
  /\ SampleKeys(d, down)
  \* a key that is up and has no event waiting has done all it will
  /\ acted' = [k \in {3, 4} |-> IF keys[k].stable_state = 1 THEN 0 ELSE acted[k]]
  /\ UNCHANGED <<menuVars, entry>>

KeyProcess ==
  \E d \in 1 .. Late :
    \/ \E k \in KeyIds : MenuKey(k, d) \/ ModeKey(k, d) \/ Reset(k, d)
    \/ \E down \in Downs : Scan(d, down)

DisplayTask ==
  /\ Tick \/ \E mode \in {0, 1} : PcMode(mode)
  /\ UNCHANGED <<keyVars, acted, entry>>

Next == KeyProcess \/ DisplayTask

Spec == Init /\ [][Next]_vars

-----------------------------------------------------------------------------
(* Properties *)

TypeOK ==
  /\ KeyTypeOK
  /\ acted \in [{3, 4} -> 0 .. MaxActed]
  /\ contrast \in 0 .. ValueMax /\ entry \in 0 .. ValueMax
  /\ {remote_mode, is_remote} \subseteq {0, 1}
  /\ menu.current \in Lists /\ menu.open \subseteq Dialogs

\* The list shown is the one the cursors on the stack lead to, the cursor is
\* on one of its items and inside the window, and the window is inside the list.
Framed(list, c, s) ==
  /\ c < Count(list) /\ s <= c /\ c < s + Visible
  /\ (s > 0 => s + Visible <= Count(list))
MenuWellFormed ==
  /\ menu.current = Walk(menu.stack)
  /\ Framed(menu.current, menu.cursor, menu.scroll)
  /\ \A d \in 1 .. Depth :
       Framed(Walk(SubSeq(menu.stack, 1, d - 1)), menu.stack[d].cursor, menu.stack[d].scroll)

\* The kind of item a dialog belongs to
DialogKind(dialog) ==
  IF dialog = "value" THEN "VALUE" ELSE IF dialog = "info" THEN "INFO"
  ELSE IF dialog = "preview" THEN "PREVIEW" ELSE "CONFIRM"

\* At most one dialog is open, only over a list that is shown, and it is the
\* selected item's: the code that renders and confirms does not look again.
DialogIsTheItems ==
  \A dialog \in menu.open :
    /\ menu.active /\ menu.open = {dialog} /\ Kind[Selected] = DialogKind(dialog)
    /\ dialog = "confirm" => menu.callback = Selected
    /\ dialog = "info" => menu.detail = Selected

\* However long KEY3 or KEY4 is held, one press of it opens, leaves, switches
\* or confirms one thing only: the long press that brings the menu up does not
\* go on to leave it, nor does a confirmation confirm what comes next.
OneStepPerPress == acted[3] <= 1 /\ acted[4] <= 1

\* A value edited in any number of steps, short and fast, is back to what it
\* was when KEY4 leaves the editing.
CancelRestores ==
  [][("value" \in menu.open /\ "value" \notin menu'.open /\ keys[4].pending # "NONE"
      /\ keys'[4].pending = "NONE") => contrast' = entry]_vars

\* What the menu shows does not change without being marked for rendering.
View == <<menu.current, menu.cursor, menu.scroll, menu.open, menu.info_row, contrast, remote_mode>>
ChangesAreMarked ==
  [][(menu.active /\ menu'.active /\ View' # View) => menu'.dirty]_vars

\* docs/menu-design.md: display_mgr_is_remote() is the only source of what the
\* TOGGLE items show.
ToggleShowsMode == menu.active /\ ~ menu.dirty => remote_mode = is_remote

=============================================================================
