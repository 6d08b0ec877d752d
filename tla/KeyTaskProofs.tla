-------------------------- MODULE KeyTaskProofs --------------------------
(***************************************************************************)
(* Safety of the key driver for every debounce count, every long press and *)
(* repeat time and any lateness of the calls (its types, the one slot per  *)
(* key, the order of the events), and of the keys, the menu and            *)
(* display_task together for every tree of items, every window and every   *)
(* range of the edited value.                                              *)
(*                                                                         *)
(* The invariant of the whole, Together, says of the keys what their slots *)
(* may hold and how often they have acted; of the menu, that list, cursor, *)
(* window and stack are where the walk from the root puts them and that a  *)
(* dialog is the selected item's; and of an editing, that its backup is    *)
(* the value it began with.                                                *)
(***************************************************************************)
EXTENDS KeyTask, TLAPS, SequenceTheorems, WellFoundedInduction

-----------------------------------------------------------------------------
(* The key driver *)

\* What a key's slot holds, against the level, the long press mark and the
\* events handed over so far: "in" says whether the key is in told.
Fits(key, in) ==
  /\ key.long_press_fired => key.stable_state = 0
  /\ key.pending \in {"NONE", "LONG_PRESS_REPEAT"} => (in <=> key.long_press_fired)
  /\ key.pending \in {"SHORT_PRESS", "LONG_PRESS"} => ~ in
  /\ key.pending \in {"RELEASE", "LONG_PRESS_REPEAT"} => in
  /\ key.pending \in {"SHORT_PRESS", "RELEASE"} => ~ key.long_press_fired
  /\ key.pending = "LONG_PRESS" => key.long_press_fired

SlotInv == \A k \in KeyIds : Fits(keys[k], k \in told)

-----------------------------------------------------------------------------
(* One key *)

\* The numbers among the constants.
LEMMA Numbers ==
  /\ Debounce \in Nat /\ Debounce > 0 /\ LongPress \in Nat /\ Repeat \in Nat
  /\ Late \in Nat /\ MaxSince \in Nat
  BY KeyAssumption DEF MaxSince

\* The debounce count stays between 0 and DEBOUNCE_SAMPLES.
LEMMA CountedType ==
  ASSUME NEW key \in KeyRecords, NEW raw \in {0, 1}
  PROVE  Counted(key, raw) \in 0 .. Debounce
  BY Numbers DEF Counted, KeyRecords

\* The clock of a key stays between 0 and its bound.
LEMMA ElapsedType ==
  ASSUME NEW key \in KeyRecords, NEW d \in 1 .. Late
  PROVE  Elapsed(key, d) \in 0 .. MaxSince
<1>1. key.since \in 0 .. MaxSince
  BY DEF KeyRecords
<1>2. QED
  BY <1>1, Numbers DEF Elapsed

\* What a sampling scan builds is a key.
LEMMA SampledType ==
  ASSUME NEW key \in KeyRecords, NEW raw \in {0, 1}, NEW stable \in {0, 1},
         NEW since \in 0 .. MaxSince, NEW fired \in BOOLEAN,
         NEW pending \in KeyEvents \cup {"NONE"}
  PROVE  LET s == Sampled(key, raw, stable, since, fired, pending) IN
         /\ s \in KeyRecords
         /\ s.stable_state = stable /\ s.long_press_fired = fired /\ s.pending = pending
  BY CountedType DEF Sampled, KeyRecords

\* A sampling scan, which finds no event waiting, leaves a key that fits.
LEMMA SampleKeyFits ==
  ASSUME NEW key \in KeyRecords, NEW raw \in {0, 1}, NEW d \in 1 .. Late,
         NEW in \in BOOLEAN, key.pending = "NONE", Fits(key, in)
  PROVE  SampleKey(key, raw, d) \in KeyRecords /\ Fits(SampleKey(key, raw, d), in)
<1> DEFINE s == SampleKey(key, raw, d)
<1>0. /\ key.stable_state \in {0, 1} /\ key.long_press_fired \in BOOLEAN
      /\ 0 \in 0 .. MaxSince /\ Elapsed(key, d) \in 0 .. MaxSince
      /\ key.pending \in KeyEvents \cup {"NONE"}
  BY Numbers, ElapsedType DEF KeyRecords
<1>1. CASE Settles(key, raw) /\ raw = 0
  <2>1. s = Pressed(key) /\ key.stable_state = 1
    BY <1>0, <1>1 DEF SampleKey, Settles
  <2>2. /\ Pressed(key) \in KeyRecords /\ Pressed(key).stable_state = 0
        /\ Pressed(key).long_press_fired = FALSE /\ Pressed(key).pending = "NONE"
    BY <1>0, CountedType DEF Pressed, Sampled, KeyRecords
  <2>3. QED
    BY <2>1, <2>2 DEF Fits
<1>2. CASE Settles(key, raw) /\ raw # 0
  <2>1. s = LetGo(key)
    BY <1>2 DEF SampleKey
  <2>2. /\ LetGo(key) \in KeyRecords /\ LetGo(key).stable_state = 1
        /\ LetGo(key).long_press_fired = FALSE
        /\ LetGo(key).pending = IF key.long_press_fired THEN "RELEASE" ELSE "SHORT_PRESS"
    BY <1>0, <1>2, CountedType DEF LetGo, Sampled, KeyRecords, KeyEvents
  <2>3. QED
    BY <2>1, <2>2 DEF Fits
<1>3. CASE ~ Settles(key, raw) /\ LongFires(key, d)
  <2>1. s = Sampled(key, raw, 0, 0, TRUE, "LONG_PRESS")
    BY <1>3 DEF SampleKey
  <2>2. s \in KeyRecords /\ s.stable_state = 0 /\ s.long_press_fired = TRUE /\ s.pending = "LONG_PRESS"
    BY <1>0, <2>1, CountedType DEF Sampled, KeyRecords, KeyEvents
  <2>3. QED
    BY <1>3, <2>2 DEF Fits, LongFires
<1>4. CASE ~ Settles(key, raw) /\ ~ LongFires(key, d) /\ RepeatFires(key, d)
  <2>1. s = Sampled(key, raw, 0, 0, TRUE, "LONG_PRESS_REPEAT")
    BY <1>4 DEF SampleKey
  <2>2. /\ s \in KeyRecords /\ s.stable_state = 0 /\ s.long_press_fired = TRUE
        /\ s.pending = "LONG_PRESS_REPEAT"
    BY <1>0, <2>1, CountedType DEF Sampled, KeyRecords, KeyEvents
  <2>3. QED
    BY <1>4, <2>2 DEF Fits, RepeatFires
<1>5. CASE ~ Settles(key, raw) /\ ~ LongFires(key, d) /\ ~ RepeatFires(key, d)
  <2>1. s = Sampled(key, raw, key.stable_state, Elapsed(key, d), key.long_press_fired, key.pending)
    BY <1>5 DEF SampleKey
  <2>2. /\ s \in KeyRecords /\ s.stable_state = key.stable_state
        /\ s.long_press_fired = key.long_press_fired /\ s.pending = key.pending
    BY <1>0, <2>1, SampledType
  <2>3. QED
    BY <2>2 DEF Fits
<1>6. QED
  BY <1>1, <1>2, <1>3, <1>4, <1>5

\* A scan that samples nothing changes a key's slot and clock only.
LEMMA WaitedType ==
  ASSUME NEW key \in KeyRecords, NEW d \in 1 .. Late,
         NEW pending \in KeyEvents \cup {"NONE"}
  PROVE  LET w == Waited(key, pending, d) IN
         /\ w \in KeyRecords /\ w.pending = pending
         /\ w.stable_state = key.stable_state /\ w.long_press_fired = key.long_press_fired
  BY ElapsedType DEF Waited, KeyRecords

-----------------------------------------------------------------------------
(* The calls *)

\* A call that hands over an event empties that key's slot and no other.
LEMMA TakePendingKeeps ==
  ASSUME KeyTypeOK, SlotInv, NEW d \in 1 .. Late, NEW k \in KeyIds, TakePending(k, d)
  PROVE  /\ KeyTypeOK' /\ SlotInv'
         /\ keys[k].pending # "NONE" /\ keys'[k].pending = "NONE"
         /\ \A j \in KeyIds : j # k => keys'[j].pending = keys[j].pending
<1>1. ASSUME NEW j \in KeyIds
      PROVE  /\ keys[j] \in KeyRecords /\ keys'[j] \in KeyRecords
             /\ keys'[j].pending = IF j = k THEN "NONE" ELSE keys[j].pending
             /\ keys'[j].stable_state = keys[j].stable_state
             /\ keys'[j].long_press_fired = keys[j].long_press_fired
  <2>1. keys[j] \in KeyRecords
    BY DEF KeyTypeOK
  <2>2. (IF j = k THEN "NONE" ELSE keys[j].pending) \in KeyEvents \cup {"NONE"}
    BY <2>1 DEF KeyRecords
  <2>3. keys'[j] = Waited(keys[j], IF j = k THEN "NONE" ELSE keys[j].pending, d)
    BY DEF TakePending
  <2>4. QED
    BY <2>1, <2>2, <2>3, WaitedType
<1>2. keys[k].pending # "NONE"
  BY DEF TakePending, HasPending
<1>3. \A j \in KeyIds : j # k => (j \in told' <=> j \in told)
  BY DEF TakePending
<1>4. k \in told' <=> (keys[k].pending = "LONG_PRESS"
                       \/ (k \in told /\ keys[k].pending # "RELEASE"))
  BY DEF TakePending
<1>5. told' \subseteq KeyIds
  BY DEF TakePending, KeyTypeOK
<1>6. keys' \in [KeyIds -> KeyRecords]
  <2>1. keys' = [j \in KeyIds |-> keys'[j]]
    BY DEF TakePending
  <2>2. QED
    BY <1>1, <2>1
<1>7. ASSUME NEW j \in KeyIds
      PROVE  Fits(keys'[j], j \in told')
  <2>1. keys[j] \in KeyRecords /\ Fits(keys[j], j \in told)
    BY <1>1 DEF SlotInv
  <2>2. CASE j # k
    BY <1>1, <1>3, <2>1, <2>2 DEF Fits
  <2>3. CASE j = k
    <3>1. keys[k].pending \in KeyEvents
      BY <1>2, <2>1, <2>3 DEF KeyRecords
    <3>2. QED
      BY <1>1, <1>4, <2>1, <2>3, <3>1 DEF Fits, KeyEvents
  <2>4. QED
    BY <2>2, <2>3
<1>8. QED
  BY <1>1, <1>2, <1>5, <1>6, <1>7 DEF KeyTypeOK, SlotInv

\* A call that samples finds every slot empty.
LEMMA SampleKeysKeeps ==
  ASSUME KeyTypeOK, SlotInv, NEW d \in 1 .. Late, NEW down \in Downs, SampleKeys(d, down)
  PROVE  KeyTypeOK' /\ SlotInv' /\ \A k \in KeyIds : keys[k].pending = "NONE"
<1>1. \A k \in KeyIds : keys[k].pending = "NONE"
  BY DEF SampleKeys, HasPending
<1>2. ASSUME NEW k \in KeyIds
      PROVE  keys'[k] \in KeyRecords /\ Fits(keys'[k], k \in told')
  <2>1. keys[k] \in KeyRecords /\ Fits(keys[k], k \in told) /\ (k \in told) \in BOOLEAN
    BY DEF KeyTypeOK, SlotInv
  <2>2. (IF k \in down THEN 0 ELSE 1) \in {0, 1}
    OBVIOUS
  <2>3. keys'[k] = SampleKey(keys[k], IF k \in down THEN 0 ELSE 1, d) /\ told' = told
    BY DEF SampleKeys
  <2>4. QED
    BY <1>1, <2>1, <2>2, <2>3, SampleKeyFits
<1>3. keys' = [k \in KeyIds |-> keys'[k]] /\ told' = told
  BY DEF SampleKeys
<1>4. QED
  BY <1>1, <1>2, <1>3 DEF KeyTypeOK, SlotInv

-----------------------------------------------------------------------------
(* The invariant *)

LEMMA InitFits == KeyDriverInit => KeyTypeOK /\ SlotInv
<1> SUFFICES ASSUME KeyDriverInit PROVE KeyTypeOK /\ SlotInv
  OBVIOUS
<1>1. Released \in KeyRecords
  BY Numbers DEF Released, KeyRecords
<1>2. /\ Released.pending = "NONE" /\ Released.long_press_fired = FALSE
  BY DEF Released
<1>3. QED
  BY <1>1, <1>2 DEF KeyDriverInit, KeyTypeOK, SlotInv, Fits

LEMMA StepFits == KeyTypeOK /\ SlotInv /\ [KeyDrvScan]_keyVars => (KeyTypeOK /\ SlotInv)'
<1> SUFFICES ASSUME KeyTypeOK, SlotInv, [KeyDrvScan]_keyVars
             PROVE  KeyTypeOK' /\ SlotInv'
  OBVIOUS
<1>1. CASE UNCHANGED keyVars
  BY <1>1 DEF keyVars, KeyTypeOK, SlotInv
<1>2. CASE KeyDrvScan
  BY <1>2, TakePendingKeeps, SampleKeysKeeps DEF KeyDrvScan
<1>3. QED
  BY <1>1, <1>2

\* Every variable keeps its type, and every slot fits what the key has told.
THEOREM KeyInvariant == KeySpec => [](KeyTypeOK /\ SlotInv)
  BY InitFits, StepFits, PTL DEF KeySpec

\* Every variable keeps its type, for any times and any lateness.
THEOREM KeyTypes == KeySpec => []KeyTypeOK
  BY KeyInvariant, PTL

\* No event is put over one that waits: key_drv_scan needs no queue per key.
THEOREM OneSlotIsEnough == KeySpec => NoEventOverwritten
<1>1. KeyTypeOK /\ SlotInv /\ [KeyDrvScan]_keyVars =>
        [\A k \in KeyIds : keys[k].pending # "NONE" =>
            keys'[k].pending \in {"NONE", keys[k].pending}]_keyVars
  <2> SUFFICES ASSUME KeyTypeOK, SlotInv, KeyDrvScan, NEW k \in KeyIds, keys[k].pending # "NONE"
               PROVE  keys'[k].pending \in {"NONE", keys[k].pending}
    OBVIOUS
  <2>1. PICK d \in 1 .. Late : \/ \E j \in KeyIds : TakePending(j, d)
                               \/ \E down \in Downs : SampleKeys(d, down)
    BY DEF KeyDrvScan
  <2>2. QED
    BY <2>1, TakePendingKeeps, SampleKeysKeeps
<1>2. QED
  BY <1>1, KeyInvariant, PTL DEF KeySpec, NoEventOverwritten

\* What a key tells is (SHORT_PRESS | LONG_PRESS LONG_PRESS_REPEAT* RELEASE)*,
\* however its contacts bounce and however late the calls come.
THEOREM EventOrder == KeySpec => EventsArePaired
<1>1. KeyTypeOK /\ SlotInv /\ [KeyDrvScan]_keyVars =>
        [\A k \in KeyIds : Taken(k) =>
            (keys[k].pending \in {"SHORT_PRESS", "LONG_PRESS"} <=> k \notin told)]_keyVars
  <2> SUFFICES ASSUME KeyTypeOK, SlotInv, NEW k \in KeyIds, Taken(k)
               PROVE  keys[k].pending \in {"SHORT_PRESS", "LONG_PRESS"} <=> k \notin told
    OBVIOUS
  <2>1. keys[k] \in KeyRecords /\ Fits(keys[k], k \in told) /\ keys[k].pending # "NONE"
    BY DEF KeyTypeOK, SlotInv, Taken
  <2>2. keys[k].pending \in KeyEvents
    BY <2>1 DEF KeyRecords
  <2>3. QED
    BY <2>1, <2>2 DEF Fits, KeyEvents
<1>2. QED
  BY <1>1, KeyInvariant, PTL DEF KeySpec, EventsArePaired

-----------------------------------------------------------------------------
(* The walk from the root.  Walk is a recursive function: its equation has  *)
(* exactly one solution, because every non-empty set of numbers has a least *)
(* element.                                                                 *)

\* Every non-empty set of natural numbers has a least element.
LEMMA LeastNumber ==
  ASSUME NEW T \in SUBSET Nat, T # {}
  PROVE  \E x \in T : \A y \in T : x <= y
<1>1. IsWellFoundedOn(OpToRel(<, Nat), Nat)
  BY NatLessThanWellFounded
<1>2. PICK x \in T : \A y \in T : ~ (<<y, x>> \in OpToRel(<, Nat))
  BY <1>1, WFMin
<1>3. ASSUME NEW y \in T
      PROVE  x <= y
  <2>1. ~ (<<y, x>> \in {ss \in Nat \X Nat : ss[1] < ss[2]})
    BY <1>2 DEF OpToRel
  <2>2. QED
    BY <2>1
<1>4. QED
  BY <1>3

\* f is the walk along the first n entries of the stack.
Walks(f, stack, n) ==
  f = [d \in 0 .. n |-> IF d = 0 THEN Root ELSE Submenu[f[d - 1]][stack[d].cursor + 1]]

\* A walk can be made along any number of entries.
LEMMA WalkExists ==
  ASSUME NEW stack, NEW n \in Nat
  PROVE  \E f : Walks(f, stack, n)
<1> DEFINE T == {m \in Nat : ~ \E f : Walks(f, stack, m)}
<1> SUFFICES ASSUME n \in T PROVE FALSE
  OBVIOUS
<1>1. PICK m \in T : \A y \in T : m <= y
  BY LeastNumber
<1>2. m # 0
  <2>1. Walks([d \in 0 .. 0 |-> Root], stack, 0)
    BY DEF Walks
  <2>2. QED
    BY <1>1, <2>1
<1>3. m - 1 \in Nat /\ m - 1 \notin T
  BY <1>1, <1>2
<1>4. PICK f : Walks(f, stack, m - 1)
  BY <1>3
<1> DEFINE g == [d \in 0 .. m |-> IF d = m THEN Submenu[f[m - 1]][stack[m].cursor + 1] ELSE f[d]]
<1>5. ASSUME NEW d \in 0 .. m
      PROVE  g[d] = IF d = 0 THEN Root ELSE Submenu[g[d - 1]][stack[d].cursor + 1]
  <2>1. CASE d = m
    BY <1>2, <2>1
  <2>2. CASE d # m
    <3>1. d \in 0 .. m - 1 /\ g[d] = f[d] /\ (d # 0 => g[d - 1] = f[d - 1])
      BY <2>2
    <3>2. f[d] = IF d = 0 THEN Root ELSE Submenu[f[d - 1]][stack[d].cursor + 1]
      BY <1>4, <3>1 DEF Walks
    <3>3. QED
      BY <3>1, <3>2
  <2>3. QED
    BY <2>1, <2>2
<1>6. Walks(g, stack, m)
  BY <1>5 DEF Walks
<1>7. QED
  BY <1>1, <1>6

\* Two walks along the same entries meet at every step.
LEMMA WalksAgree ==
  ASSUME NEW s, NEW t, NEW n \in Nat, NEW m \in Nat, n <= m,
         \A d \in 1 .. n : s[d] = t[d],
         NEW f, Walks(f, s, n), NEW g, Walks(g, t, m)
  PROVE  f[n] = g[n]
<1> DEFINE T == {d \in 0 .. n : f[d] # g[d]}
<1> SUFFICES ASSUME n \in T PROVE FALSE
  OBVIOUS
<1>0. T \in SUBSET Nat /\ T # {}
  OBVIOUS
<1>1. PICK d \in T : \A y \in T : d <= y
  BY <1>0, LeastNumber
<1>2. /\ f[d] = IF d = 0 THEN Root ELSE Submenu[f[d - 1]][s[d].cursor + 1]
      /\ g[d] = IF d = 0 THEN Root ELSE Submenu[g[d - 1]][t[d].cursor + 1]
  <2>1. d \in 0 .. n /\ d \in 0 .. m
    OBVIOUS
  <2>2. QED
    BY <2>1 DEF Walks
<1>3. d # 0
  BY <1>2
<1>4. d - 1 \in 0 .. n /\ d - 1 \notin T
  BY <1>1, <1>3
<1>5. QED
  BY <1>2, <1>3, <1>4

\* Walk is the last step of the one walk along its argument.
LEMMA WalkIs ==
  ASSUME NEW stack \in Seq(Entries), NEW f, Walks(f, stack, Len(stack))
  PROVE  Walk(stack) = f[Len(stack)]
<1> DEFINE c == CHOOSE g : Walks(g, stack, Len(stack))
<1>1. Walks(c, stack, Len(stack))
  OBVIOUS
<1>2. Walk(stack) = c[Len(stack)]
  BY DEF Walk, Walks
<1>3. QED
  BY <1>1, <1>2, WalksAgree

\* The walk from an empty stack is at the root.
LEMMA WalkEmpty == Walk(<<>>) = Root
<1>1. PICK f : Walks(f, <<>>, 0)
  BY WalkExists
<1>2. <<>> \in Seq(Entries) /\ Len(<<>>) = 0
  BY EmptySeq
<1>3. f[0] = Root
  BY <1>1 DEF Walks
<1>4. QED
  BY <1>1, <1>2, <1>3, WalkIs

\* One entry more leads to the submenu under its cursor.
LEMMA WalkAppend ==
  ASSUME NEW stack \in Seq(Entries), NEW e \in Entries
  PROVE  Walk(Append(stack, e)) = Submenu[Walk(stack)][e.cursor + 1]
<1>1. PICK more : more = Append(stack, e)
  OBVIOUS
<1>2. PICK n \in Nat : n = Len(stack)
  OBVIOUS
<1>3. PICK m \in Nat : m = n + 1
  OBVIOUS
<1>4. more \in Seq(Entries) /\ Len(more) = m /\ more[m] = e /\ \A d \in 1 .. n : stack[d] = more[d]
  BY <1>1, <1>2, <1>3, AppendProperties
<1>5. PICK f : Walks(f, stack, n)
  BY WalkExists
<1>6. PICK g : Walks(g, more, m)
  BY WalkExists
<1>7. f[n] = g[n]
  <2>1. n <= m
    BY <1>3
  <2>2. QED
    BY <1>4, <1>5, <1>6, <2>1, WalksAgree
<1>8. g[m] = Submenu[g[n]][e.cursor + 1]
  BY <1>3, <1>4, <1>6 DEF Walks
<1>9. Walk(stack) = f[n] /\ Walk(more) = g[m]
  BY <1>2, <1>4, <1>5, <1>6, WalkIs
<1>10. QED
  BY <1>1, <1>7, <1>8, <1>9

-----------------------------------------------------------------------------
(* What holds of the menu's record.  MenuOK is said of any record, so that  *)
(* it can be asked of the one a key builds before it is assigned.           *)

MenuRecords ==
  [active : BOOLEAN, dirty : BOOLEAN, current : Lists, cursor : Nat, scroll : Nat,
   stack : Seq(Entries), open : SUBSET Dialogs, detail : Items, info_row : Nat,
   info_total : Nat, backup : 0 .. ValueMax, callback : Items]

\* The list that entry d of the stack came from
Under(stack, d) == Walk(SubSeq(stack, 1, d - 1))

Stacked(stack) ==
  \A d \in 1 .. Len(stack) :
    Under(stack, d) \in Lists /\ Framed(Under(stack, d), stack[d].cursor, stack[d].scroll)

Placed(m) == m.current = Walk(m.stack) /\ Framed(m.current, m.cursor, m.scroll) /\ Stacked(m.stack)

Chosen(m) == Submenu[m.current][m.cursor + 1]

OneDialog(m) ==
  \A dialog \in m.open :
    /\ m.active /\ m.open = {dialog} /\ Kind[Chosen(m)] = DialogKind(dialog)
    /\ dialog = "confirm" => m.callback = Chosen(m)
    /\ dialog = "info" => m.detail = Chosen(m)

MenuOK(m) == m \in MenuRecords /\ Placed(m) /\ OneDialog(m)

\* The menu's variables
MenuInv ==
  /\ MenuOK(menu)
  /\ contrast \in 0 .. ValueMax /\ remote_mode \in {0, 1} /\ is_remote \in {0, 1}

\* What is proved of the record is what the runs check of the variable.
LEMMA MenuOKMeans == MenuOK(menu) => MenuWellFormed /\ DialogIsTheItems
  BY DEF MenuOK, Placed, Stacked, Under, OneDialog, Chosen, MenuWellFormed, DialogIsTheItems,
         Depth, Selected

\* The numbers among the menu's constants.
LEMMA MenuNumbers ==
  /\ Visible \in Nat /\ Visible > 0 /\ ValueMax \in Nat /\ Step \in Nat
  BY MenuAssumption

\* A list has at least one item, and what a cursor inside it selects is an item.
LEMMA ListHasItems ==
  ASSUME NEW list \in Lists
  PROVE  /\ list \in Items /\ Submenu[list] \in Seq(Items)
         /\ Count(list) \in Nat /\ Count(list) > 0
         /\ \A c \in Nat : c < Count(list) => Submenu[list][c + 1] \in Items
<1>1. list \in Items /\ Submenu[list] \in Seq(Items) /\ Submenu[list] # <<>>
  BY MenuAssumption DEF Lists
<1>2. Len(Submenu[list]) \in Nat /\ Len(Submenu[list]) > 0
  BY <1>1, EmptySeq
<1>3. ASSUME NEW c \in Nat, c < Len(Submenu[list])
      PROVE  Submenu[list][c + 1] \in Items
  <2>1. c + 1 \in 1 .. Len(Submenu[list])
    BY <1>2, <1>3
  <2>2. QED
    BY <1>1, <2>1, ElementOfSeq
<1>4. QED
  BY <1>1, <1>2, <1>3 DEF Count

\* The root is a list, the first item of a list is in its first window.
LEMMA TopOfList ==
  ASSUME NEW list \in Lists
  PROVE  Framed(list, 0, 0)
  BY ListHasItems, MenuNumbers DEF Framed

LEMMA RootIsList == Root \in Lists
  BY MenuAssumption DEF Lists

\* adjust_scroll shows the cursor in a window inside the list, if the cursor
\* has moved to another row of the list at most and the window was inside it.
LEMMA AdjustScrollFrames ==
  ASSUME NEW list \in Lists, NEW c \in Nat, c < Count(list), NEW s \in Nat,
         s > 0 => s + Visible <= Count(list)
  PROVE  /\ AdjustScroll(Count(list), c, s) \in Nat
         /\ Framed(list, c, AdjustScroll(Count(list), c, s))
<1>1. Count(list) \in Nat
  BY ListHasItems
<1>2. QED
  BY <1>1, MenuNumbers DEF AdjustScroll, Framed

\* The item selected is an item.
LEMMA ChosenIsItem ==
  ASSUME NEW m \in MenuRecords, Placed(m)
  PROVE  Chosen(m) \in Items
<1>1. m.current \in Lists /\ m.cursor \in Nat /\ m.cursor < Count(m.current)
  BY DEF MenuRecords, Placed, Framed
<1>2. QED
  BY <1>1, ListHasItems DEF Chosen

-----------------------------------------------------------------------------
(* What the keys make of the record *)

\* The same place on the tree, whatever else has changed
SamePlace(m, n) ==
  n.current = m.current /\ n.cursor = m.cursor /\ n.scroll = m.scroll /\ n.stack = m.stack

LEMMA SamePlaceOK ==
  ASSUME NEW m \in MenuRecords, Placed(m), NEW n \in MenuRecords, SamePlace(m, n)
  PROVE  Placed(n) /\ Chosen(n) = Chosen(m)
  BY DEF SamePlace, Placed, Chosen

\* Moving the cursor inside the list.
LEMMA MovedToOK ==
  ASSUME MenuOK(menu), menu.open = {}, NEW c \in Nat, c < Count(menu.current)
  PROVE  MenuOK(MovedTo(c)) /\ MovedTo(c).dirty = TRUE /\ MovedTo(c).open = {}
         /\ MovedTo(c).active = menu.active /\ MovedTo(c).stack = menu.stack
<1> DEFINE s == AdjustScroll(Count(menu.current), c, menu.scroll)
           n == MovedTo(c)
<1>1. menu \in MenuRecords /\ menu.current \in Lists /\ menu.scroll \in Nat
      /\ (menu.scroll > 0 => menu.scroll + Visible <= Count(menu.current))
  BY DEF MenuOK, MenuRecords, Placed, Framed
<1>2. s \in Nat /\ Framed(menu.current, c, s)
  BY <1>1, AdjustScrollFrames
<1>3. /\ n \in MenuRecords /\ n.current = menu.current /\ n.cursor = c /\ n.scroll = s
      /\ n.stack = menu.stack /\ n.open = {} /\ n.dirty = TRUE /\ n.active = menu.active
  BY <1>1, <1>2 DEF MovedTo, MenuRecords
<1>4. Placed(n)
  BY <1>2, <1>3 DEF MenuOK, Placed
<1>5. QED
  BY <1>3, <1>4 DEF MenuOK, OneDialog

\* Opening the list of the selected item.
LEMMA EnterSubmenuOK ==
  ASSUME MenuOK(menu), menu.open = {}, Kind[Selected] = "SUBMENU"
  PROVE  LET n == EnterSubmenu(Selected) IN MenuOK(n) /\ n.dirty = TRUE /\ n.open = {}
<1> DEFINE n == EnterSubmenu(Selected)
           top == [cursor |-> menu.cursor, scroll |-> menu.scroll]
           d0 == Len(menu.stack)
<1>1. /\ menu \in MenuRecords /\ Placed(menu) /\ menu.stack \in Seq(Entries) /\ d0 \in Nat
      /\ menu.cursor \in Nat /\ menu.scroll \in Nat /\ menu.current \in Lists
  BY DEF MenuOK, MenuRecords
<1>2. Selected = Chosen(menu) /\ Selected \in Lists
  BY <1>1, ChosenIsItem DEF Selected, Chosen, Lists
<1>3. top \in Entries /\ top.cursor = menu.cursor /\ top.scroll = menu.scroll
  BY <1>1 DEF Entries
<1>4. /\ n.stack = Append(menu.stack, top) /\ n.current = Selected /\ n.cursor = 0 /\ n.scroll = 0
      /\ n.open = {} /\ n.dirty = TRUE
  BY <1>1 DEF EnterSubmenu, MenuRecords
<1>5. /\ n.stack \in Seq(Entries) /\ Len(n.stack) = d0 + 1 /\ n.stack[d0 + 1] = top
      /\ \A d \in 1 .. d0 : n.stack[d] = menu.stack[d]
  BY <1>1, <1>3, <1>4, AppendProperties
<1>6. n \in MenuRecords
  BY <1>1, <1>2, <1>4, <1>5 DEF EnterSubmenu, MenuRecords
<1>7. Walk(n.stack) = Selected
  <2>1. Walk(n.stack) = Submenu[Walk(menu.stack)][menu.cursor + 1]
    BY <1>1, <1>3, <1>4, WalkAppend
  <2>2. QED
    BY <1>1, <2>1 DEF Placed, Selected
<1>8. ASSUME NEW d \in 1 .. Len(n.stack)
      PROVE  Under(n.stack, d) \in Lists /\ Framed(Under(n.stack, d), n.stack[d].cursor, n.stack[d].scroll)
  <2>1. Under(n.stack, d) = Under(menu.stack, d)
    <3>1. SubSeq(n.stack, 1, d - 1) = SubSeq(menu.stack, 1, d - 1)
      BY <1>1, <1>5
    <3>2. QED
      BY <3>1 DEF Under
  <2>2. CASE d <= d0
    <3>1. d \in 1 .. Len(menu.stack) /\ n.stack[d] = menu.stack[d]
      BY <1>1, <1>5, <2>2
    <3>2. QED
      BY <1>1, <2>1, <3>1 DEF Placed, Stacked
  <2>3. CASE d = d0 + 1
    <3>1. SubSeq(menu.stack, 1, d - 1) = menu.stack
      BY <1>1, <2>3
    <3>2. Under(menu.stack, d) = menu.current
      BY <1>1, <3>1 DEF Placed, Under
    <3>3. n.stack[d] = top
      BY <1>5, <2>3
    <3>4. QED
      BY <1>1, <1>3, <2>1, <3>2, <3>3 DEF Placed
  <2>4. QED
    BY <1>1, <1>5, <2>2, <2>3
<1>9. Framed(n.current, n.cursor, n.scroll)
  BY <1>2, <1>4, TopOfList
<1>10. QED
  BY <1>4, <1>6, <1>7, <1>8, <1>9 DEF MenuOK, Placed, Stacked, OneDialog

\* Leaving a list for the one it was opened from.
LEMMA ExitSubmenuOK ==
  ASSUME MenuOK(menu), menu.open = {}, Depth # 0
  PROVE  MenuOK(ExitSubmenu) /\ ExitSubmenu.dirty = TRUE /\ ExitSubmenu.open = {}
<1> DEFINE n == ExitSubmenu
           d0 == Len(menu.stack)
           top == menu.stack[d0]
           rest == SubSeq(menu.stack, 1, d0 - 1)
           list == Walk(rest)
           s == AdjustScroll(Count(list), top.cursor, top.scroll)
<1>1. /\ menu \in MenuRecords /\ Placed(menu) /\ menu.stack \in Seq(Entries)
      /\ d0 \in Nat /\ d0 > 0
  BY DEF MenuOK, MenuRecords, Depth
<1>2. top \in Entries /\ top.cursor \in Nat /\ top.scroll \in Nat
  <2>1. d0 \in 1 .. Len(menu.stack)
    BY <1>1
  <2>2. top \in Entries
    BY <1>1, <2>1, ElementOfSeq
  <2>3. QED
    BY <2>2 DEF Entries
<1>3. list \in Lists /\ Framed(list, top.cursor, top.scroll)
  BY <1>1 DEF Placed, Stacked, Under
<1>4. s \in Nat /\ Framed(list, top.cursor, s)
  BY <1>2, <1>3, AdjustScrollFrames DEF Framed
<1>5. /\ rest \in Seq(Entries) /\ Len(rest) = d0 - 1
      /\ \A d \in 1 .. d0 - 1 : rest[d] = menu.stack[d]
  BY <1>1
<1>6. /\ n.stack = rest /\ n.current = list /\ n.cursor = top.cursor /\ n.scroll = s
      /\ n.open = {} /\ n.dirty = TRUE /\ n \in MenuRecords
  <2>1. n = [menu EXCEPT !.stack = rest, !.current = list, !.cursor = top.cursor,
                         !.scroll = s, !.dirty = TRUE]
    BY DEF ExitSubmenu, Depth
  <2> HIDE DEF n, rest, list, top, s
  <2>2. QED
    BY <1>1, <1>2, <1>3, <1>4, <1>5, <2>1 DEF MenuRecords
<1>7. ASSUME NEW d \in 1 .. Len(rest)
      PROVE  Under(rest, d) \in Lists /\ Framed(Under(rest, d), rest[d].cursor, rest[d].scroll)
  <2>1. SubSeq(rest, 1, d - 1) = SubSeq(menu.stack, 1, d - 1)
    BY <1>1, <1>5
  <2>2. d \in 1 .. Len(menu.stack) /\ rest[d] = menu.stack[d]
    BY <1>1, <1>5
  <2>3. QED
    BY <1>1, <2>1, <2>2 DEF Placed, Stacked, Under
<1>8. QED
  BY <1>4, <1>6, <1>7 DEF MenuOK, Placed, Stacked, OneDialog

\* A record that is back at the root, with no dialog open.
LEMMA AtRootOK ==
  ASSUME NEW n \in MenuRecords, n.current = Root, n.cursor = 0, n.scroll = 0,
         n.stack = <<>>, n.open = {}
  PROVE  MenuOK(n)
<1>1. Len(n.stack) = 0
  OBVIOUS
<1>2. Stacked(n.stack)
  BY <1>1 DEF Stacked
<1>3. Placed(n)
  BY <1>2, WalkEmpty, RootIsList, TopOfList DEF Placed
<1>4. QED
  BY <1>3 DEF MenuOK, OneDialog

\* What is drawn has changed, but nothing the selection depends on.
LEMMA RedrawnOK ==
  ASSUME MenuOK(menu), NEW n \in MenuRecords, SamePlace(menu, n), n.active = menu.active,
         n.open = menu.open, n.callback = menu.callback, n.detail = menu.detail
  PROVE  MenuOK(n)
<1>1. Placed(n) /\ Chosen(n) = Chosen(menu)
  BY SamePlaceOK DEF MenuOK
<1>2. QED
  BY <1>1 DEF MenuOK, OneDialog

\* A dialog of the selected item opens where none was open.
LEMMA OpenedOK ==
  ASSUME MenuOK(menu), menu.active, NEW dialog \in Dialogs,
         Kind[Selected] = DialogKind(dialog),
         NEW n \in MenuRecords, SamePlace(menu, n), n.active = menu.active, n.open = {dialog},
         dialog = "confirm" => n.callback = Selected, dialog = "info" => n.detail = Selected
  PROVE  MenuOK(n)
<1>1. Placed(n) /\ Chosen(n) = Chosen(menu) /\ Chosen(menu) = Selected
  BY SamePlaceOK DEF MenuOK, Chosen, Selected
<1>2. QED
  BY <1>1 DEF MenuOK, OneDialog

\* The dialog that is open closes, and no other one is.
LEMMA ClosedOK ==
  ASSUME MenuOK(menu), NEW dialog \in menu.open
  PROVE  LET n == Closed(dialog) IN
         /\ MenuOK(n) /\ SamePlace(menu, n)
         /\ n.open = {} /\ n.dirty = TRUE /\ n.active = menu.active /\ n.backup = menu.backup
<1> DEFINE n == Closed(dialog)
<1>1. menu \in MenuRecords /\ menu.open = {dialog}
  BY DEF MenuOK, OneDialog
<1>2. /\ n \in MenuRecords /\ SamePlace(menu, n) /\ n.open = {} /\ n.dirty = TRUE
      /\ n.active = menu.active /\ n.backup = menu.backup
  BY <1>1 DEF Closed, MenuRecords, SamePlace
<1>3. Placed(n)
  BY <1>2, SamePlaceOK DEF MenuOK
<1>4. QED
  BY <1>2, <1>3 DEF MenuOK, OneDialog

-----------------------------------------------------------------------------
(* What a key event does while the menu is active *)

\* The invariant is kept; what is drawn is marked; a held key changes no
\* place; the backup is the value the editing began with, and KEY4 restores it.
Marked == menu'.active /\ View' # View => menu'.dirty

KeyStep(k, e) ==
  /\ MenuInv' /\ Marked
  /\ k \in {3, 4} /\ e \in {"RELEASE", "LONG_PRESS_REPEAT"} =>
       Place(menu') = Place(menu) /\ remote_mode' = remote_mode
  /\ "value" \in menu'.open =>
       menu'.backup = IF "value" \in menu.open THEN menu.backup ELSE contrast
  /\ "value" \in menu.open /\ "value" \notin menu'.open /\ k = 4 => contrast' = menu.backup

\* Nothing happens.
LEMMA StayStep ==
  ASSUME MenuInv, NEW k, NEW e, UNCHANGED menuVars
  PROVE  KeyStep(k, e)
<1>1. menu' = menu /\ contrast' = contrast /\ remote_mode' = remote_mode /\ is_remote' = is_remote
  BY DEF menuVars
<1>2. MenuInv' /\ View' = View
  BY <1>1 DEF MenuInv, View
<1>3. QED
  BY <1>1, <1>2 DEF KeyStep, Marked

\* Only the record changes, to one that is marked, and no value is edited.
LEMMA RecordStep ==
  ASSUME MenuInv, NEW k, NEW e, NEW n, Only(n), MenuOK(n), n.dirty = TRUE,
         "value" \notin menu.open, "value" \notin n.open,
         k \in {3, 4} => e \in {"SHORT_PRESS", "LONG_PRESS"}
  PROVE  KeyStep(k, e)
<1>1. menu' = n /\ contrast' = contrast /\ remote_mode' = remote_mode /\ is_remote' = is_remote
  BY DEF Only
<1>2. MenuInv' /\ Marked
  BY <1>1 DEF MenuInv, Marked
<1>3. QED
  BY <1>1, <1>2 DEF KeyStep

\* The preview: KEY3 or KEY4 closes it.
LEMMA PreviewStep ==
  ASSUME MenuInv, NEW k \in KeyIds, NEW e \in KeyEvents, "preview" \in menu.open, PreviewKey(k, e)
  PROVE  KeyStep(k, e)
<1>1. MenuOK(menu) /\ menu.open = {"preview"}
  BY DEF MenuInv, MenuOK, OneDialog
<1>2. CASE e = "SHORT_PRESS" /\ k \in {3, 4}
  <2>1. Only(Closed("preview"))
    BY <1>2 DEF PreviewKey
  <2>2. QED
    BY <1>1, <1>2, <2>1, ClosedOK, RecordStep
<1>3. CASE ~ (e = "SHORT_PRESS" /\ k \in {3, 4})
  BY <1>3, StayStep DEF PreviewKey, Stay
<1>4. QED
  BY <1>2, <1>3

\* The confirmation: KEY4 closes it (KEY3 resets the device).
LEMMA ConfirmStep ==
  ASSUME MenuInv, NEW k \in KeyIds, NEW e \in KeyEvents, "confirm" \in menu.open, ConfirmKey(k, e)
  PROVE  KeyStep(k, e)
<1>1. MenuOK(menu) /\ menu.open = {"confirm"}
  BY DEF MenuInv, MenuOK, OneDialog
<1>2. CASE e = "SHORT_PRESS" /\ k = 4
  <2>1. Only(Closed("confirm"))
    BY <1>2 DEF ConfirmKey
  <2>2. QED
    BY <1>1, <1>2, <2>1, ClosedOK, RecordStep
<1>3. CASE ~ (e = "SHORT_PRESS" /\ k = 4)
  BY <1>3, StayStep DEF ConfirmKey, Stay
<1>4. QED
  BY <1>2, <1>3

\* The information page: KEY1 and KEY2 scroll its rows, KEY3 or KEY4 closes it.
LEMMA InfoStep ==
  ASSUME MenuInv, NEW k \in KeyIds, NEW e \in KeyEvents, "info" \in menu.open, InfoKey(k, e)
  PROVE  KeyStep(k, e)
<1>1. MenuOK(menu) /\ menu \in MenuRecords /\ menu.open = {"info"}
  BY DEF MenuInv, MenuOK, OneDialog
<1>2. CASE e = "SHORT_PRESS" /\ k \in {3, 4}
  <2> DEFINE n == [Closed("info") EXCEPT !.info_row = 0]
             c == Closed("info")
  <2>1. Only(n)
    BY <1>2 DEF InfoKey
  <2>2. MenuOK(c) /\ c \in MenuRecords /\ c.open = {} /\ c.dirty = TRUE
    BY <1>1, ClosedOK DEF MenuOK
  <2>3. /\ n \in MenuRecords /\ n.open = {} /\ n.dirty = TRUE /\ SamePlace(c, n)
    BY <2>2 DEF MenuRecords, SamePlace
  <2>4. MenuOK(n)
    BY <2>2, <2>3, SamePlaceOK DEF MenuOK, OneDialog
  <2>5. QED
    BY <1>1, <1>2, <2>1, <2>3, <2>4, RecordStep
<1>3. ASSUME NEW row \in Nat, k \notin {3, 4}, Only([menu EXCEPT !.info_row = row, !.dirty = TRUE])
      PROVE  KeyStep(k, e)
  <2> DEFINE n == [menu EXCEPT !.info_row = row, !.dirty = TRUE]
  <2>2. /\ n \in MenuRecords /\ SamePlace(menu, n) /\ n.active = menu.active /\ n.open = menu.open
        /\ n.callback = menu.callback /\ n.detail = menu.detail /\ n.dirty = TRUE
    BY <1>1 DEF MenuRecords, SamePlace
  <2>3. MenuOK(n)
    BY <1>1, <2>2, RedrawnOK
  <2>4. QED
    BY <1>1, <1>3, <2>2, <2>3, RecordStep
<1>4. CASE UNCHANGED menuVars
  BY <1>4, StayStep
<1>5. QED
  <2>1. menu.info_row \in Nat /\ menu.info_row + 1 \in Nat
        /\ (menu.info_row > 0 => menu.info_row - 1 \in Nat)
    BY <1>1 DEF MenuRecords
  <2>2. CASE ~ (e = "SHORT_PRESS" /\ k \in {3, 4}) /\ e \in Fast \cup {"SHORT_PRESS"} /\ k = 1
             /\ menu.info_row + 4 < menu.info_total
    <3>1. PICK row \in Nat : row = menu.info_row + 1
      BY <2>1, <2>2
    <3>2. Only([menu EXCEPT !.info_row = row, !.dirty = TRUE])
      BY <2>2, <3>1 DEF InfoKey
    <3>3. k \notin {3, 4}
      BY <2>2
    <3>4. QED
      BY <1>3, <3>2, <3>3
  <2>3. CASE e \in Fast \cup {"SHORT_PRESS"} /\ k = 2 /\ menu.info_row > 0
    <3>1. PICK row \in Nat : row = menu.info_row - 1
      BY <2>1, <2>3
    <3>2. Only([menu EXCEPT !.info_row = row, !.dirty = TRUE])
      BY <2>3, <3>1 DEF InfoKey
    <3>3. k \notin {3, 4}
      BY <2>3
    <3>4. QED
      BY <1>3, <3>2, <3>3
  <2>4. CASE ~ (e = "SHORT_PRESS" /\ k \in {3, 4})
             /\ ~ (e \in Fast \cup {"SHORT_PRESS"} /\ k = 1 /\ menu.info_row + 4 < menu.info_total)
             /\ ~ (e \in Fast \cup {"SHORT_PRESS"} /\ k = 2 /\ menu.info_row > 0)
    <3>1. Stay
      BY <2>4 DEF InfoKey
    <3>2. QED
      BY <1>4, <3>1 DEF Stay
  <2>5. QED
    BY <1>2, <2>2, <2>3, <2>4

\* Steps of the edited value stay in its range.
LEMMA StepsInRange ==
  ASSUME contrast \in 0 .. ValueMax, NEW step \in Nat
  PROVE  Lower(step) \in 0 .. ValueMax /\ Higher(step) \in 0 .. ValueMax
  BY MenuNumbers DEF Lower, Higher

\* Editing a value: KEY1 and KEY2 step it, KEY3 keeps it, KEY4 restores it.
LEMMA EditStep ==
  ASSUME MenuInv, NEW k \in KeyIds, NEW e \in KeyEvents, "value" \in menu.open, EditKey(k, e)
  PROVE  KeyStep(k, e)
<1> DEFINE step == IF e = "SHORT_PRESS" THEN Step ELSE 5 * Step
<1>1. /\ MenuOK(menu) /\ menu \in MenuRecords /\ menu.open = {"value"} /\ step \in Nat
      /\ contrast \in 0 .. ValueMax /\ menu.backup \in 0 .. ValueMax
      /\ remote_mode \in {0, 1} /\ is_remote \in {0, 1}
  BY MenuNumbers DEF MenuInv, MenuOK, OneDialog, MenuRecords
<1>2. CASE k \in {1, 2} /\ SetContrast(IF k = 1 THEN Lower(step) ELSE Higher(step))
           /\ menu' = [menu EXCEPT !.dirty = TRUE]
  <2>1. /\ menu' \in MenuRecords /\ SamePlace(menu, menu') /\ menu'.active = menu.active
        /\ menu'.open = menu.open /\ menu'.callback = menu.callback /\ menu'.detail = menu.detail
        /\ menu'.dirty = TRUE /\ menu'.backup = menu.backup
    BY <1>1, <1>2 DEF MenuRecords, SamePlace
  <2>2. MenuOK(menu')
    BY <1>1, <2>1, RedrawnOK
  <2>3. contrast' \in 0 .. ValueMax /\ remote_mode' = remote_mode /\ is_remote' = is_remote
    BY <1>1, <1>2, StepsInRange DEF SetContrast
  <2>4. MenuInv' /\ Marked
    BY <1>1, <2>1, <2>2, <2>3 DEF MenuInv, Marked
  <2>5. QED
    BY <1>1, <1>2, <2>1, <2>4 DEF KeyStep
<1>3. CASE e = "SHORT_PRESS" /\ k \in {3, 4} /\ menu' = Closed("value")
           /\ contrast' = (IF k = 3 THEN contrast ELSE menu.backup)
           /\ remote_mode' = remote_mode /\ is_remote' = is_remote
  <2>1. MenuOK(menu') /\ menu'.open = {} /\ menu'.dirty = TRUE
    BY <1>1, <1>3, ClosedOK
  <2>2. contrast' \in 0 .. ValueMax
    BY <1>1, <1>3
  <2>3. MenuInv' /\ Marked
    BY <1>1, <1>3, <2>1, <2>2 DEF MenuInv, Marked
  <2>4. QED
    BY <1>3, <2>1, <2>3 DEF KeyStep
<1>4. CASE UNCHANGED menuVars
  BY <1>4, StayStep
<1>5. QED
  BY <1>2, <1>3, <1>4 DEF EditKey, Stay, Only, SetContrast

\* KEY3 in a list: the selected item's kind decides.
LEMMA ConfirmedStep ==
  ASSUME MenuInv, menu.active, menu.open = {}, Confirm(Selected)
  PROVE  KeyStep(3, "SHORT_PRESS")
<1>1. /\ MenuOK(menu) /\ menu \in MenuRecords /\ contrast \in 0 .. ValueMax
      /\ remote_mode \in {0, 1} /\ is_remote \in {0, 1}
  BY DEF MenuInv, MenuOK
<1>2. Selected \in Items
  BY <1>1, ChosenIsItem DEF MenuOK, Chosen, Selected
<1>3. CASE Kind[Selected] = "SUBMENU" /\ Only(EnterSubmenu(Selected))
  BY <1>1, <1>3, EnterSubmenuOK, RecordStep
<1>4. CASE remote_mode' = Flipped(Selected) /\ SetRemote(remote_mode')
           /\ menu' = [menu EXCEPT !.dirty = TRUE] /\ contrast' = contrast
  <2>1. /\ menu' \in MenuRecords /\ SamePlace(menu, menu') /\ menu'.active = menu.active
        /\ menu'.open = menu.open /\ menu'.callback = menu.callback /\ menu'.detail = menu.detail
        /\ menu'.dirty = TRUE
    BY <1>1, <1>4 DEF MenuRecords, SamePlace
  <2>2. Checked[Selected] \in {0, 1}
    BY <1>2, MenuAssumption
  <2>3. remote_mode' \in {0, 1} /\ is_remote' \in {0, 1}
    BY <1>1, <1>4, <2>2 DEF Flipped, SetRemote
  <2>4. MenuInv' /\ Marked
    BY <1>1, <1>4, <2>1, <2>3, RedrawnOK DEF MenuInv, Marked
  <2>5. QED
    BY <2>1, <2>4 DEF KeyStep
<1>5. CASE Kind[Selected] = "VALUE" /\ Only(EditValue)
  <2> DEFINE n == EditValue
  <2>1. n = [menu EXCEPT !.open = @ \cup {"value"}, !.dirty = TRUE, !.backup = contrast]
    BY <1>1 DEF EditValue, Opened
  <2>2. "value" \in Dialogs /\ DialogKind("value") = "VALUE"
    BY DEF Dialogs, DialogKind
  <2>3. /\ n \in MenuRecords /\ SamePlace(menu, n) /\ n.active = menu.active
        /\ n.open = {"value"} /\ n.dirty = TRUE /\ n.backup = contrast
    BY <1>1, <2>1, <2>2 DEF MenuRecords, SamePlace
  <2>4. MenuOK(n)
    BY <1>1, <1>5, <2>2, <2>3, OpenedOK
  <2>5. menu' = n /\ contrast' = contrast /\ remote_mode' = remote_mode /\ is_remote' = is_remote
    BY <1>5 DEF Only
  <2>6. MenuInv' /\ Marked
    BY <1>1, <2>3, <2>4, <2>5 DEF MenuInv, Marked
  <2>7. QED
    BY <2>3, <2>5, <2>6 DEF KeyStep
<1>6. CASE menu' = menu /\ contrast' = contrast /\ remote_mode' = remote_mode /\ is_remote' \in {1, is_remote}
  <2>1. MenuInv'
    BY <1>1, <1>6 DEF MenuInv
  <2>2. View' = View
    BY <1>6 DEF View
  <2>3. QED
    BY <1>6, <2>1, <2>2 DEF KeyStep, Marked
<1>7. ASSUME NEW dialog \in Dialogs \ {"value"}, Kind[Selected] = DialogKind(dialog),
             NEW n, Only(n), n \in MenuRecords, SamePlace(menu, n), n.active = menu.active,
             n.open = {dialog}, n.dirty = TRUE,
             dialog = "confirm" => n.callback = Selected, dialog = "info" => n.detail = Selected
      PROVE  KeyStep(3, "SHORT_PRESS")
  <2>1. MenuOK(n)
    BY <1>1, <1>7, OpenedOK
  <2>2. QED
    BY <1>7, <2>1, RecordStep
<1>8. CASE Kind[Selected] = "INFO" /\ Only([Opened("info") EXCEPT !.detail = Selected, !.info_row = 0])
  <2> DEFINE n == [Opened("info") EXCEPT !.detail = Selected, !.info_row = 0]
  <2>1. n = [menu EXCEPT !.open = @ \cup {"info"}, !.dirty = TRUE, !.detail = Selected, !.info_row = 0]
    BY <1>1 DEF Opened
  <2>2. "info" \in Dialogs \ {"value"} /\ DialogKind("info") = "INFO"
    BY DEF Dialogs, DialogKind
  <2>3. /\ n \in MenuRecords /\ SamePlace(menu, n) /\ n.active = menu.active
        /\ n.open = {"info"} /\ n.dirty = TRUE /\ n.detail = Selected
    BY ZenonT(30), <1>1, <1>2, <2>1, <2>2 DEF MenuRecords, SamePlace
  <2> HIDE DEF n
  <2>4. Only(n)
    BY <1>8 DEF n
  <2>5. QED
    BY <1>7, <1>8, <2>2, <2>3, <2>4
<1>9. CASE Kind[Selected] = "PREVIEW" /\ Only(Opened("preview"))
  <2> DEFINE n == Opened("preview")
  <2>1. "preview" \in Dialogs \ {"value"} /\ DialogKind("preview") = "PREVIEW"
    BY DEF Dialogs, DialogKind
  <2>2. /\ n \in MenuRecords /\ SamePlace(menu, n) /\ n.active = menu.active
        /\ n.open = {"preview"} /\ n.dirty = TRUE
    BY <1>1, <2>1 DEF MenuRecords, SamePlace, Opened
  <2>3. QED
    BY <1>7, <1>9, <2>1, <2>2
<1>10. CASE Kind[Selected] = "CONFIRM" /\ Only([Opened("confirm") EXCEPT !.callback = Selected])
  <2> DEFINE n == [Opened("confirm") EXCEPT !.callback = Selected]
  <2>1. n = [menu EXCEPT !.open = @ \cup {"confirm"}, !.dirty = TRUE, !.callback = Selected]
    BY <1>1 DEF Opened
  <2>2. "confirm" \in Dialogs \ {"value"} /\ DialogKind("confirm") = "CONFIRM"
    BY DEF Dialogs, DialogKind
  <2>3. /\ n \in MenuRecords /\ SamePlace(menu, n) /\ n.active = menu.active
        /\ n.open = {"confirm"} /\ n.dirty = TRUE /\ n.callback = Selected
    BY <1>1, <1>2, <2>1, <2>2 DEF MenuRecords, SamePlace
  <2> HIDE DEF n
  <2>4. Only(n)
    BY <1>10 DEF n
  <2>5. QED
    BY <1>7, <1>10, <2>2, <2>3, <2>4
<1>11. QED
  BY <1>3, <1>4, <1>5, <1>6, <1>8, <1>9, <1>10 DEF Confirm, Only, SetRemote

\* A key in a list, with no dialog open.
LEMMA ListStep ==
  ASSUME MenuInv, menu.active, menu.open = {}, NEW k \in KeyIds, NEW e \in KeyEvents, ListKey(k, e)
  PROVE  KeyStep(k, e)
<1>1. /\ MenuOK(menu) /\ menu \in MenuRecords /\ menu.cursor \in Nat
      /\ Count(menu.current) \in Nat /\ menu.cursor < Count(menu.current)
  BY ListHasItems DEF MenuInv, MenuOK, MenuRecords, Placed, Framed
<1>2. CASE k \in {1, 2} /\ \E c \in Nat : c < Count(menu.current) /\ Only(MovedTo(c))
  <2>1. PICK c \in Nat : c < Count(menu.current) /\ Only(MovedTo(c))
    BY <1>2
  <2>2. MenuOK(MovedTo(c)) /\ MovedTo(c).dirty = TRUE /\ MovedTo(c).open = {}
    BY <1>1, <2>1, MovedToOK
  <2>3. k \notin {3, 4}
    BY <1>2
  <2>4. QED
    BY <2>1, <2>2, <2>3, RecordStep
<1>3. CASE k = 3 /\ e = "SHORT_PRESS" /\ Confirm(Selected)
  BY <1>3, ConfirmedStep
<1>4. CASE k = 4 /\ e \in LeavingEvents /\ Depth = 0 /\ Only(Deactivated)
  <2> DEFINE n == Deactivated
  <2>1. n \in MenuRecords /\ SamePlace(menu, n) /\ n.open = {} /\ n.active = FALSE
    BY <1>1 DEF Deactivated, MenuRecords, SamePlace
  <2>2. MenuOK(n)
    BY <1>1, <2>1, SamePlaceOK DEF MenuOK, OneDialog
  <2>3. menu' = n /\ contrast' = contrast /\ remote_mode' = remote_mode /\ is_remote' = is_remote
    BY <1>4 DEF Only
  <2>4. MenuInv' /\ Marked
    BY <2>1, <2>2, <2>3 DEF MenuInv, Marked
  <2>5. QED
    BY <1>4, <2>1, <2>3, <2>4 DEF KeyStep, LeavingEvents
<1>5. CASE k = 4 /\ e \in LeavingEvents /\ Depth # 0 /\ Only(ExitSubmenu)
  BY <1>1, <1>5, ExitSubmenuOK, RecordStep DEF LeavingEvents
<1>6. CASE k = 4 /\ e \in LeavingEvents /\ Only(GotoRoot)
  <2> DEFINE n == GotoRoot
  <2>1. <<>> \in Seq(Entries)
    BY EmptySeq
  <2>2. /\ n \in MenuRecords /\ n.current = Root /\ n.cursor = 0 /\ n.scroll = 0 /\ n.stack = <<>>
        /\ n.open = {} /\ n.dirty = TRUE
    BY <1>1, <2>1, RootIsList DEF GotoRoot, MenuRecords
  <2>3. MenuOK(n)
    BY <2>2, AtRootOK
  <2>4. QED
    BY <1>6, <2>2, <2>3, RecordStep DEF LeavingEvents
<1>7. CASE Stay
  BY <1>7, StayStep DEF Stay
<1>8. CASE k \in {1, 2} /\ (IF k = 1 THEN CursorDown ELSE CursorUp)
           /\ UNCHANGED <<contrast, remote_mode, is_remote>>
  <2>1. PICK c \in Nat : c < Count(menu.current) /\ menu' = MovedTo(c)
    <3>1. CASE CursorDown
      <4>1. /\ menu.cursor + 1 \in Nat
            /\ menu' = MovedTo(IF menu.cursor + 1 < Count(menu.current) THEN menu.cursor + 1
                               ELSE menu.cursor)
        BY <1>1, <3>1 DEF CursorDown
      <4>2. QED
        BY <1>1, <4>1
    <3>2. CASE CursorUp
      <4>1. menu' = MovedTo(IF menu.cursor > 0 THEN menu.cursor - 1 ELSE 0)
        BY <3>2 DEF CursorUp
      <4>2. (menu.cursor > 0 => menu.cursor - 1 \in Nat /\ menu.cursor - 1 < Count(menu.current))
            /\ 0 < Count(menu.current)
        BY <1>1
      <4>3. QED
        BY <4>1, <4>2
    <3>3. QED
      BY <1>8, <3>1, <3>2
  <2>2. QED
    BY <1>2, <1>8, <2>1 DEF Only
<1>9. QED
  BY <1>3, <1>4, <1>5, <1>6, <1>7, <1>8 DEF ListKey

\* menu_mgr_handle_key: the first flag that is set decides.
LEMMA HandleKeyStep ==
  ASSUME MenuInv, menu.active, NEW k \in KeyIds, NEW e \in KeyEvents, HandleKey(k, e)
  PROVE  KeyStep(k, e)
<1>1. menu.open \subseteq Dialogs
  BY DEF MenuInv, MenuOK, MenuRecords
<1>2. CASE "preview" \in menu.open
  BY <1>2, PreviewStep DEF HandleKey
<1>3. CASE "preview" \notin menu.open /\ "confirm" \in menu.open
  BY <1>3, ConfirmStep DEF HandleKey
<1>4. CASE "preview" \notin menu.open /\ "confirm" \notin menu.open /\ "info" \in menu.open
  BY <1>4, InfoStep DEF HandleKey
<1>5. CASE "preview" \notin menu.open /\ "confirm" \notin menu.open /\ "info" \notin menu.open
           /\ "value" \in menu.open
  BY <1>5, EditStep DEF HandleKey
<1>6. CASE "preview" \notin menu.open /\ "confirm" \notin menu.open /\ "info" \notin menu.open
           /\ "value" \notin menu.open
  <2>1. menu.open = {}
    BY <1>1, <1>6 DEF Dialogs
  <2>2. QED
    BY <1>6, <2>1, ListStep DEF HandleKey
<1>7. QED
  BY <1>2, <1>3, <1>4, <1>5, <1>6

-----------------------------------------------------------------------------
(* The other steps *)

\* The menu at power-on, and after the reset that a confirmation makes.
LEMMA MenuStartOK == MenuOK(AtRoot)
<1>1. <<>> \in Seq(Entries) /\ Root \in Items
  BY EmptySeq, MenuAssumption
<1>2. AtRoot \in MenuRecords
  BY <1>1, RootIsList, MenuNumbers DEF AtRoot, MenuRecords
<1>3. QED
  BY <1>2, AtRootOK DEF AtRoot

\* menu_mgr_activate.
LEMMA ActivateStep ==
  ASSUME MenuInv, Activate
  PROVE  MenuInv' /\ menu'.dirty /\ menu'.open = {} /\ contrast' = contrast
<1>1. menu \in MenuRecords /\ is_remote \in {0, 1} /\ contrast \in 0 .. ValueMax
  BY DEF MenuInv, MenuOK
<1>2. <<>> \in Seq(Entries)
  BY EmptySeq
<1>3. /\ menu' \in MenuRecords /\ menu'.current = Root /\ menu'.cursor = 0 /\ menu'.scroll = 0
      /\ menu'.stack = <<>> /\ menu'.open = {} /\ menu'.dirty = TRUE
  BY <1>1, <1>2, RootIsList DEF Activate, MenuRecords
<1>4. MenuOK(menu')
  BY <1>3, AtRootOK
<1>5. QED
  BY <1>1, <1>3, <1>4 DEF Activate, MenuInv

\* display_task renders the menu, or applies a mode command.
LEMMA DisplayStep ==
  ASSUME MenuInv, DisplayTask
  PROVE  MenuInv' /\ View' = View /\ Place(menu') = Place(menu) /\ menu'.backup = menu.backup
<1>1. /\ MenuOK(menu) /\ menu \in MenuRecords /\ contrast \in 0 .. ValueMax
      /\ remote_mode \in {0, 1} /\ is_remote \in {0, 1}
  BY DEF MenuInv, MenuOK
<1>2. CASE Tick
  <2>1. Rows[menu.detail] \in Nat
    BY <1>1, MenuAssumption DEF MenuRecords
  <2>2. /\ menu' = [menu EXCEPT !.dirty = FALSE, !.info_total = Rows[menu.detail]]
           \/ menu' = [menu EXCEPT !.dirty = FALSE]
        /\ contrast' = contrast /\ remote_mode' = remote_mode /\ is_remote' = is_remote
    BY <1>2 DEF Tick, Only
  <2>3. /\ menu' \in MenuRecords /\ SamePlace(menu, menu') /\ menu'.active = menu.active
        /\ menu'.open = menu.open /\ menu'.callback = menu.callback /\ menu'.detail = menu.detail
        /\ menu'.info_row = menu.info_row /\ menu'.backup = menu.backup
    BY <1>1, <2>1, <2>2 DEF MenuRecords, SamePlace
  <2>4. MenuOK(menu')
    BY <1>1, <2>3, RedrawnOK
  <2>5. QED
    BY <1>1, <2>2, <2>3, <2>4 DEF MenuInv, View, Place, SamePlace
<1>3. CASE \E mode \in {0, 1} : PcMode(mode)
  BY <1>1, <1>3 DEF PcMode, MenuInv, View, Place
<1>4. QED
  BY <1>2, <1>3 DEF DisplayTask

-----------------------------------------------------------------------------
(* The keys and the menu together *)

\* A key that may still act has not acted since it went down: before its long
\* press is told and before its short press is.
PressInv ==
  /\ acted \in [{3, 4} -> 0 .. MaxActed]
  /\ \A k \in {3, 4} :
       /\ acted[k] <= 1
       /\ keys[k].pending = "SHORT_PRESS" => keys[k].stable_state = 1
       /\ keys[k].pending \in {"SHORT_PRESS", "LONG_PRESS"} => acted[k] = 0
       /\ keys[k].stable_state = 0 /\ ~ keys[k].long_press_fired => acted[k] = 0

\* The value an editing began with is the one that KEY4 restores.
EditInv ==
  /\ entry \in 0 .. ValueMax
  /\ "value" \in menu.open => menu.backup = entry

Together == KeyTypeOK /\ SlotInv /\ MenuInv /\ PressInv /\ EditInv

\* What the count becomes.
LEMMA ActsAdds ==
  ASSUME acted \in [{3, 4} -> 0 .. MaxActed], NEW k, NEW does \in BOOLEAN, Acts(k, does)
  PROVE  /\ acted' \in [{3, 4} -> 0 .. MaxActed]
         /\ \A j \in {3, 4} : IF j = k /\ does THEN acted[j] = 0 => acted'[j] = 1
                              ELSE acted'[j] = acted[j]
  BY DEF Acts, MaxActed

\* A call that hands over an event of k keeps the count of presses, if the
\* event acts only as a short or as a long press.
LEMMA TakenPress ==
  ASSUME KeyTypeOK, SlotInv, PressInv, NEW k \in KeyIds, NEW d \in 1 .. Late, TakePending(k, d),
         NEW does \in BOOLEAN, Acts(k, does),
         does /\ k \in {3, 4} => keys[k].pending \in {"SHORT_PRESS", "LONG_PRESS"}
  PROVE  PressInv'
<1>1. /\ acted' \in [{3, 4} -> 0 .. MaxActed]
      /\ \A j \in {3, 4} : IF j = k /\ does THEN acted[j] = 0 => acted'[j] = 1
                           ELSE acted'[j] = acted[j]
  BY ActsAdds DEF PressInv
<1>2. ASSUME NEW j \in {3, 4}
      PROVE  /\ acted'[j] <= 1
             /\ keys'[j].pending = "SHORT_PRESS" => keys'[j].stable_state = 1
             /\ keys'[j].pending \in {"SHORT_PRESS", "LONG_PRESS"} => acted'[j] = 0
             /\ keys'[j].stable_state = 0 /\ ~ keys'[j].long_press_fired => acted'[j] = 0
  <2>1. keys'[j].pending = (IF j = k THEN "NONE" ELSE keys[j].pending)
        /\ keys'[j].stable_state = keys[j].stable_state
        /\ keys'[j].long_press_fired = keys[j].long_press_fired
    BY DEF TakePending, Waited, KeyIds
  <2>2. CASE j = k /\ does
    <3>1. keys[j].pending \in {"SHORT_PRESS", "LONG_PRESS"} /\ j \in KeyIds
      BY <2>2
    <3>2. keys[j].stable_state = 1 \/ keys[j].long_press_fired
      BY <3>1 DEF PressInv, SlotInv, Fits
    <3>3. acted[j] = 0
      BY <3>1 DEF PressInv
    <3>4. QED
      BY <1>1, <2>1, <2>2, <3>2, <3>3
  <2>3. CASE ~ (j = k /\ does)
    BY <1>1, <2>1, <2>3 DEF PressInv
  <2>4. QED
    BY <2>2, <2>3
<1>3. QED
  BY <1>1, <1>2 DEF PressInv

\* A call that samples: a key goes down only after its count is back to 0.
LEMMA SampledPress ==
  ASSUME KeyTypeOK, SlotInv, PressInv, NEW d \in 1 .. Late, NEW down \in Downs, Scan(d, down)
  PROVE  PressInv'
<1>1. ASSUME NEW k \in {3, 4}
      PROVE  /\ acted'[k] \in 0 .. MaxActed /\ acted'[k] <= 1
             /\ keys'[k].pending = "SHORT_PRESS" => keys'[k].stable_state = 1
             /\ keys'[k].pending \in {"SHORT_PRESS", "LONG_PRESS"} => acted'[k] = 0
             /\ keys'[k].stable_state = 0 /\ ~ keys'[k].long_press_fired => acted'[k] = 0
  <2> DEFINE key == keys[k]
             raw == IF k \in down THEN 0 ELSE 1
  <2>1. /\ k \in KeyIds /\ key \in KeyRecords /\ raw \in {0, 1}
        /\ acted[k] \in 0 .. MaxActed /\ acted[k] <= 1
        /\ key.stable_state = 0 /\ ~ key.long_press_fired => acted[k] = 0
    BY DEF KeyTypeOK, KeyIds, PressInv
  <2>2. key.pending = "NONE" /\ key.stable_state \in {0, 1} /\ key.long_press_fired \in BOOLEAN
        /\ (key.long_press_fired => key.stable_state = 0)
    BY <2>1 DEF Scan, SampleKeys, HasPending, KeyRecords, SlotInv, Fits
  <2>3. keys'[k] = SampleKey(key, raw, d)
    BY <2>1 DEF Scan, SampleKeys
  <2>4. acted'[k] = IF key.stable_state = 1 THEN 0 ELSE acted[k]
    BY DEF Scan
  <2>5. CASE key.stable_state = 1
    <3>1. acted'[k] = 0
      BY <2>4, <2>5
    <3>2. keys'[k].pending # "SHORT_PRESS"
      <4>1. ~ (Settles(key, raw) /\ raw # 0)
        BY <2>1, <2>5 DEF Settles
      <4>2. QED
        BY <2>2, <2>3, <2>5, <4>1 DEF SampleKey, Sampled, Pressed, LongFires, RepeatFires
    <3>3. QED
      BY <3>1, <3>2 DEF MaxActed
  <2>6. CASE key.stable_state = 0
    <3>1. acted'[k] = acted[k]
      BY <2>4, <2>6
    <3>2. CASE Settles(key, raw)
      <4>1. raw # 0
        BY <2>6, <3>2 DEF Settles
      <4>2. /\ keys'[k].stable_state = 1
            /\ keys'[k].pending = IF key.long_press_fired THEN "RELEASE" ELSE "SHORT_PRESS"
        BY <2>3, <3>2, <4>1 DEF SampleKey, LetGo, Sampled
      <4>3. QED
        BY <2>1, <2>2, <2>6, <3>1, <4>2
    <3>3. CASE ~ Settles(key, raw) /\ LongFires(key, d)
      <4>1. /\ keys'[k].long_press_fired = TRUE /\ keys'[k].pending = "LONG_PRESS"
            /\ ~ key.long_press_fired
        BY <2>3, <3>3 DEF SampleKey, Sampled, LongFires
      <4>2. QED
        BY <2>1, <2>6, <3>1, <4>1
    <3>4. CASE ~ Settles(key, raw) /\ ~ LongFires(key, d)
      <4>1. /\ keys'[k].pending \in {"NONE", "LONG_PRESS_REPEAT"}
            /\ keys'[k].long_press_fired = key.long_press_fired
        <5>1. CASE RepeatFires(key, d)
          <6>1. keys'[k] = Sampled(key, raw, 0, 0, TRUE, "LONG_PRESS_REPEAT")
            BY <2>3, <3>4, <5>1 DEF SampleKey
          <6>2. key.long_press_fired = TRUE
            BY <2>2, <5>1 DEF RepeatFires
          <6>3. keys'[k].pending = "LONG_PRESS_REPEAT" /\ keys'[k].long_press_fired = TRUE
            BY <6>1 DEF Sampled
          <6>4. QED
            BY <6>2, <6>3
        <5>2. CASE ~ RepeatFires(key, d)
          <6>1. keys'[k] = Sampled(key, raw, key.stable_state, Elapsed(key, d),
                                   key.long_press_fired, key.pending)
            BY <2>3, <3>4, <5>2 DEF SampleKey
          <6>2. QED
            BY <2>2, <6>1 DEF Sampled
        <5>3. QED
          BY <5>1, <5>2
      <4>2. QED
        BY <2>1, <2>6, <3>1, <4>1
    <3>5. QED
      BY <3>2, <3>3, <3>4
  <2>7. QED
    BY <2>2, <2>5, <2>6
<1>2. acted' = [k \in {3, 4} |-> acted'[k]]
  BY DEF Scan
<1>3. acted' \in [{3, 4} -> 0 .. MaxActed]
  BY <1>1, <1>2
<1>4. QED
  BY <1>1, <1>3 DEF PressInv

-----------------------------------------------------------------------------
(* One lemma per action of key_task and display_task.  Each says that the   *)
(* invariant is kept and what the two action properties ask of the step.    *)

Cancels == "value" \in menu.open /\ "value" \notin menu'.open /\ keys[4].pending # "NONE"
           /\ keys'[4].pending = "NONE" => contrast' = entry
MarksChanges == menu.active /\ menu'.active /\ View' # View => menu'.dirty

Kept == Together' /\ Cancels /\ MarksChanges

\* An event while the menu is active.
LEMMA MenuKeyKeeps ==
  ASSUME Together, NEW k \in KeyIds, NEW d \in 1 .. Late, MenuKey(k, d)
  PROVE  Kept
<1> DEFINE e == keys[k].pending
           does == Place(menu') # Place(menu) \/ remote_mode' # remote_mode
<1>1. /\ KeyTypeOK' /\ SlotInv' /\ keys[k].pending # "NONE"
      /\ \A j \in KeyIds : j # k => keys'[j].pending = keys[j].pending
  BY TakePendingKeeps DEF MenuKey, Together
<1>2. e \in KeyEvents
  BY <1>1 DEF Together, KeyTypeOK, KeyRecords
<1>3. MenuInv /\ menu.active /\ KeyStep(k, e)
  BY <1>2, HandleKeyStep DEF MenuKey, Together
<1>4. does /\ k \in {3, 4} => keys[k].pending \in {"SHORT_PRESS", "LONG_PRESS"}
  BY <1>2, <1>3 DEF KeyStep, KeyEvents
<1>5. PressInv'
  <2>1. does \in BOOLEAN /\ Acts(k, does) /\ TakePending(k, d)
    BY DEF MenuKey
  <2> HIDE DEF does
  <2>2. QED
    BY <1>4, <2>1, TakenPress DEF Together
<1>6. EditInv'
  <2>1. /\ entry' = IF "value" \notin menu'.open THEN 0
                    ELSE IF "value" \in menu.open THEN entry ELSE contrast
        /\ contrast \in 0 .. ValueMax /\ entry \in 0 .. ValueMax /\ 0 \in 0 .. ValueMax
        /\ "value" \in menu.open => menu.backup = entry
        /\ "value" \in menu'.open =>
             menu'.backup = IF "value" \in menu.open THEN menu.backup ELSE contrast
    BY <1>3, MenuNumbers DEF MenuKey, MenuInv, Together, EditInv, KeyStep
  <2>2. QED
    BY <2>1 DEF EditInv
<1>7. Cancels
  <2> SUFFICES ASSUME "value" \in menu.open, "value" \notin menu'.open, keys[4].pending # "NONE",
                      keys'[4].pending = "NONE"
               PROVE  contrast' = entry
    BY DEF Cancels
  <2>1. k = 4
    BY <1>1 DEF KeyIds
  <2>2. QED
    BY <1>3, <2>1 DEF KeyStep, Together, EditInv
<1>8. MarksChanges
  BY <1>3 DEF KeyStep, Marked, MarksChanges
<1>9. QED
  BY <1>1, <1>3, <1>5, <1>6, <1>7, <1>8 DEF Kept, Together, KeyStep

\* An event while the menu is not active: a KEY4 long press brings it up.
LEMMA ModeKeyKeeps ==
  ASSUME Together, NEW k \in KeyIds, NEW d \in 1 .. Late, ModeKey(k, d)
  PROVE  Kept
<1> DEFINE does == k = 4 /\ keys[k].pending = "LONG_PRESS"
<1>1. KeyTypeOK' /\ SlotInv'
  BY TakePendingKeeps DEF ModeKey, Together
<1>2. PressInv'
  <2>1. /\ does \in BOOLEAN /\ Acts(k, does) /\ TakePending(k, d)
        /\ does => keys[k].pending \in {"SHORT_PRESS", "LONG_PRESS"}
    BY DEF ModeKey
  <2> HIDE DEF does
  <2>2. QED
    BY <2>1, TakenPress DEF Together
<1>3. ~ menu.active /\ menu.open = {} /\ entry' = entry
  BY DEF ModeKey, Together, MenuInv, MenuOK, OneDialog
<1>4. MenuInv' /\ "value" \notin menu'.open
  <2>1. CASE Activate
    BY <2>1, ActivateStep DEF Together
  <2>2. CASE UNCHANGED menuVars
    BY <1>3, <2>2 DEF Together, MenuInv, menuVars
  <2>3. QED
    BY <2>1, <2>2 DEF ModeKey
<1>5. QED
  BY <1>1, <1>2, <1>3, <1>4 DEF Kept, Together, EditInv, Cancels, MarksChanges

\* A confirmed reset: everything is as at power-on.
LEMMA ResetKeeps ==
  ASSUME Together, NEW k \in KeyIds, NEW d \in 1 .. Late, Reset(k, d)
  PROVE  Kept
<1>1. KeyDriverInit'
  BY DEF Reset, KeyDriverInit
<1>2. KeyTypeOK' /\ SlotInv'
  BY <1>1, InitFits, PTL
<1>3. MenuInv' /\ menu'.open = {} /\ menu'.dirty = TRUE
  BY MenuStartOK, MenuNumbers DEF Reset, MenuInv, AtRoot
<1>4. PressInv'
  <2>1. acted' = [j \in {3, 4} |-> 0] /\ keys' = [j \in KeyIds |-> Released]
    BY DEF Reset
  <2>2. QED
    BY <2>1 DEF PressInv, Released, KeyIds, MaxActed
<1>5. EditInv'
  BY <1>3, MenuNumbers DEF Reset, EditInv
<1>6. "value" \notin menu.open
  BY DEF Reset, Resets, Together, MenuInv, MenuOK, OneDialog
<1>7. QED
  BY <1>2, <1>3, <1>4, <1>5, <1>6 DEF Kept, Together, Cancels, MarksChanges

\* A call that samples the keys.
LEMMA ScanKeeps ==
  ASSUME Together, NEW d \in 1 .. Late, NEW down \in Downs, Scan(d, down)
  PROVE  Kept
<1>1. KeyTypeOK' /\ SlotInv'
  BY SampleKeysKeeps DEF Scan, Together
<1>2. PressInv'
  BY SampledPress DEF Together
<1>3. UNCHANGED menuVars /\ entry' = entry
  BY DEF Scan
<1>4. MenuInv' /\ EditInv' /\ View' = View /\ menu' = menu
  BY <1>3 DEF Together, MenuInv, EditInv, menuVars, View
<1>5. QED
  BY <1>1, <1>2, <1>4 DEF Kept, Together, Cancels, MarksChanges

\* A step of display_task.
LEMMA DisplayKeeps ==
  ASSUME Together, DisplayTask
  PROVE  Kept
<1>1. /\ MenuInv' /\ View' = View /\ menu'.open = menu.open /\ menu'.backup = menu.backup
  BY DisplayStep DEF Together, Place
<1>2. keys' = keys /\ told' = told /\ acted' = acted /\ entry' = entry
  BY DEF DisplayTask, keyVars
<1>3. KeyTypeOK' /\ SlotInv' /\ PressInv' /\ EditInv'
  BY <1>1, <1>2 DEF Together, KeyTypeOK, SlotInv, PressInv, EditInv
<1>4. QED
  BY <1>1, <1>3 DEF Kept, Together, Cancels, MarksChanges

\* Before the first scan.
LEMMA StartFits == Init => Together
<1> SUFFICES ASSUME Init PROVE Together
  OBVIOUS
<1>1. KeyTypeOK /\ SlotInv
  BY InitFits DEF Init
<1>2. MenuInv /\ "value" \notin menu.open
  BY MenuStartOK, MenuNumbers DEF Init, MenuInit, MenuInv, AtRoot
<1>3. PressInv
  BY DEF Init, KeyDriverInit, PressInv, Released, KeyIds, MaxActed
<1>4. EditInv
  BY <1>2, MenuNumbers DEF Init, EditInv
<1>5. QED
  BY <1>1, <1>2, <1>3, <1>4 DEF Together

\* Every step.
LEMMA NextKeeps == Together /\ Next => Kept
<1> SUFFICES ASSUME Together, Next PROVE Kept
  OBVIOUS
<1>1. CASE DisplayTask
  BY <1>1, DisplayKeeps
<1>2. CASE KeyProcess
  <2>1. PICK d \in 1 .. Late : \/ \E k \in KeyIds : MenuKey(k, d) \/ ModeKey(k, d) \/ Reset(k, d)
                               \/ \E down \in Downs : Scan(d, down)
    BY <1>2 DEF KeyProcess
  <2>2. QED
    BY <2>1, MenuKeyKeeps, ModeKeyKeeps, ResetKeeps, ScanKeeps
<1>3. QED
  BY <1>1, <1>2 DEF Next

\* The inductive invariant of the keys and the menu together.
THEOREM KeyTaskInvariant == Spec => []Together
<1>1. Together /\ UNCHANGED vars => Together'
  BY DEF Together, KeyTypeOK, SlotInv, MenuInv, PressInv, EditInv, vars, keyVars, menuVars
<1>2. Together /\ [Next]_vars => Together'
  BY <1>1, NextKeeps DEF Kept
<1>3. QED
  BY <1>2, StartFits, PTL DEF Spec

\* user_app_key_process uses the driver as KeyDriver says: the driver starts
\* anew with the device, and every other step of the task that touches it is a
\* call of key_drv_scan, whose event is handed to the menu in the same step.
THEOREM TaskDrivesKeys == Spec => KeyDriverInit /\ [][KeyDrvScan \/ KeyDriverInit']_keyVars
<1>1. Init => KeyDriverInit
  BY DEF Init
<1>2. [Next]_vars => [KeyDrvScan \/ KeyDriverInit']_keyVars
  <2>1. CASE KeyProcess
    <3>1. PICK d \in 1 .. Late : \/ \E k \in KeyIds : MenuKey(k, d) \/ ModeKey(k, d) \/ Reset(k, d)
                                 \/ \E down \in Downs : Scan(d, down)
      BY <2>1 DEF KeyProcess
    <3>2. CASE \E k \in KeyIds : MenuKey(k, d) \/ ModeKey(k, d)
      BY <3>2 DEF MenuKey, ModeKey, KeyDrvScan
    <3>3. CASE \E k \in KeyIds : Reset(k, d)
      BY <3>3 DEF Reset, KeyDriverInit
    <3>4. CASE \E down \in Downs : Scan(d, down)
      BY <3>4 DEF Scan, KeyDrvScan
    <3>5. QED
      BY <3>1, <3>2, <3>3, <3>4
  <2>2. CASE DisplayTask
    BY <2>2 DEF DisplayTask
  <2>3. CASE UNCHANGED vars
    BY <2>3 DEF vars, keyVars
  <2>4. QED
    BY <2>1, <2>2, <2>3 DEF Next
<1>3. QED
  BY <1>1, <1>2, PTL DEF Spec

\* Every variable keeps its type, for any tree of items, any window and any
\* times of the keys.
THEOREM KeyTaskTypes == Spec => []TypeOK
<1>1. Together => TypeOK
  BY DEF Together, MenuInv, MenuOK, MenuRecords, PressInv, EditInv, TypeOK
<1>2. QED
  BY <1>1, KeyTaskInvariant, PTL

\* List, cursor, window and stack always belong together: the walk from the
\* root that leaves a list finds the one it was opened from.
THEOREM MenuIsWellFormed == Spec => []MenuWellFormed
<1>1. Together => MenuWellFormed
  BY MenuOKMeans DEF Together, MenuInv
<1>2. QED
  BY <1>1, KeyTaskInvariant, PTL

\* A dialog is the selected item's, and the callback it runs is that item's.
THEOREM DialogsMatch == Spec => []DialogIsTheItems
<1>1. Together => DialogIsTheItems
  BY MenuOKMeans DEF Together, MenuInv
<1>2. QED
  BY <1>1, KeyTaskInvariant, PTL

\* However long a key is held and however late the calls come, one press
\* does one thing.
THEOREM OnePressOneStep == Spec => []OneStepPerPress
<1>1. Together => OneStepPerPress
  BY DEF Together, PressInv, OneStepPerPress
<1>2. QED
  BY <1>1, KeyTaskInvariant, PTL

\* KEY4 brings back the value that the editing began with.
THEOREM EditCancelled == Spec => CancelRestores
<1>1. Together /\ [Next]_vars =>
        [("value" \in menu.open /\ "value" \notin menu'.open /\ keys[4].pending # "NONE"
          /\ keys'[4].pending = "NONE") => contrast' = entry]_vars
  BY NextKeeps DEF Kept, Cancels
<1>2. QED
  BY <1>1, KeyTaskInvariant, PTL DEF Spec, CancelRestores

\* Whatever changes on an active menu is marked for the next tick.
THEOREM ChangesMarked == Spec => ChangesAreMarked
<1>1. Together /\ [Next]_vars =>
        [(menu.active /\ menu'.active /\ View' # View) => menu'.dirty]_vars
  BY NextKeeps DEF Kept, MarksChanges
<1>2. QED
  BY <1>1, KeyTaskInvariant, PTL DEF Spec, ChangesAreMarked

=============================================================================
