------------------------------ MODULE KeyDriver ------------------------------
(***************************************************************************)
(* key_drv.c: four keys polled every 20 ms, debounced, with one slot for a *)
(* pending event each.  A call of key_drv_scan either hands over the       *)
(* pending event of the lowest key that has one, and then samples nothing, *)
(* or samples every key.  Time is counted in calls; a call may come late.  *)
(*                                                                         *)
(* Of a key's two time stamps only one matters at a time: press_start_tick *)
(* until the long press fires, last_repeat_tick afterwards; "since" is the *)
(* time passed since that one.                                             *)
(***************************************************************************)
EXTENDS Integers, FiniteSets

CONSTANTS Debounce,   \* DEBOUNCE_SAMPLES
          LongPress,  \* KEY_LONG_PRESS_MS in scans
          Repeat,     \* KEY_LONG_REPEAT_MS in scans
          Late,       \* bound: scans that may pass from one call to the next
          MaxDown     \* bound: keys seen pressed at the same time

ASSUME KeyAssumption ==
  /\ Debounce \in Nat \ {0} /\ LongPress \in Nat \ {0} /\ Repeat \in Nat \ {0}
  /\ Late \in Nat \ {0} /\ MaxDown \in Nat

VARIABLES keys,       \* keys[]: one record per key
          told        \* history: keys whose LONG_PRESS was handed over and
                      \* whose RELEASE was not yet

keyVars == <<keys, told>>

KeyIds == 1 .. 4
KeyEvents == {"SHORT_PRESS", "LONG_PRESS", "RELEASE", "LONG_PRESS_REPEAT"}
MaxSince == IF LongPress > Repeat THEN LongPress ELSE Repeat

KeyRecords == [last_raw : {0, 1}, stable_state : {0, 1}, debounce_cnt : 0 .. Debounce,
               since : 0 .. MaxSince, long_press_fired : BOOLEAN,
               pending : KeyEvents \cup {"NONE"}]

\* key_init_entry: zeroed, and taken for released
Released == [last_raw |-> 0, stable_state |-> 1, debounce_cnt |-> 0, since |-> 0,
             long_press_fired |-> FALSE, pending |-> "NONE"]

KeyDriverInit == keys = [k \in KeyIds |-> Released] /\ told = {}

-----------------------------------------------------------------------------
(* One key in a sampling scan, d scans after the last call *)

\* The clock only matters while a key is down.
Elapsed(key, d) ==
  IF key.stable_state = 1 THEN key.since
  ELSE IF key.since + d > MaxSince THEN MaxSince ELSE key.since + d

Counted(key, raw) ==
  IF raw # key.last_raw THEN 0
  ELSE IF key.debounce_cnt < Debounce THEN key.debounce_cnt + 1 ELSE Debounce

\* The level has been read DEBOUNCE_SAMPLES times more and is a new one.
Settles(key, raw) ==
  raw = key.last_raw /\ Counted(key, raw) = Debounce /\ raw # key.stable_state

Sampled(key, raw, stable, since, fired, pending) ==
  [last_raw |-> raw, stable_state |-> stable, debounce_cnt |-> Counted(key, raw),
   since |-> since, long_press_fired |-> fired, pending |-> pending]

Pressed(key) == Sampled(key, 0, 0, 0, FALSE, key.pending)

\* Mutant: long_press_fired is not looked at.
LetGoShort(key) == Sampled(key, 1, 1, 0, FALSE, "SHORT_PRESS")
LetGo(key) ==
  Sampled(key, 1, 1, 0, FALSE, IF key.long_press_fired THEN "RELEASE" ELSE "SHORT_PRESS")

LongFires(key, d) ==
  key.stable_state = 0 /\ ~ key.long_press_fired /\ Elapsed(key, d) >= LongPress
\* Mutant: the interval is met exactly or not at all.
RepeatFiresOnTime(key, d) ==
  key.stable_state = 0 /\ key.long_press_fired /\ Elapsed(key, d) = Repeat
RepeatFires(key, d) ==
  key.stable_state = 0 /\ key.long_press_fired /\ Elapsed(key, d) >= Repeat

SampleKey(key, raw, d) ==
  IF Settles(key, raw) THEN IF raw = 0 THEN Pressed(key) ELSE LetGo(key)
  ELSE IF LongFires(key, d) THEN Sampled(key, raw, 0, 0, TRUE, "LONG_PRESS")
  ELSE IF RepeatFires(key, d) THEN Sampled(key, raw, 0, 0, TRUE, "LONG_PRESS_REPEAT")
  ELSE Sampled(key, raw, key.stable_state, Elapsed(key, d), key.long_press_fired, key.pending)

-----------------------------------------------------------------------------
(* key_drv_scan *)

HasPending == {k \in KeyIds : keys[k].pending # "NONE"}

\* A key in a call that samples nothing
Waited(key, pending, d) ==
  [last_raw |-> key.last_raw, stable_state |-> key.stable_state,
   debounce_cnt |-> key.debounce_cnt, since |-> Elapsed(key, d),
   long_press_fired |-> key.long_press_fired, pending |-> pending]

\* The call returns the pending event of key k.
TakePending(k, d) ==
  /\ k \in HasPending /\ \A j \in HasPending : k <= j
  /\ keys' = [j \in KeyIds |-> Waited(keys[j], IF j = k THEN "NONE" ELSE keys[j].pending, d)]
  /\ told' = IF keys[k].pending = "LONG_PRESS" THEN told \cup {k}
             ELSE IF keys[k].pending = "RELEASE" THEN told \ {k} ELSE told

\* The call returns nothing; the keys in "down" read as pressed.
\* Mutant: it samples whether or not an event waits.
SampleAlways(d, down) ==
  /\ keys' = [k \in KeyIds |-> SampleKey(keys[k], IF k \in down THEN 0 ELSE 1, d)]
  /\ UNCHANGED told
SampleKeys(d, down) ==
  /\ HasPending = {}
  /\ keys' = [k \in KeyIds |-> SampleKey(keys[k], IF k \in down THEN 0 ELSE 1, d)]
  /\ UNCHANGED told

Downs == {down \in SUBSET KeyIds : Cardinality(down) <= MaxDown}

KeyDrvScan ==
  \E d \in 1 .. Late :
    (\E k \in KeyIds : TakePending(k, d)) \/ (\E down \in Downs : SampleKeys(d, down))

\* key_task scans every 20 ms.
KeySpec == KeyDriverInit /\ [][KeyDrvScan]_keyVars /\ WF_keyVars(KeyDrvScan)

-----------------------------------------------------------------------------
(* Properties *)

KeyTypeOK == keys \in [KeyIds -> KeyRecords] /\ told \subseteq KeyIds

\* The one slot per key is enough: an event is never put over one that waits.
NoEventOverwritten ==
  [][\A k \in KeyIds : keys[k].pending # "NONE" =>
        keys'[k].pending \in {"NONE", keys[k].pending}]_keyVars

\* What is handed over of one key is (SHORT_PRESS | LONG_PRESS
\* LONG_PRESS_REPEAT* RELEASE)*, however the contacts bounce.
Taken(k) == keys[k].pending # "NONE" /\ keys'[k].pending = "NONE"
EventsArePaired ==
  [][\A k \in KeyIds : Taken(k) =>
        (keys[k].pending \in {"SHORT_PRESS", "LONG_PRESS"} <=> k \notin told)]_keyVars

\* A key that reads as pressed for good goes on giving events, though calls
\* that hand over an event of another key sample nothing.
HeldKeyRepeats ==
  \A k \in KeyIds : <>[](keys[k].last_raw = 0) => []<>(keys[k].pending # "NONE")

=============================================================================
