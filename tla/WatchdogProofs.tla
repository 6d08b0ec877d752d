--------------------------- MODULE WatchdogProofs ---------------------------
(***************************************************************************)
(* The watchdog for any tasks, any lateness of theirs, any times an erase  *)
(* may take and any number of configurations stored: the types, no reset   *)
(* without a cause, and the bound on how long a dead task goes unnoticed.  *)
(***************************************************************************)
EXTENDS Watchdog, TLAPS

\* Unless something was silent or the Flash was erased, the next look comes
\* no later than Period after the last refresh.
QuietInv == ~ silent => iwdg + phase < Period

\* The last refresh was made at a look, or the device has just started.
LookInv == iwdg + phase >= Period - 1 \/ (phase = 0 /\ \A t \in Tasks : age[t] = 0)

\* What the next look will see of a dead task, if the device gets there: the
\* look comes before a bound that grows by a Period with each configuration
\* stored, and a task that still passes at it has been hidden by one of them.
NextLook == deadFor + phase + 1
Hidden == stores * Period
DeadInv ==
  /\ dead = {} => deadFor = 0 /\ stores = 0
  /\ deadFor <= iwdg + Timeout + Hidden
  /\ iwdg + phase <= Iwdg => NextLook <= Timeout + Hidden + Period
  /\ \A t \in dead :
       iwdg + phase <= Iwdg /\ age[t] + phase < Timeout => NextLook <= Timeout + Hidden

IInv == WatchdogTypeOK /\ QuietInv /\ LookInv /\ DeadInv

-----------------------------------------------------------------------------
(* Numbers *)

\* The numbers among the constants.
LEMMA Numbers ==
  /\ Period \in Nat /\ Timeout \in Nat /\ Iwdg \in Nat /\ MaxStores \in Nat
  /\ 0 < Timeout /\ Timeout < Period /\ Period <= Iwdg /\ Iwdg <= 2 * Period - 2
  /\ Slot0 \in Tasks /\ Busy \in [Tasks -> Nat] /\ EraseTimes \subseteq Nat
  BY WatchdogAssumption

\* One more configuration is one more Period.
LEMMA OneMore ==
  ASSUME NEW s \in Nat
  PROVE  s * Period \in Nat /\ (s + 1) * Period = s * Period + Period
  BY Numbers

\* A sum of natural numbers.
LEMMA AtLeastZero ==
  ASSUME NEW a \in Nat, NEW b \in Nat
  PROVE  0 <= a + b + 0
  OBVIOUS

\* The next look comes within a Period.
LEMMA WithinPeriod ==
  ASSUME NEW p \in Nat, p < Period
  PROVE  p + 1 <= Timeout + 0 + Period
  BY Numbers

\* The variables of a typed state.
LEMMA Types ==
  ASSUME WatchdogTypeOK
  PROVE  /\ phase \in Nat /\ phase < Period /\ iwdg \in Nat /\ iwdg <= Iwdg + 1
         /\ deadFor \in Nat /\ stores \in Nat /\ stores <= MaxStores
         /\ Hidden \in Nat
         /\ \A t \in Tasks : age[t] \in Nat /\ age[t] <= Timeout + 1
  BY Numbers, OneMore DEF WatchdogTypeOK, Hidden

-----------------------------------------------------------------------------
(* The start and the reset *)

\* Every task has just been registered.
LEMMA IdleType ==
  /\ Idle \in [Tasks -> 0 .. Timeout + 1] /\ \A t \in Tasks : Idle[t] = 0
  /\ \A t \in Tasks : Idle[t] \in 0 .. Busy[t]
  BY Numbers DEF Idle

LEMMA InitHolds == Init => IInv
<1> SUFFICES ASSUME Init PROVE IInv
  OBVIOUS
<1>1. WatchdogTypeOK
  <2>1. /\ phase \in 0 .. Period - 1 /\ iwdg \in 0 .. Iwdg + 1
        /\ deadFor \in Nat /\ stores \in 0 .. MaxStores
    BY Numbers DEF Init
  <2>2. age \in [Tasks -> 0 .. Timeout + 1] /\ \A t \in Tasks : busy[t] \in 0 .. Busy[t]
    BY IdleType DEF Init
  <2>3. dead \subseteq Tasks /\ config \in {"valid", "blank"} /\ silent \in BOOLEAN
    BY DEF Init
  <2>4. QED
    BY <2>1, <2>2, <2>3 DEF WatchdogTypeOK
<1>2. QuietInv /\ LookInv
  BY Numbers, IdleType DEF Init, QuietInv, LookInv
<1>3. DeadInv
  <2>1. Hidden = 0
    BY Numbers DEF Init, Hidden
  <2>2. QED
    BY <2>1, Numbers DEF Init, DeadInv, NextLook
<1>4. QED
  BY <1>1, <1>2, <1>3 DEF IInv

LEMMA ResetHolds ==
  ASSUME IInv, NEW d \in EraseTimes, Reset(d) PROVE IInv'
<1>0. d \in Nat
  BY Numbers
<1>1. /\ phase' = 0 /\ age' = Idle /\ busy' = Idle /\ dead' = {} /\ deadFor' = 0 /\ stores' = 0
      /\ iwdg' \in 0 .. Iwdg + 1 /\ silent' \in BOOLEAN /\ config' \in {"valid", "blank"}
      /\ ~ silent' => iwdg' = 0
  <2>1. CASE config = "valid"
    <3>1. iwdg' = 0 /\ config' = config /\ silent' = FALSE
      BY <2>1 DEF Reset
    <3>2. iwdg' \in 0 .. Iwdg + 1
      BY <3>1, Numbers
    <3>3. QED
      BY <2>1, <3>1, <3>2 DEF Reset
  <2>2. CASE config # "valid"
    <3>1. Capped(d, Iwdg + 1) \in 0 .. Iwdg + 1 /\ (d = 0 => Capped(d, Iwdg + 1) = 0)
      BY <1>0, Numbers DEF Capped
    <3>2. silent' = (d > 0) /\ iwdg' = Capped(d, Iwdg + 1)
      BY <2>2 DEF Reset
    <3>3. ~ (d > 0) => d = 0
      BY <1>0
    <3>4. config' \in {"valid", "blank"} /\ silent' \in BOOLEAN
      BY <2>2 DEF Reset
    <3>5. QED
      BY <3>1, <3>2, <3>3, <3>4 DEF Reset
  <2>3. QED
    BY <2>1, <2>2
<1>2. WatchdogTypeOK'
  BY <1>1, Numbers, IdleType DEF WatchdogTypeOK
<1>3. QuietInv' /\ LookInv'
  <2>1. iwdg' = 0 => iwdg' + phase' < Period
    BY <1>1, Numbers
  <2>2. QuietInv'
    BY <1>1, <2>1 DEF QuietInv
  <2>3. \A t \in Tasks : age'[t] = 0
    BY <1>1, IdleType
  <2>4. QED
    BY <1>1, <2>2, <2>3 DEF LookInv
<1>4. DeadInv'
  <2>1. Hidden' = 0
    BY <1>1, Numbers DEF Hidden
  <2>2. iwdg' \in Nat
    BY <1>1, Numbers
  <2>7. deadFor' = 0 /\ phase' = 0
    BY <1>1
  <2>8. NextLook' = 1
    BY <2>7 DEF NextLook
  <2>3. deadFor' <= iwdg' + Timeout + Hidden'
    BY <2>1, <2>2, <2>7, Numbers, AtLeastZero
  <2>4. NextLook' <= Timeout + Hidden' + Period
    BY <2>1, <2>8, Numbers
  <2>5. \A t \in dead' : iwdg' + phase' <= Iwdg /\ age'[t] + phase' < Timeout
                          => NextLook' <= Timeout + Hidden'
    BY <1>1
  <2>6. QED
    BY <1>1, <2>3, <2>4, <2>5 DEF DeadInv
<1>5. QED
  BY <1>2, <1>3, <1>4 DEF IInv

-----------------------------------------------------------------------------
(* One unit of time *)

Older == [t \in Tasks |-> Capped(age[t] + 1, Timeout + 1)]

\* Ages are counted up to what a check tells apart.
LEMMA OlderAges ==
  ASSUME WatchdogTypeOK
  PROVE  \A t \in Tasks : /\ Older[t] \in Nat /\ Older[t] <= Timeout + 1
                          /\ Older[t] = age[t] + 1 \/ Older[t] = Timeout + 1
                          /\ age[t] <= Timeout => Older[t] = age[t] + 1
<1> SUFFICES ASSUME NEW t \in Tasks
             PROVE  /\ Older[t] \in Nat /\ Older[t] <= Timeout + 1
                    /\ Older[t] = age[t] + 1 \/ Older[t] = Timeout + 1
                    /\ age[t] <= Timeout => Older[t] = age[t] + 1
  OBVIOUS
<1>1. Older[t] = IF age[t] + 1 > Timeout + 1 THEN Timeout + 1 ELSE age[t] + 1
  BY DEF Older, Capped
<1>2. QED
  BY <1>1, Types, Numbers

\* What a unit of time does, apart from the types.
LEMMA TickFacts ==
  ASSUME WatchdogTypeOK, Tick
  PROVE  /\ iwdg <= Iwdg
         /\ phase = 0 => phase' = Period - 1
         /\ phase # 0 => phase' = phase - 1 /\ iwdg' = iwdg + 1 /\ silent' = silent
         /\ phase = 0 /\ Healthy(Older) => iwdg' = 0
         /\ phase = 0 /\ ~ Healthy(Older) => iwdg' = iwdg + 1 /\ silent'
         /\ \A t \in Tasks : age'[t] \in {0, Older[t]} /\ (t \in dead => age'[t] = Older[t])
         /\ dead = {} => deadFor' = 0
         /\ dead # {} => deadFor' = deadFor + 1
         /\ dead' = dead /\ stores' = stores /\ config' = config
<1>1. ~ Healthy(Older) => \E t \in Tasks : ~ (Older[t] <= Timeout)
  BY DEF Healthy
<1>2. /\ Running
      /\ phase' = IF phase = 0 THEN Period - 1 ELSE phase - 1
      /\ iwdg' = IF phase = 0 /\ Healthy(Older) THEN 0 ELSE iwdg + 1
      /\ silent' = IF phase = 0 /\ Healthy(Older) THEN FALSE
                   ELSE silent \/ (phase = 0 /\ \E t \in Tasks : Older[t] > Timeout)
      /\ age' = [t \in Tasks |-> IF t \in {u \in Tasks \ dead : busy[u] = 0} THEN 0 ELSE Older[t]]
      /\ deadFor' = IF dead = {} THEN 0 ELSE deadFor + 1
      /\ dead' = dead /\ config' = config /\ stores' = stores
  BY DEF Tick, Older, Looks
<1>3. phase # 0 => silent' = silent
  <2>1. silent = TRUE \/ silent = FALSE
    BY DEF WatchdogTypeOK
  <2>2. phase # 0 => silent' = (silent \/ FALSE)
    BY <1>2
  <2>3. QED
    BY <2>1, <2>2
<1>4. phase = 0 /\ ~ Healthy(Older) => silent'
  <2>1. ASSUME NEW t \in Tasks, ~ (Older[t] <= Timeout), WatchdogTypeOK PROVE Older[t] > Timeout
    BY <2>1, OlderAges, Numbers
  <2>2. QED
    BY <1>1, <1>2, <2>1
<1>5. /\ iwdg <= Iwdg
      /\ phase = 0 => phase' = Period - 1
      /\ phase # 0 => phase' = phase - 1 /\ iwdg' = iwdg + 1
      /\ phase = 0 /\ Healthy(Older) => iwdg' = 0
      /\ phase = 0 /\ ~ Healthy(Older) => iwdg' = iwdg + 1
  BY <1>2 DEF Running
<1>6. /\ \A t \in Tasks : age'[t] \in {0, Older[t]} /\ (t \in dead => age'[t] = Older[t])
      /\ dead = {} => deadFor' = 0
      /\ dead # {} => deadFor' = deadFor + 1
      /\ dead' = dead /\ stores' = stores /\ config' = config
  BY <1>2
<1>7. QED
  BY <1>3, <1>4, <1>5, <1>6

\* The times in a unit of time.
LEMMA TickTypes == ASSUME WatchdogTypeOK, Tick PROVE WatchdogTypeOK'
<1>1. /\ phase' \in 0 .. Period - 1 /\ iwdg' \in 0 .. Iwdg + 1
      /\ deadFor' \in Nat /\ stores' \in 0 .. MaxStores
  BY Types, Numbers, TickFacts
<1>2. age' \in [Tasks -> 0 .. Timeout + 1]
  <2>1. \A t \in Tasks : age'[t] \in 0 .. Timeout + 1
    BY OlderAges, TickFacts, Numbers
  <2>2. age' = [t \in Tasks |-> age'[t]]
    BY DEF Tick
  <2>3. QED
    BY <2>1, <2>2
<1>3. ASSUME NEW t \in Tasks PROVE busy'[t] \in 0 .. Busy[t]
  <2>1. PICK next : /\ \A u \in Tasks : next[u] \in Nat /\ next[u] <= Busy[u]
                    /\ \E reports \in SUBSET Tasks :
                         busy' = [u \in Tasks |-> IF u \in reports THEN next[u]
                                                  ELSE IF busy[u] > 0 THEN busy[u] - 1 ELSE 0]
    <3>1. PICK next \in [Tasks -> UNION {0 .. Busy[u] : u \in Tasks}] :
                       /\ \A u \in Tasks : next[u] <= Busy[u]
                       /\ busy' = [u \in Tasks |-> IF u \in {v \in Tasks \ dead : busy[v] = 0}
                                                   THEN next[u]
                                                   ELSE IF busy[u] > 0 THEN busy[u] - 1 ELSE 0]
      BY DEF Tick
    <3>2. \A u \in Tasks : next[u] \in Nat
      BY <3>1, Numbers
    <3>3. {v \in Tasks \ dead : busy[v] = 0} \in SUBSET Tasks
      OBVIOUS
    <3>4. QED
      BY <3>1, <3>2, <3>3
  <2>2. busy[t] \in Nat /\ busy[t] <= Busy[t] /\ Busy[t] \in Nat
    BY Numbers DEF WatchdogTypeOK
  <2>3. busy'[t] \in {next[t], busy[t] - 1, 0} /\ (busy'[t] = busy[t] - 1 => busy[t] > 0 \/ busy'[t] \in {next[t], 0})
    BY <2>1
  <2>4. QED
    BY <2>1, <2>2, <2>3
<1>4. dead' \subseteq Tasks /\ config' \in {"valid", "blank"}
  BY TickFacts DEF WatchdogTypeOK
<1>5. silent' \in BOOLEAN
  BY DEF Tick, WatchdogTypeOK
<1>6. QED
  BY <1>1, <1>2, <1>3, <1>4, <1>5 DEF WatchdogTypeOK

\* A look that refreshes is no later than the bound, and one that does not is
\* the last.
LEMMA TickHolds == ASSUME IInv, Tick PROVE IInv'
<1> USE DEF IInv
<1>1. WatchdogTypeOK'
  BY TickTypes
<1>2. QuietInv'
  BY Types, Numbers, TickFacts DEF QuietInv
<1>3. CASE phase # 0
  <2>1. LookInv'
    BY <1>3, Types, Numbers, TickFacts DEF LookInv
  <2>2. Hidden' = Hidden /\ Hidden \in Nat
    BY Types, TickFacts DEF Hidden
  <2>3. DeadInv'
    <3>1. iwdg' + phase' = iwdg + phase /\ iwdg' = iwdg + 1
      BY <1>3, Types, TickFacts
    <3>2. CASE dead = {}
      BY <1>3, <2>2, <3>1, <3>2, Types, Numbers, TickFacts DEF DeadInv, NextLook
    <3>3. CASE dead # {}
      <4>1. deadFor' = deadFor + 1 /\ NextLook' = NextLook
        BY <1>3, <3>3, Types, TickFacts DEF NextLook
      <4>2. ASSUME NEW t \in dead, age'[t] + phase' < Timeout
            PROVE  age[t] + phase < Timeout
        BY <1>1, <1>3, <4>2, Types, OlderAges, Numbers, TickFacts DEF WatchdogTypeOK
      <4>3. QED
        BY <2>2, <3>1, <3>3, <4>1, <4>2, Types, Numbers, TickFacts DEF DeadInv
    <3>4. QED
      BY <3>2, <3>3
  <2>4. QED
    BY <1>1, <1>2, <2>1, <2>3
<1>4. CASE phase = 0 /\ Healthy(Older)
  <2>1. iwdg' = 0 /\ phase' = Period - 1 /\ iwdg <= Iwdg
    BY <1>4, TickFacts
  <2>2. LookInv'
    BY <2>1, Numbers DEF LookInv
  <2>3. Hidden' = Hidden /\ Hidden \in Nat
    BY Types, TickFacts DEF Hidden
  <2>4. CASE dead = {}
    BY <1>1, <1>2, <2>1, <2>2, <2>3, <2>4, Types, Numbers, TickFacts DEF DeadInv, NextLook
  <2>5. CASE dead # {}
    <3>1. PICK t \in dead : TRUE
      BY <2>5
    <3>2. age[t] + phase < Timeout
      BY <1>4, <3>1, Types, OlderAges, Numbers DEF Healthy, WatchdogTypeOK
    <3>3. deadFor' <= Timeout + Hidden /\ deadFor' = deadFor + 1
      BY <1>4, <2>1, <2>5, <3>2, Types, TickFacts DEF DeadInv, NextLook
    <3>4. \A u \in dead : age'[u] \in Nat
      BY OlderAges, TickFacts DEF WatchdogTypeOK
    <3>5. DeadInv'
      BY <2>1, <2>3, <2>5, <3>3, <3>4, Types, Numbers, TickFacts DEF DeadInv, NextLook
    <3>6. QED
      BY <1>1, <1>2, <2>2, <3>5
  <2>6. QED
    BY <2>4, <2>5
<1>5. CASE phase = 0 /\ ~ Healthy(Older)
  <2>1. iwdg' = iwdg + 1 /\ phase' = Period - 1
    BY <1>5, TickFacts
  <2>2. iwdg >= Period - 1
    <3>1. PICK t \in Tasks : ~ (Older[t] <= Timeout)
      BY <1>5 DEF Healthy
    <3>2. age[t] # 0
      BY <3>1, OlderAges, Types, Numbers
    <3>3. QED
      BY <1>5, <3>2, Types, Numbers DEF LookInv
  <2>3. LookInv' /\ ~ (iwdg' + phase' <= Iwdg)
    BY <2>1, <2>2, Types, Numbers DEF LookInv
  <2>4. Hidden' = Hidden /\ Hidden \in Nat
    BY Types, TickFacts DEF Hidden
  <2>5. DeadInv'
    BY <2>1, <2>3, <2>4, Types, Numbers, TickFacts DEF DeadInv
  <2>6. QED
    BY <1>1, <1>2, <2>3, <2>5
<1>6. QED
  BY <1>3, <1>4, <1>5

-----------------------------------------------------------------------------
(* A task dies, a configuration is stored *)

LEMMA DieHolds ==
  ASSUME IInv, NEW t \in Tasks, Die(t) PROVE IInv'
<1> USE DEF IInv
<1>1. /\ dead = {} /\ dead' = {t} /\ phase' = phase /\ age' = age /\ busy' = busy
      /\ iwdg' = iwdg /\ config' = config /\ silent' = silent
      /\ deadFor' = deadFor /\ stores' = stores
  BY DEF Die
<1>2. WatchdogTypeOK' /\ QuietInv' /\ LookInv'
  BY <1>1 DEF WatchdogTypeOK, QuietInv, LookInv
<1>3. Hidden' = Hidden /\ Hidden = 0
  BY <1>1, Numbers DEF Hidden, DeadInv
<1>4. DeadInv'
  BY <1>1, <1>3, Types, Numbers DEF DeadInv, NextLook
<1>5. QED
  BY <1>2, <1>4

\* A store hides a dead task from the next look at most.
LEMMA StoreHolds ==
  ASSUME IInv, NEW d \in EraseTimes, Store(d) PROVE IInv'
<1> USE DEF IInv
<1>0. d \in Nat
  BY Numbers
<1>1. /\ iwdg <= Iwdg /\ phase' = phase /\ busy' = busy /\ dead' = dead /\ deadFor' = deadFor
      /\ config' \in {"valid", "blank"} /\ silent' = (silent \/ d > 0)
      /\ stores' = IF dead = {} THEN 0 ELSE stores + 1
      /\ dead # {} => stores < MaxStores
  BY DEF Store, Running
<1>2. /\ iwdg' \in Nat /\ iwdg' <= Iwdg + 1 /\ iwdg <= iwdg' /\ (d = 0 => iwdg' = iwdg)
      /\ iwdg' = iwdg + d \/ iwdg' = Iwdg + 1
  <2>1. iwdg' = IF iwdg + d > Iwdg + 1 THEN Iwdg + 1 ELSE iwdg + d
    BY DEF Store, Capped
  <2>2. QED
    BY <1>0, <1>1, <2>1, Types, Numbers
<1>3. \A t \in Tasks : age'[t] \in {0, age[t]}
  BY DEF Store, Reported, WatchdogTypeOK
<1>4. age' \in [Tasks -> 0 .. Timeout + 1]
  <2>1. age' = age \/ age' = [age EXCEPT ![Slot0] = 0]
    BY DEF Store, Reported
  <2>2. 0 \in 0 .. Timeout + 1
    BY Numbers
  <2>3. QED
    BY <2>1, <2>2 DEF WatchdogTypeOK
<1>5. WatchdogTypeOK'
  <2>1. /\ phase' \in 0 .. Period - 1 /\ iwdg' \in 0 .. Iwdg + 1
        /\ deadFor' \in Nat /\ stores' \in 0 .. MaxStores
    BY <1>1, <1>2, Types, Numbers
  <2>2. silent' \in BOOLEAN
    BY <1>1
  <2>3. QED
    BY <1>1, <1>4, <2>1, <2>2 DEF WatchdogTypeOK
<1>6. QuietInv'
  <2>1. ~ silent' => ~ silent /\ ~ (d > 0)
    BY <1>1
  <2>2. ~ (d > 0) => iwdg' = iwdg
    BY <1>0, <1>2
  <2>3. QED
    BY <1>1, <2>1, <2>2 DEF QuietInv
<1>7. LookInv'
  BY <1>1, <1>2, <1>3, Types, Numbers DEF LookInv
<1>8. DeadInv'
  <2>1. CASE dead = {}
    <3>1. Hidden' = Hidden /\ Hidden = 0
      BY <1>1, <2>1, Numbers DEF Hidden, DeadInv
    <3>2. deadFor' = 0 /\ stores' = 0 /\ dead' = {} /\ phase' \in Nat /\ phase' < Period
      BY <1>1, <2>1, Types DEF DeadInv
    <3>6. iwdg' \in Nat /\ NextLook' = phase' + 1
      BY <1>2, <3>2 DEF NextLook
    <3>3. deadFor' <= iwdg' + Timeout + Hidden'
      BY <3>1, <3>2, <3>6, Numbers, AtLeastZero
    <3>4. NextLook' <= Timeout + Hidden' + Period
      <4>1. Hidden' = 0
        BY <3>1
      <4>2. phase' \in Nat /\ phase' < Period /\ NextLook' = phase' + 1
        BY <3>2, <3>6
      <4>3. phase' + 1 <= Timeout + 0 + Period
        BY <4>2, WithinPeriod
      <4>4. QED
        BY <4>1, <4>2, <4>3
    <3>5. QED
      BY <3>2, <3>3, <3>4 DEF DeadInv
  <2>2. CASE dead # {}
    <3>1. Hidden' = Hidden + Period /\ Hidden \in Nat
      BY <1>1, <2>2, Types, OneMore DEF Hidden
    <3>2. NextLook' = NextLook /\ NextLook \in Nat /\ (iwdg' + phase' <= Iwdg => iwdg + phase <= Iwdg)
      BY <1>1, <1>2, Types, Numbers DEF NextLook
    <3>3. QED
      BY <1>1, <1>2, <2>2, <3>1, <3>2, Types, Numbers DEF DeadInv
  <2>3. QED
    BY <2>1, <2>2
<1>9. QED
  BY <1>5, <1>6, <1>7, <1>8

-----------------------------------------------------------------------------
(* The invariant *)

LEMMA StepHolds == IInv /\ [Next]_vars => IInv'
<1> SUFFICES ASSUME IInv, [Next]_vars PROVE IInv'
  OBVIOUS
<1>1. CASE UNCHANGED vars
  BY <1>1 DEF vars, IInv, WatchdogTypeOK, QuietInv, LookInv, DeadInv, NextLook, Hidden
<1>2. CASE Next
  BY <1>2, TickHolds, DieHolds, StoreHolds, ResetHolds DEF Next
<1>3. QED
  BY <1>1, <1>2

LEMMA Invariant == Spec => []IInv
  BY InitHolds, StepHolds, PTL DEF Spec

\* Every variable keeps its type.
THEOREM WatchdogTypes == Spec => []WatchdogTypeOK
<1>1. IInv => WatchdogTypeOK
  BY DEF IInv
<1>2. QED
  BY <1>1, Invariant, PTL

\* The hardware resets the device only when a task was silent for longer than
\* its timeout at a look, or the Flash was erased, since the last refresh.
THEOREM ResetHasCause == Spec => []NoResetWithoutCause
<1>1. IInv => NoResetWithoutCause
  BY Types, Numbers DEF IInv, QuietInv, NoResetWithoutCause, Running
<1>2. QED
  BY <1>1, Invariant, PTL

\* A dead task has the device reset within a bound that grows by one Period
\* with each configuration stored after its death.
THEOREM DeadTaskIsNoticed == Spec => []DeadTaskResets
<1>1. IInv => DeadTaskResets
  BY Types, Numbers DEF IInv, DeadInv, Hidden, DeadTaskResets
<1>2. QED
  BY <1>1, Invariant, PTL

=============================================================================
