------------------------------ MODULE Watchdog ------------------------------
(***************************************************************************)
(* The application's watchdog: tasks report (wdt_monitor_feed), the        *)
(* watchdog task looks every Period whether all of them have (it has the   *)
(* highest priority and looks before they run), and only then refreshes    *)
(* the hardware watchdog, which resets the device when it has not been     *)
(* refreshed for longer than Iwdg.  With it, the one thing that stops all  *)
(* of them: storing the configuration erases a sector of the Flash the     *)
(* program runs from, and neither code nor the system tick goes on until   *)
(* the erase is done, while the hardware watchdog counts on.               *)
(*                                                                         *)
(* One unit of time is 50 ms, the slowest period of a monitored task.  The *)
(* hardware watchdog's 126 * 256 periods of a 32 kHz clock are 1008 ms.    *)
(***************************************************************************)
EXTENDS Integers

CONSTANTS Tasks,       \* the tasks registered with enable_flag 1
          Slot0,       \* the one that registers first
          Period,      \* 1000 ms
          Timeout,     \* 100 ms
          Iwdg,        \* the last age at which the hardware does not reset
          Busy,        \* Busy[t]: bound: whole units t may go on without reporting
          EraseTimes,  \* external: how long the erase of sector 11 may take
          MaxStores    \* bound: configurations stored since a task died

ASSUME WatchdogAssumption ==
  /\ Slot0 \in Tasks
  /\ Period \in Nat \ {0} /\ Timeout \in Nat \ {0} /\ Iwdg \in Nat
  /\ Timeout < Period /\ Period <= Iwdg /\ Iwdg <= 2 * Period - 2
  /\ Busy \in [Tasks -> Nat] /\ EraseTimes \subseteq Nat /\ MaxStores \in Nat

VARIABLES phase,    \* units until the watchdog task looks again
          age,      \* per task: units since last_feed_ms, up to Timeout + 1
          busy,     \* per task: units until it reports again
          dead,     \* tasks that will never report again
          iwdg,     \* units since the hardware watchdog was refreshed
          config,   \* the record in sector 11: "valid" or "blank"
          silent,   \* history: a task was silent for more than Timeout at a
                    \* look, or the Flash was erased, since the last refresh
          deadFor,  \* history: units since the first task died
          stores    \* history: configurations stored since then

vars == <<phase, age, busy, dead, iwdg, config, silent, deadFor, stores>>

Capped(n, max) == IF n > max THEN max ELSE n
Running == iwdg <= Iwdg

\* After a reset main() starts the hardware watchdog; the scheduler starts
\* with every slot registered and the tick count at 0.
Idle == [t \in Tasks |-> 0]

Init ==
  /\ phase = 0 /\ iwdg = 0
  /\ age = Idle /\ busy = Idle /\ dead = {}
  /\ config \in {"valid", "blank"} /\ silent = FALSE
  /\ deadFor = 0 /\ stores = 0

-----------------------------------------------------------------------------
(* wdt_monitor_check *)

\* Mutant: a task is refused when it reports at the last moment.
HealthyStrict(ages) == \A t \in Tasks : ages[t] < Timeout
\* Mutant: one report is taken for all.
HealthyAny(ages) == \E t \in Tasks : ages[t] <= Timeout
Healthy(ages) == \A t \in Tasks : ages[t] <= Timeout

\* One unit of time: the watchdog task's turn comes first.
Looks == phase = 0

Tick ==
  LET older == [t \in Tasks |-> Capped(age[t] + 1, Timeout + 1)]
      reports == {t \in Tasks \ dead : busy[t] = 0}
      refresh == Looks /\ Healthy(older)
  IN
  /\ Running
  /\ phase' = IF Looks THEN Period - 1 ELSE phase - 1
  /\ iwdg' = IF refresh THEN 0 ELSE iwdg + 1
  /\ silent' = IF refresh THEN FALSE
              ELSE silent \/ (Looks /\ \E t \in Tasks : older[t] > Timeout)
  /\ age' = [t \in Tasks |-> IF t \in reports THEN 0 ELSE older[t]]
  /\ \E next \in [Tasks -> UNION {0 .. Busy[t] : t \in Tasks}] :
       /\ \A t \in Tasks : next[t] <= Busy[t] /\ (t \notin reports => next[t] = 0)
       /\ busy' = [t \in Tasks |-> IF t \in reports THEN next[t]
                                   ELSE IF busy[t] > 0 THEN busy[t] - 1 ELSE 0]
  /\ deadFor' = IF dead = {} THEN 0 ELSE deadFor + 1
  /\ UNCHANGED <<dead, config, stores>>

Die(t) ==
  /\ Running /\ dead = {}
  /\ dead' = dead \cup {t}
  /\ UNCHANGED <<phase, age, busy, iwdg, config, silent, deadFor, stores>>

\* storage_task: erase, write, report.  It was given slot 0, another task's,
\* because it registers with enable_flag 0.  A reset before the erase is done
\* leaves the sector blank.
Reported == [age EXCEPT ![Slot0] = 0]
Store(d) ==
  /\ Running
  /\ dead # {} => stores < MaxStores
  /\ iwdg' = Capped(iwdg + d, Iwdg + 1)
  /\ config' = IF iwdg + d > Iwdg THEN "blank" ELSE "valid"
  /\ age' = IF iwdg + d > Iwdg THEN age ELSE Reported
  /\ silent' = (silent \/ d > 0)
  /\ stores' = IF dead = {} THEN 0 ELSE stores + 1
  /\ UNCHANGED <<phase, busy, dead, deadFor>>

\* The reset, and the start: with no valid record sys_config_init stores the
\* default one, the hardware watchdog running.
Reset(d) ==
  /\ ~ Running
  /\ phase' = 0 /\ age' = Idle /\ busy' = Idle /\ dead' = {}
  /\ deadFor' = 0 /\ stores' = 0
  /\ IF config = "valid" THEN iwdg' = 0 /\ UNCHANGED config /\ silent' = FALSE
     ELSE /\ iwdg' = Capped(d, Iwdg + 1)
          /\ config' = IF d > Iwdg THEN "blank" ELSE "valid"
          /\ silent' = (d > 0)

Next ==
  \/ Tick
  \/ \E t \in Tasks : Die(t)
  \/ \E d \in EraseTimes : Store(d) \/ Reset(d)

Spec == Init /\ [][Next]_vars

-----------------------------------------------------------------------------
(* Properties *)

WatchdogTypeOK ==
  /\ phase \in 0 .. Period - 1
  /\ age \in [Tasks -> 0 .. Timeout + 1] /\ \A t \in Tasks : busy[t] \in 0 .. Busy[t]
  /\ dead \subseteq Tasks /\ iwdg \in 0 .. Iwdg + 1
  /\ config \in {"valid", "blank"} /\ silent \in BOOLEAN
  /\ deadFor \in Nat /\ stores \in 0 .. MaxStores

\* The device is reset only after a task was silent for more than its 100 ms
\* when the watchdog task looked, or the Flash was being erased: the checks
\* themselves, 8 ms before the hardware gives up, are never too late.
NoResetWithoutCause == ~ Running => silent

\* A task that dies has the device reset before the second look after it,
\* however the others go on; each configuration stored in the meantime can
\* hide a dead comm_task for one more period, not longer.
DeadTaskResets == deadFor <= Timeout + Iwdg + 1 + stores * Period

\* docs/freertos-port-design.md: while no task is dead, no reset.
NoFalseReset == ~ Running => dead # {}

=============================================================================
