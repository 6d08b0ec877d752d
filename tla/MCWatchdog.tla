----------------------------- MODULE MCWatchdog -----------------------------
(* The slowest tasks of each kind, the real times in units of 50 ms.  A     *)
(* burst of frames keeps comm_task from reporting for 100 ms and more.     *)
EXTENDS Watchdog, TLC

MCTasks == {"comm", "display", "cli"}
MCBusy == ("comm" :> 3) @@ ("display" :> 1) @@ ("cli" :> 0)
MCQuick == [t \in MCTasks |-> 1]

=============================================================================
