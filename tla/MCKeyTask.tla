------------------------------ MODULE MCKeyTask ------------------------------
(* A tree with an item of every kind, lists longer than the screen, a list *)
(* two levels down and an INFO text longer than the screen.                *)
EXTENDS KeyTask, TLC

Tree == [ root |-> <<"mode", "settings", "logo">>,
          mode |-> <<"local", "remote">>,
          settings |-> <<"contrasts", "about", "reboot">>,
          contrasts |-> <<"contrast", "time">> ]
MCItems == DOMAIN Tree \cup UNION {{Tree[i][n] : n \in 1 .. Len(Tree[i])} : i \in DOMAIN Tree}
MCSubmenu == [i \in MCItems |-> IF i \in DOMAIN Tree THEN Tree[i] ELSE <<>>]
MCKind == [i \in MCItems |->
  IF i \in DOMAIN Tree THEN "SUBMENU"
  ELSE CASE i \in {"local", "remote"} -> "TOGGLE" [] i = "contrast" -> "VALUE"
         [] i = "about" -> "INFO" [] i = "logo" -> "PREVIEW" [] i = "reboot" -> "CONFIRM"
         [] OTHER -> "ACTION"]
MCRows == [i \in MCItems |-> IF i = "about" THEN 5 ELSE 0]
MCChecked == [i \in MCItems |-> IF i = "remote" THEN 1 ELSE 0]
MCShows == {"time"}

=============================================================================
