--------------------------- MODULE MCAppCommands ---------------------------
(* Two texts, two sequence numbers, queues of one or two, one retry.     *)
EXTENDS AppCommands
MCTexts == {"x", "y"}
=============================================================================
