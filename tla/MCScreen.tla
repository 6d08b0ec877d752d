------------------------------ MODULE MCScreen ------------------------------
(* The properties tell images only from the other contents, so one is       *)
(* enough; of the pages there are one that the menu draws itself and the    *)
(* preview of the welcome text. The assembly of images does not depend on   *)
(* the page: its run takes one. Two events in a round cannot fill the queue *)
(* of four.                                                                 *)
EXTENDS Screen
CONSTANTS f1, p1, w1
MCImages == {f1}
MCPages == {p1, w1}
MCPreview == {w1}
=============================================================================
