--------------------------- MODULE MCDispatchJoin ---------------------------
(* One pane, a member and a command typed by hand.                         *)
EXTENDS DispatchJoin

CONSTANTS m1, i1
=============================================================================
