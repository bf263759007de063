------------------------- MODULE MCOrderPublishing -------------------------
(***************************************************************************)
(* Instances of OrderPublishing for TLC: the constants are numbers, so the *)
(* configurations give them directly.                                      *)
(***************************************************************************)
EXTENDS OrderPublishing
=============================================================================
