------------------------------ MODULE MCOrderIds ------------------------------
(***************************************************************************)
(* Instances of OrderIds for TLC: the constants are numbers and a set of   *)
(* numbers, so the configurations give them directly.                      *)
(***************************************************************************)
EXTENDS OrderIds
=============================================================================
