---------------------------- MODULE MCPizzaOrders ----------------------------
(***************************************************************************)
(* Instances of PizzaOrders for TLC.                                       *)
(***************************************************************************)
EXTENDS PizzaOrders
=============================================================================
