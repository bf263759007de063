------------------------- MODULE MCPublishingSwitch -------------------------
(***************************************************************************)
(* Instances of PublishingSwitch for TLC: the configuration gives numbers, *)
(* and model values for the backends.                                      *)
(***************************************************************************)
EXTENDS PublishingSwitch
=============================================================================
