------------------------------ MODULE MCRollout ------------------------------
(***************************************************************************)
(* Instances of Rollout and DeployModal: the configurations give numbers,  *)
(* and model values for the requests.                                      *)
(***************************************************************************)
EXTENDS DeployModal
=============================================================================
