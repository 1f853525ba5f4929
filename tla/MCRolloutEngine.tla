---------------------------- MODULE MCRolloutEngine ----------------------------
(* RolloutEngine as TLC checks it. *)
EXTENDS RolloutEngine
===============================================================================
