----------------------------- MODULE MCTrainRun -----------------------------
(***************************************************************************)
(* TrainRun for TLC: all constants are given in the configurations.         *)
(***************************************************************************)
EXTENDS TrainRun
=============================================================================
