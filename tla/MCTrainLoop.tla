----------------------------- MODULE MCTrainLoop -----------------------------
(***************************************************************************)
(* Instances of TrainLoop for TLC.  Prompts are interchangeable.            *)
(***************************************************************************)
EXTENDS TrainLoop, TLC

Symmetry == Permutations(Prompt)
=============================================================================
