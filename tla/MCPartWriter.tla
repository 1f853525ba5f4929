---------------------------- MODULE MCPartWriter ----------------------------
(***************************************************************************)
(* Instances of PartWriter for TLC: rows k1 and k2 belong to step 1 and     *)
(* k3 to step 2; a resume names step 1.  Part files are interchangeable.    *)
(***************************************************************************)
EXTENDS PartWriter, TLC

CONSTANTS k1, k2, k3

StepOfMC == k1 :> 1 @@ k2 :> 1 @@ k3 :> 2
BatchMC == {{}, {k1, k2}, {k2}, {k3}}
BatchSmallMC == {{k1}, {k3}}
CutMC == {1}
Symmetry == Permutations(File) \cup Permutations(Writer)
=============================================================================
