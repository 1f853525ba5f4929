--------------------------- MODULE MCLatentBatch ---------------------------
(***************************************************************************)
(* Two small instances of LatentBatch.                                     *)
(*                                                                         *)
(* A training call with one prompt: the request that puts the prompt into  *)
(* the cache, then a group of three samples.  With Pool = 10 a retracted   *)
(* sample has room to be admitted again, but the three samples do not fit  *)
(* at full length: when they run together one is retracted.                *)
(*                                                                         *)
(* An evaluation call with three prompts, two of which begin alike.  With  *)
(* Pool = 10 two or all three of them run, and outgrow the pool.           *)
(***************************************************************************)
EXTENDS LatentBatch

CONSTANTS word, think, eos

MCToken == {word, think, eos}

GroupPrompt == [r \in 1 .. 4 |-> <<eos, word>>]
GroupMaxNew == <<0, 4, 4, 4>>

CallPrompt == <<<<word, word, word>>, <<eos, word>>, <<eos, eos>>>>
CallMaxNew == <<3, 3, 3>>
=============================================================================
