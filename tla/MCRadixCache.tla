----------------------------- MODULE MCRadixCache -----------------------------
(* RadixCache with interchangeable slots, tokens and requests. *)
EXTENDS RadixCache, TLC

Symmetry == Permutations(Slot) \cup Permutations(Token) \cup Permutations(Req)
===============================================================================
