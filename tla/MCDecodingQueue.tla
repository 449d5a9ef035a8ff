-------------------------- MODULE MCDecodingQueue --------------------------
(* Instances of DecodingQueue for TLC. *)
EXTENDS DecodingQueue, TLC

Symmetry == Permutations(Threads) \cup Permutations(Jobs)
=============================================================================
