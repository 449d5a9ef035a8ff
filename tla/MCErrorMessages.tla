-------------------------- MODULE MCErrorMessages --------------------------
(* Instances of ErrorMessages for TLC. *)
EXTENDS ErrorMessages, TLC

Symmetry == Permutations(Adders)
=============================================================================
