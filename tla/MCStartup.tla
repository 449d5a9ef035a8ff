----------------------------- MODULE MCStartup -----------------------------
(* What TLC needs to run Startup: the children can be exchanged. *)
EXTENDS Startup, TLC

Exchange == Permutations(Children)
=============================================================================
