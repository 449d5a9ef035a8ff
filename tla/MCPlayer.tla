------------------------------ MODULE MCPlayer ------------------------------
(* An instance of Player for TLC: the server has a source of the first song. *)
EXTENDS Player

MCStored == {0}
=============================================================================
