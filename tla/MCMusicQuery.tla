---------------------------- MODULE MCMusicQuery ----------------------------
(* Instances of MusicQuery for TLC: an answer of three rows and one of two. *)
EXTENDS MusicQuery

MCParams == {"a", "b"}
MCAnswer == [p \in MCParams |-> IF p = "a" THEN <<"a1", "a2", "a3">> ELSE <<"b1", "b2">>]
=============================================================================
