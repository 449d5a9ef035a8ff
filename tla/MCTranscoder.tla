---------------------------- MODULE MCTranscoder ----------------------------
(* Instances of Transcoder for TLC. *)
EXTENDS Transcoder, TLC

Symmetry == Permutations(Requests) \cup Permutations(Encoders)
=============================================================================
