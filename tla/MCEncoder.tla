------------------------------ MODULE MCEncoder ------------------------------
(* Instances of Encoder for TLC: songs of frames that fit no request. *)
EXTENDS Encoder

MCSongs == {[type |-> "flac", ends |-> <<2, 7>>, total |-> 7],
            [type |-> "mp3", ends |-> <<3, 5>>, total |-> 4]}
=============================================================================
