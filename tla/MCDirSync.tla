----------------------------- MODULE MCDirSync -----------------------------
(* Instances of DirSync for TLC. *)
EXTENDS DirSync, TLC

CONSTANTS f1, f2, cover

\* All songs are one song, whose rows are looked for by everybody; cover is a picture.
OneSong == [f \in {f1, f2} |-> [artist |-> "artist", album |-> "album", title |-> "title"]]

\* The directories have f2 in common.
SomeWalks == <<{<<f1, f2>>, <<Unreadable, f1>>}, {<<f2>>, <<cover, Unreadable>>}>>
=============================================================================
