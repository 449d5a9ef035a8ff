----------------------------- MODULE MCPlaylist -----------------------------
(* Instances of Playlist for TLC: three songs; each search box finds some. *)
EXTENDS Playlist

MCColumns == {"title", "artist"}
MCOrders == {"+", "-"}
MCParams == [text : SUBSET MCColumns, order : MCOrders]
RowsOf == [text \in SUBSET MCColumns |->
  CASE text = {} -> <<"s1", "s2", "s3">>
    [] text = {"title"} -> <<"s1", "s2">>
    [] text = {"artist"} -> <<"s2", "s3">>
    [] OTHER -> <<"s2">>]
MCAnswer == [p \in MCParams |->
  IF p.order = "+" THEN RowsOf[p.text] ELSE Reverse(RowsOf[p.text])]
=============================================================================
