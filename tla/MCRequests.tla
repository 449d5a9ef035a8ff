----------------------------- MODULE MCRequests -----------------------------
(* Instances of Requests for TLC: a small part of data/xml/db and of         *)
(* data/xml/indexers/music.xml, with documents that are wrong in some place. *)
EXTENDS Requests, TLC

Col(id, fname, type, fk) == [id |-> id, fname |-> fname, type |-> type, fk |-> fk]

MCTableElems == <<
  [id |-> "links", columns |-> <<
    Col("songid", "song_id", "int", NULL), Col("artistid", "artist_id", "int", NULL),
    Col("albumid", "album_id", "int", NULL), Col("sourceid", "source_id", "int", NULL)>>],
  [id |-> "songs", columns |-> <<
    Col("id", "song_id", "int", <<"links", "songid">>), Col("name", "song_title", "varchar", NULL),
    Col("length", "song_length", "int", NULL)>>],
  [id |-> "sources", columns |-> <<
    Col("id", "source_id", "int", <<"links", "sourceid">>), Col("type", "source_type", "varchar", NULL),
    Col("path", "source_path", "varchar", NULL)>>]>>

Link(song, source) == [songid |-> song, artistid |-> 1, albumid |-> 1, sourceid |-> source]
Source(id, type, path) == [id |-> id, type |-> type, path |-> path]
MCRows == [
  links |-> <<Link(1, 1), Link(1, 2), Link(2, 3), Link(3, 4)>>,
  songs |-> << [id |-> 1, name |-> 7, length |-> 5], [id |-> 2, name |-> 6, length |-> 4],
               [id |-> 3, name |-> 5, length |-> 5]>>,
  sources |-> <<Source(1, 1, 11), Source(2, 2, 12), Source(3, 1, 13)>>]

TableElem(id, columns) == [kind |-> "table", id |-> id, columns |-> columns]
GroupElem(columns) == [kind |-> "group_by", columns |-> columns]
CountElem(tables) == [kind |-> "count", tables |-> tables]

SongsElem == [id |-> "songs", children |-> <<
  TableElem("links", <<"songid", "sourceid">>), TableElem("songs", <<"name", "length">>),
  GroupElem(<<<<"songs", "length">>>>), [kind |-> "custom_parameters"],
  GroupElem(<<<<"links", "songid">>>>)>>]
SourcesElem == [id |-> "sources", children |-> <<
  TableElem("links", << >>), TableElem("songs", << >>), TableElem("sources", <<"id", "type">>)>>]
StatusElem == [id |-> "status", children |-> <<CountElem(<<"songs", "links">>)>>]
PullElem == [id |-> "pull", children |-> <<TableElem("sources", <<"path", "type">>)>>]
TranscodeElem == [id |-> "transcode", children |-> <<
  TableElem("links", <<"sourceid", "songid", "artistid", "albumid">>),
  TableElem("sources", <<"path", "type">>)>>]

Right == <<SongsElem, SourcesElem, StatusElem, PullElem, TranscodeElem>>

\* A table without an id, taken for the one before; a column that is not there.
Wrong == <<[id |-> "sources", children |-> <<TableElem("links", <<"songid">>), TableElem(NULL, <<"sourceid">>)>>],
           [id |-> "songs", children |-> <<TableElem("links", <<"songid", "year">>), GroupElem(<< >>)>>],
           StatusElem>>
\* Tables that cannot be joined; a count of the table before.
Count == <<[id |-> "albums", children |-> <<TableElem("songs", <<"name">>), TableElem("sources", <<"path">>)>>],
           [id |-> "pull", children |-> <<TableElem("sources", <<"type">>)>>],
           [id |-> "status", children |-> <<CountElem(<<NULL, "links", "albums">>)>>]>>
MCDocuments == {Right, Wrong, Count}

Value(sort, n, keys) == [sort |-> sort, n |-> n, skip |-> 0, keys |-> keys]
Number(n) == Value("number", n, << >>)
\* "1,1".
Two == [Number(1) EXCEPT !.sort = "pair", !.skip = 1]
Text == Value("text", 0, <<[fname |-> "year", desc |-> FALSE]>>)
Keys(keys) == Value("text", 0, keys)
Key(fname, desc) == [fname |-> fname, desc |-> desc]
Pair(name, value) == [name |-> name, value |-> value]
Input(noun, pairs) == [noun |-> noun, pairs |-> pairs]

MCInputs == {
  Input("albums", << >>),
  Input("songs", <<Pair("limit", Text), Pair("sort_by", Keys(<<Key("song_length", TRUE), Key("song_id", TRUE)>>)),
                   Pair("offset", Number(1)), Pair("limit", Number(1))>>),
  Input("songs", <<Pair("song_title", Text)>>),
  Input("songs", <<Pair("sort_by", Keys(<<Key("song_length", FALSE)>>)), Pair("offset", Text),
                   Pair("sort_by", Keys(<<Key("source_id", TRUE)>>))>>),
  Input("sources", <<Pair("song_id", Number(1)), Pair("song_length", Number(5)), Pair("limit", Two)>>),
  Input("sources", <<Pair("offset", Number(0)), Pair("limit", Two)>>),
  Input("status", << >>),
  Input("pull", <<Pair("source_id", Number(2))>>),
  Input("pull", <<Pair("sort_by", Text), Pair("source_id", Text)>>),
  Input("transcode", <<Pair("source_id", Number(3))>>),
  Input("transcode", <<Pair("output_type", Text)>>)}

MCSymmetry == Permutations(Threads)
=============================================================================
