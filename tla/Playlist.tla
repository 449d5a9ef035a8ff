------------------------------ MODULE Playlist ------------------------------
(***************************************************************************)
(* A playlist of the web client, data/www/javascript/ui/playlist.js: two   *)
(* queries, one for its songs and one for searches among them, that print  *)
(* their rows into one table, while the user types into search boxes and   *)
(* sorts.  The module extends MusicQuery, which is the query for the songs,*)
(* and has an instance of it for the other; the playlist is not shuffled.  *)
(***************************************************************************)
EXTENDS MusicQuery

CONSTANTS
  Columns,    \* the columns with a search box
  Orders,     \* the values of the sort order
  FirstOrder, \* the order of plist.sort and of the parameters at the start
  Undefined   \* the songs before there are any

\* The text in a box is always the same one, so the boxes with text say all.
ASSUME ParamsAssumption == Params = [text : SUBSET Columns, order : Orders]
ASSUME OrderAssumption == FirstOrder \in Orders

VARIABLES
  s_params, s_count, s_running, s_results, s_sent, s_pending, s_reply,  \* search_query
  q_found, s_found,     \* results.songs of the query is defined: rows came, be it none
  q_aliased, s_aliased, \* parameters.sort_by of the query is the array plist.sort
  sort,         \* plist.sort
  searching,    \* search_results !== undefined
  onComplete,   \* which of its three handlers query.onComplete is
  songs,        \* playlist.songs
  table         \* the rows of songs_table

s_vars == <<s_params, s_count, s_running, s_results, s_sent, s_pending, s_reply>>
found == <<q_found, s_found>>
list == <<q_aliased, s_aliased, sort, searching, onComplete, songs>>
playlist_vars == <<vars, s_vars, found, list, table>>

search_query == INSTANCE MusicQuery
  WITH params <- s_params, count <- s_count, running <- s_running, results <- s_results,
       sent <- s_sent, pending <- s_pending, reply <- s_reply

PlaylistTypeOK ==
  /\ TypeOK /\ search_query!TypeOK
  /\ q_found \in BOOLEAN /\ s_found \in BOOLEAN
  /\ q_aliased \in BOOLEAN /\ s_aliased \in BOOLEAN /\ searching \in BOOLEAN
  /\ sort \in Orders
  /\ onComplete \in {"first", "sort", "cleared"}
  /\ songs = Undefined \/ Len(songs) \in Nat
  /\ params.text = {}

First == [text |-> {}, order |-> FirstOrder]

\* The constructor: only the songs are loaded; search_query has sent nothing.
PlaylistInit ==
  /\ InitWith(First)
  /\ s_params = First /\ s_count = 0 /\ s_running = 0 /\ s_results = << >>
  /\ s_sent = << >> /\ s_pending = {} /\ s_reply = "rows"
  /\ q_found = FALSE /\ s_found = FALSE
  /\ q_aliased = FALSE /\ s_aliased = FALSE
  /\ sort = FirstOrder
  /\ searching = FALSE
  /\ onComplete = "first"
  /\ songs = Undefined
  /\ table = << >>

-----------------------------------------------------------------------------
(* What the user does *)

\* search_box_change with a text.
Search(c) ==
  /\ searching' = TRUE
  /\ search_query!Ask([s_params EXCEPT !.text = @ \cup {c}])
  /\ s_found' = FALSE
  /\ table' = << >>
  /\ UNCHANGED <<vars, q_found, q_aliased, s_aliased, sort, onComplete, songs>>

\* search_box_change without a text, while another box has one: the parameters
\* change and nothing is loaded.
ClearOne(c) ==
  /\ s_params.text \ {c} # {}
  /\ search_query!SetParams([s_params EXCEPT !.text = @ \ {c}])
  /\ UNCHANGED <<vars, found, list, table>>

\* The last box is cleared: the songs are loaded again.
ClearAll(c) ==
  /\ s_params.text \ {c} = {}
  /\ search_query!SetParams([s_params EXCEPT !.text = {}])
  /\ searching' = FALSE
  /\ table' = << >>
  /\ Ask(params)
  /\ q_found' = FALSE
  /\ onComplete' = "cleared"
  /\ UNCHANGED <<s_found, q_aliased, s_aliased, sort, songs>>

\* sort_playlist changes plist.sort in place, hence also the parameters of a
\* query that was sorted before.
SortSongs(o) ==
  /\ ~searching
  /\ sort' = o
  /\ q_aliased' = TRUE
  /\ Ask([params EXCEPT !.order = o])
  /\ q_found' = FALSE
  /\ search_query!SetParams([s_params EXCEPT !.order = IF s_aliased THEN o ELSE @])
  /\ onComplete' = "sort"
  /\ table' = << >>
  /\ UNCHANGED <<s_found, s_aliased, searching, songs>>

SortSearch(o) ==
  /\ searching
  /\ sort' = o
  /\ s_aliased' = TRUE
  /\ search_query!Ask([s_params EXCEPT !.order = o])
  /\ s_found' = FALSE
  /\ SetParams([params EXCEPT !.order = IF q_aliased THEN o ELSE @])
  /\ table' = << >>
  /\ UNCHANGED <<q_found, q_aliased, searching, onComplete, songs>>

-----------------------------------------------------------------------------
(* Events of the requests of the two queries *)

\* add_rows_cb appends what data has beyond the rows of the table.
AddRows(data) == table' = table \o SubSeq(data, Len(table) + 1, Len(data))

\* A mutated form: the rows are added in any case.
SongAdded_Always(data) == AddRows(data)

\* song_added of query: "Add rows to table if we are not searching".
SongAdded(data) == IF searching THEN UNCHANGED table ELSE AddRows(data)

\* query.onComplete: the songs are the results, which an answer without rows leaves
\* undefined; a sort needs the song that plays and fails without songs; after a search
\* nothing is copied.
Complete ==
  songs' = IF onComplete = "first" \/ (onComplete = "sort" /\ songs # Undefined)
           THEN IF q_found' THEN results' ELSE Undefined
           ELSE songs

QueryWaits(x, r) ==
  /\ Ignore(x, r) \/ Retry(x, r)
  /\ UNCHANGED <<s_vars, found, list, table>>

QueryMore(x, r) ==
  /\ More(x, r)
  /\ q_found' = TRUE
  /\ SongAdded(results')
  /\ UNCHANGED <<s_vars, s_found, list>>

\* print_results is called for rows, onComplete in any case.
QueryFinish(x, r) ==
  /\ Finish(x, r)
  /\ q_found' = (q_found \/ reply' = "rows")
  /\ IF reply' = "rows" THEN SongAdded(results') ELSE UNCHANGED table
  /\ Complete
  /\ UNCHANGED <<s_vars, s_found, q_aliased, s_aliased, sort, searching, onComplete>>

SearchWaits(x, r) ==
  /\ search_query!Ignore(x, r) \/ search_query!Retry(x, r)
  /\ UNCHANGED <<vars, found, list, table>>

\* song_added of search_query asks for nothing.
SearchMore(x, r) ==
  /\ search_query!More(x, r)
  /\ s_found' = TRUE
  /\ AddRows(s_results')
  /\ UNCHANGED <<vars, q_found, list>>

\* onComplete sets search_results to results.songs, which may be undefined.
SearchFinish(x, r) ==
  /\ search_query!Finish(x, r)
  /\ s_found' = (s_found \/ s_reply' = "rows")
  /\ IF s_reply' = "rows" THEN AddRows(s_results') ELSE UNCHANGED table
  /\ searching' = s_found'
  /\ UNCHANGED <<vars, q_found, q_aliased, s_aliased, sort, onComplete, songs>>

PlaylistNext ==
  \/ \E c \in Columns : Search(c) \/ ClearOne(c) \/ ClearAll(c)
  \/ \E o \in Orders : SortSongs(o) \/ SortSearch(o)
  \/ \E x \in pending, r \in Replies :
       QueryWaits(x, r) \/ QueryMore(x, r) \/ QueryFinish(x, r)
  \/ \E x \in s_pending, r \in Replies :
       SearchWaits(x, r) \/ SearchMore(x, r) \/ SearchFinish(x, r)
  \/ Quiet /\ search_query!Quiet /\ UNCHANGED playlist_vars

PlaylistSpec == PlaylistInit /\ [][PlaylistNext]_playlist_vars

-----------------------------------------------------------------------------
(* Properties *)

\* While there is text in a box the table shows what the search query has collected
\* since it was last sent, whatever the query for the songs brings meanwhile; if a box
\* was cleared since, that is what was found with the text of that box, or a mixture of
\* both.  Only an answer with errors and no rows ends a search: it leaves
\* search_results undefined, and the songs return to the table.
SearchShowsResults ==
  s_params.text # {} =>
    IF searching THEN table = s_results ELSE ~s_found /\ s_reply = "missing"

=============================================================================
