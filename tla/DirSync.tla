------------------------------ MODULE DirSync ------------------------------
(***************************************************************************)
(* Directories are brought into the database, one thread for each:         *)
(* init_dir_sync and sync_dir in src/indexers/music/dir_sync/dir_sync.c,   *)
(* read_dir in src/indexers/music/tag_reader.c, sync_song and insert_db in *)
(* src/database/db_config.c.                                               *)
(*                                                                         *)
(* All threads use one connection and one transaction.  A mutex is held    *)
(* for the statements of one song; a transaction is begun and ended        *)
(* without it.                                                             *)
(*                                                                         *)
(* The driver of the database (apr_dbd for MySQL) is outside: after the    *)
(* first error in a transaction every statement fails, and the end of it   *)
(* rolls back; a lost connection takes what was not committed with it.     *)
(* What is lost may be the answer only: a commit, and a statement outside  *)
(* of transactions, was then carried out or not.                           *)
(***************************************************************************)
EXTENDS Integers, Sequences, FiniteSets, SequencesExt

CONSTANTS
  NumDirs,   \* most directories in the configuration
  Files,     \* paths of files
  Unreadable, \* a directory that cannot be opened
  Walks,     \* what read_dir may meet in each: sequences of files and Unreadable
  Tags,      \* for each file with tags to read, its artist, album and title
  Faults,    \* a subset of {"init", "error", "lost"}
  Nothing,   \* NULL, and the quotient of zero and zero
  MaxSyncs,  \* bound: starts of the server
  MaxTime    \* bound: changes of a file

Dirs == 1 .. NumDirs

ASSUME NumDirsAssumption == NumDirs \in Nat \ {0}
ASSUME WalksAssumption == \A d \in Dirs : Walks[d] \subseteq Seq(Files \cup {Unreadable})
ASSUME UnreadableAssumption == Unreadable \notin Files
ASSUME NothingAssumption == Nothing \notin Nat
ASSUME MaxTimeAssumption == MaxTime \in Nat

VARIABLES
  dirs,         \* music_dirs->nelts
  init,         \* the next directory of init_dir_sync; 0 while there is no server
  mtime,        \* the files: when each was changed last
  db,           \* the database and the connection to it
  connected,    \* db_config->connected
  transaction,  \* db_config->transaction: in the pool of which thread it is
  cleared,      \* the threads that cleared their pool
  mutex,        \* who holds db_config->mutex
  pc,           \* where in sync_dir or sync_song a thread is
  list,         \* file_list: the files a thread has still to do
  num_files, files_synced, progress,   \* what the status of a directory shows
  song,         \* when the tags were read, and the ids found for them
  syncs         \* starts of the server so far

shared == <<connected, transaction, cleared>>
stats == <<num_files, files_synced, progress>>
server == <<dirs, init, mtime, syncs>>
vars == <<server, db, shared, mutex, pc, list, stats, song>>

Ids == {"artists", "albums", "songs", "sources"}
Status == {"ok", "error", "lost"}

Names == UNION {{Tags[f].artist, Tags[f].album, Tags[f].title} : f \in DOMAIN Tags}
SourceRows == [path : Files, mtime : Nat, seen : Nat]
LinkRows == [artists : Nat, albums : Nat, songs : Nat, sources : Nat]
Rows == [artists : Seq(Names), albums : Seq(Names), songs : Seq(Names),
         sources : Seq(SourceRows), links : Seq(LinkRows)]
NoRows == [artists |-> << >>, albums |-> << >>, songs |-> << >>, sources |-> << >>,
           links |-> << >>]

\* The foreign keys of the table of links.
Allowed(rows, link) == \A t \in Ids : link[t] \in DOMAIN rows[t]

Databases == [rows : Rows, committed : Rows, up : BOOLEAN, open : BOOLEAN, errnum : Status,
              current : BOOLEAN, tries : BOOLEAN]

\* The ids that sync_song looks up or inserts; 0 is NULL.
NoSong == [seen |-> 0, artists |-> 0, albums |-> 0, songs |-> 0, sources |-> 0]

Songs == [seen : Nat, artists : Nat, albums : Nat, songs : Nat, sources : Nat]

TypeOK ==
  /\ dirs \in Dirs /\ init \in 0 .. NumDirs + 1
  /\ mtime \in [Files -> Nat]
  /\ db \in Databases
  /\ \A r \in {db.rows, db.committed} : \A i \in DOMAIN r.links : Allowed(r, r.links[i])
  /\ connected \in BOOLEAN
  /\ transaction \in Dirs \cup {Nothing} /\ cleared \subseteq Dirs
  /\ mutex \in Dirs \cup {Nothing}
  /\ pc \in [Dirs -> {"none", "created", "begin", "loop", "lock", "update", "source",
                      "artist", "album", "song", "link", "progress"}]
  /\ list \in [Dirs -> Seq([path : Files, mtime : Nat])]
  /\ num_files \in [Dirs -> Nat] /\ files_synced \in [Dirs -> Nat]
  /\ progress \in [Dirs -> Nat \cup {Nothing}]
  /\ song \in [Dirs -> Songs]
  /\ syncs \in Nat

-----------------------------------------------------------------------------
(* The connection.  rows is what its statements see, committed what stays;  *)
(* open: handle->trans is set; errnum: of the transaction; current: the     *)
(* transaction is one of this connection; tries: the static of insert_db.   *)

Connect(rows) ==
  [rows |-> rows, committed |-> rows, up |-> TRUE, open |-> FALSE, errnum |-> "ok",
   current |-> TRUE, tries |-> FALSE]

Outcomes(d) ==
  IF d.open /\ d.errnum # "ok" THEN {d.errnum}
  ELSE IF ~d.up THEN {"lost"} ELSE {"ok"} \cup (Faults \cap {"error", "lost"})

\* A statement that leaves the rows `new' if it succeeds.
After(d, status, new) ==
  [d EXCEPT !.errnum = IF d.open THEN status ELSE @,
            !.up = @ /\ status # "lost",
            !.rows = [ok |-> new, error |-> @, lost |-> d.committed][status],
            !.committed = IF status = "ok" /\ ~d.open THEN new ELSE @]

\* Its answer is lost, and the rows stay that it committed.
Unanswered(d, new) == [After(d, "lost", new) EXCEPT !.rows = new, !.committed = new]

Statement(d, new) ==
  {[db |-> After(d, status, new), status |-> status] : status \in Outcomes(d)} \cup
  {[db |-> Unanswered(d, new), status |-> status] :
     status \in IF d.up /\ ~d.open THEN Outcomes(d) \cap {"lost"} ELSE {}}

Select(d) == Statement(d, d.rows)

Insert(d, t, row) ==
  IF t = "links" => Allowed(d.rows, row)
  THEN Statement(d, [d.rows EXCEPT ![t] = Append(@, row)])
  ELSE {[db |-> After(d, status, d.rows), status |-> status] :
          status \in (Outcomes(d) \ {"ok"}) \cup (IF "ok" \in Outcomes(d) THEN {"error"} ELSE {})}

\* get_insert_last_id, which is not called for a link.
LastId(s, t) ==
  IF s.status = "ok" /\ t # "links"
  THEN {[db |-> q.db, status |-> q.status,
         id |-> IF q.status = "ok" THEN Len(q.db.rows[t]) ELSE 0] : q \in Select(s.db)}
  ELSE {[db |-> s.db, status |-> s.status, id |-> 0]}

\* reconnect_database: a new connection has no transaction.
Reconnected(d) == [d EXCEPT !.up = TRUE, !.open = FALSE, !.current = FALSE]

\* An insert; after a loss of the connection it fails or is to be tried again, reconnected.
Try(d, t, row) ==
  UNION {IF s.status = "lost"
         THEN {[db |-> s.db, status |-> "lost", id |-> 0],
               [db |-> Reconnected(s.db), status |-> "again", id |-> 0]}
         ELSE LastId(s, t) : s \in Insert(d, t, row)}

\* A second loss in the life of the process is reported as success.
Settled(s) == IF s.status = "again" THEN [s EXCEPT !.status = "ok"] ELSE s

insert_db(d, t, row) ==
  LET first == Try(d, t, row) IN
  IF d.tries THEN {Settled(s) : s \in first}
  ELSE {s \in first : s.status # "again"} \cup
       UNION {{Settled(r) : r \in Try([s.db EXCEPT !.tries = TRUE], t, row)} :
                s \in {q \in first : q.status = "again"}}

\* apr_dbd_transaction_end, of the transaction there is, in this connection or not.
EndTransaction(d) ==
  LET Ended(kept, up) == [d EXCEPT !.open = FALSE, !.errnum = "ok",
                                 !.rows = kept, !.committed = kept, !.up = up] IN
  IF ~d.current THEN {[db |-> d, status |-> "lost"]}
  ELSE (IF d.up THEN {[db |-> Ended(IF d.errnum = "ok" THEN d.rows ELSE d.committed, TRUE),
                       status |-> "ok"]} ELSE {})
       \cup
       {[db |-> Ended(kept, FALSE), status |-> "lost"] : kept \in
          (IF ~d.up \/ "lost" \in Faults THEN {d.committed} ELSE {}) \cup
          (IF d.up /\ "lost" \in Faults /\ d.errnum = "ok" THEN {d.rows} ELSE {})}

\* apr_dbd_transaction_start, which ends the transaction that is open.
StartTransaction(d) ==
  LET Begun(e) == {[db |-> [s.db EXCEPT !.open = TRUE, !.current = TRUE, !.errnum = s.status],
                    status |-> s.status] : s \in Select(e)}
  IN UNION {Begun(e) : e \in IF d.open THEN {q.db : q \in EndTransaction(d)} ELSE {d}}

-----------------------------------------------------------------------------
(* The server *)

Init ==
  /\ dirs \in Dirs /\ init = 0 /\ syncs = 0
  /\ mtime = [f \in Files |-> 0]
  /\ db = Connect(NoRows)
  /\ connected = FALSE /\ transaction = Nothing /\ cleared = {}
  /\ mutex = Nothing
  /\ pc = [d \in Dirs |-> "none"]
  /\ list = [d \in Dirs |-> << >>]
  /\ num_files = [d \in Dirs |-> 0] /\ files_synced = num_files /\ progress = num_files
  /\ song = [d \in Dirs |-> NoSong]

Start ==
  /\ init = 0 /\ syncs < MaxSyncs
  /\ init' = 1 /\ syncs' = syncs + 1
  /\ connected' = TRUE
  /\ UNCHANGED <<dirs, mtime, db, transaction, cleared, mutex, pc, list, stats, song>>

\* Mutated: the loop goes one too far.
InitDir_TooFar ==
  /\ init \in 1 .. dirs + 1
  /\ init' = init + 1
  /\ pc' = [pc EXCEPT ![init] = "created"]
  /\ UNCHANGED <<dirs, mtime, syncs, db, shared, mutex, list, stats, song>>

\* init_dir_sync for one directory: its segment is created and its thread started.
InitDir ==
  /\ init \in 1 .. dirs
  /\ init' = init + 1
  /\ pc' = [pc EXCEPT ![init] = "created"]
  /\ UNCHANGED <<dirs, mtime, syncs, db, shared, mutex, list, stats, song>>

\* The first failure ends the loop.
InitDirFails ==
  /\ init \in 1 .. dirs /\ "init" \in Faults
  /\ init' = NumDirs + 1
  /\ UNCHANGED <<dirs, mtime, syncs, db, shared, mutex, pc, list, stats, song>>

\* The process is gone, and what it has not committed.
Die ==
  /\ init' = 0
  /\ db' = Connect(db.committed)
  /\ connected' = FALSE /\ transaction' = Nothing /\ cleared' = {}
  /\ mutex' = Nothing
  /\ pc' = [d \in Dirs |-> "none"]
  /\ list' = [d \in Dirs |-> << >>]
  /\ num_files' = [d \in Dirs |-> 0] /\ files_synced' = num_files' /\ progress' = num_files'
  /\ song' = [d \in Dirs |-> NoSong]
  /\ UNCHANGED <<dirs, mtime, syncs>>

\* The server is stopped or dies; also what a step through a wild pointer may do.
Stop == init # 0 /\ Die

\* Somebody changes a file, later than all changes so far.
Touch(f) ==
  /\ \E now \in 1 .. MaxTime :
       /\ \A g \in Files : mtime[g] < now
       /\ mtime' = [mtime EXCEPT ![f] = now]
  /\ UNCHANGED <<dirs, init, syncs, db, shared, mutex, pc, list, stats, song>>

-----------------------------------------------------------------------------
(* sync_dir *)

Goto(d, at) == pc' = [pc EXCEPT ![d] = at]

\* read_dir: the files in the order of the walk, with their times, if all of them come
\* before the first directory that cannot be opened.
ReadDir(d) ==
  /\ pc[d] = "created" /\ connected
  /\ \E walk \in Walks[d] : \E n \in 0 .. Len(walk) :
       /\ \A i \in DOMAIN walk : i <= n <=> walk[i] # Unreadable
       /\ list' = [list EXCEPT ![d] =
                     [i \in 1 .. n |-> [path |-> walk[i], mtime |-> mtime[walk[i]]]]]
       /\ num_files' = [num_files EXCEPT ![d] = n]
  /\ Goto(d, "begin")
  /\ UNCHANGED <<server, db, shared, mutex, files_synced, progress, song>>

\* The pointer to the end of the list is lost in a directory that cannot be opened, and
\* the next file after that is written through NULL.
ReadDirFalls(d) ==
  /\ pc[d] = "created" /\ connected
  /\ \E walk \in Walks[d] : \E i, j \in DOMAIN walk :
       i < j /\ walk[i] = Unreadable /\ walk[j] # Unreadable
  /\ Die

\* "Database not connected", before the files are read and before each song.
NotConnected(d) ==
  /\ pc[d] = "created"
     \/ (pc[d] = "loop" /\ list[d] # << >> /\ Head(list[d]).path \in DOMAIN Tags)
  /\ ~connected
  /\ Goto(d, "none")
  /\ UNCHANGED <<server, db, shared, mutex, list, stats, song>>

\* Mutated: no transaction.
Begin_Not(d) ==
  /\ pc[d] = "begin"
  /\ Goto(d, "loop")
  /\ UNCHANGED <<server, db, shared, mutex, list, stats, song>>

\* The structure of the transaction is allocated once, in the pool of the thread that
\* comes first.  The mutex is not taken.
Begin(d) ==
  /\ pc[d] = "begin"
  /\ transaction' = IF transaction = Nothing THEN d ELSE transaction
  /\ \E s \in StartTransaction(db) :
       db' = s.db /\ Goto(d, IF s.status = "ok" THEN "loop" ELSE "none")
  /\ UNCHANGED <<server, connected, cleared, mutex, list, stats, song>>

ReadTags(d) ==
  /\ pc[d] = "loop" /\ list[d] # << >> /\ Head(list[d]).path \in DOMAIN Tags
  /\ connected
  /\ song' = [song EXCEPT ![d] = [NoSong EXCEPT !.seen = mtime[Head(list[d]).path]]]
  /\ Goto(d, "lock")
  /\ UNCHANGED <<server, db, shared, mutex, list, stats>>

\* A file of no known type, or with no tags to read.
SkipFile(d) ==
  /\ pc[d] = "loop" /\ list[d] # << >> /\ Head(list[d]).path \notin DOMAIN Tags
  /\ Goto(d, "progress")
  /\ UNCHANGED <<server, db, shared, mutex, list, stats, song>>

\* Mutated: the number of files is not reduced by one.
Percent_All(synced, num) == (synced * 100) \div num

Percent(synced, num) == IF num = 1 THEN Nothing ELSE (synced * 100) \div (num - 1)

Progress(d) ==
  /\ pc[d] = "progress"
  /\ progress' = [progress EXCEPT ![d] = Percent(files_synced[d], num_files[d])]
  /\ files_synced' = [files_synced EXCEPT ![d] = @ + 1]
  /\ list' = [list EXCEPT ![d] = Tail(@)]
  /\ song' = [song EXCEPT ![d] = NoSong]
  /\ Goto(d, "loop")
  /\ UNCHANGED <<server, db, shared, mutex, num_files>>

\* The structure may be in a pool that was cleared: then what it says is anything.
End(d) ==
  /\ pc[d] = "loop" /\ list[d] = << >>
  /\ \E errnum \in IF transaction \in cleared THEN Status ELSE {db.errnum} :
     \E s \in EndTransaction([db EXCEPT !.errnum = errnum]) :
       /\ db' = s.db
       /\ cleared' = IF s.status = "ok" THEN cleared \cup {d} ELSE cleared
  /\ Goto(d, "none")
  /\ UNCHANGED <<server, connected, transaction, mutex, list, stats, song>>

-----------------------------------------------------------------------------
(* sync_song, and with it insert_db: what is done for one table is a step *)

file(d) == Head(list[d])
tags(d) == Tags[file(d).path]

\* Mutated: a return that does not unlock.
Return_Locked(d) == mutex' = mutex /\ Goto(d, "progress")

\* Every return of sync_song unlocks first.
Return(d) == mutex' = Nothing /\ Goto(d, "progress")

\* Mutated: the time is looked up again after the tags were read.
Source_Now(d) ==
  [path |-> file(d).path, mtime |-> mtime[file(d).path], seen |-> song[d].seen]

\* What the thread writes of a file, and the rows it has of it.
Source(d) == [path |-> file(d).path, mtime |-> file(d).mtime, seen |-> song[d].seen]
SourceIds(d) == {i \in DOMAIN db.rows.sources : db.rows.sources[i].path = file(d).path}

\* Mutated: the mutex is not waited for.
SelectMtime_NoLock(d) ==
  /\ pc[d] = "lock"
  /\ \E s \in Select(db) :
       /\ db' = s.db
       /\ connected' = (connected /\ s.status # "lost")
       /\ IF s.status # "ok" THEN Return(d)
          ELSE IF SourceIds(d) = {} THEN Goto(d, "source") /\ mutex' = d
          ELSE \E i \in SourceIds(d) :
                 IF file(d).mtime <= db.rows.sources[i].mtime THEN Return(d)
                 ELSE Goto(d, "update") /\ mutex' = d
  /\ UNCHANGED <<server, transaction, cleared, list, stats, song>>

\* The mutex is taken.  get_id gives the last of the rows it finds, in any order.
SelectMtime(d) ==
  /\ pc[d] = "lock" /\ mutex = Nothing
  /\ \E s \in Select(db) :
       /\ db' = s.db
       /\ connected' = (connected /\ s.status # "lost")
       /\ IF s.status # "ok" THEN Return(d)
          ELSE IF SourceIds(d) = {} THEN Goto(d, "source") /\ mutex' = d
          ELSE \E i \in SourceIds(d) :
                 IF file(d).mtime <= db.rows.sources[i].mtime THEN Return(d)
                 ELSE Goto(d, "update") /\ mutex' = d
  /\ UNCHANGED <<server, transaction, cleared, list, stats, song>>

\* update_song.  Its arguments are shifted by one and do not name the file: whether
\* the row of the file is among those it changes is open.
Update(d) ==
  /\ pc[d] = "update"
  /\ \E rows \in {db.rows} \cup {[db.rows EXCEPT !.sources[i] = Source(d)] : i \in SourceIds(d)} :
     \E s \in Statement(db, rows) : db' = s.db
  /\ Return(d)
  /\ UNCHANGED <<server, shared, list, stats, song>>

\* The statements of a table came to s: the song goes on with the next table or returns.
Continue(d, s, t, at) ==
  /\ db' = s.db
  /\ IF s.status = "ok"
     THEN song' = [song EXCEPT ![d][t] = s.id] /\ Goto(d, at) /\ UNCHANGED mutex
     ELSE Return(d) /\ UNCHANGED song
  /\ UNCHANGED <<server, shared, list, stats>>

AddSource(d) ==
  /\ pc[d] = "source"
  /\ \E s \in insert_db(db, "sources", Source(d)) : Continue(d, s, "sources", "artist")

\* get_id, and insert_db if it found nothing.
FindOrAdd(t, found, row) ==
  UNION {IF s.status # "ok" THEN {[db |-> s.db, status |-> s.status, id |-> 0]}
         ELSE IF found = {} THEN insert_db(s.db, t, row)
         ELSE {[db |-> s.db, status |-> "ok", id |-> i] : i \in found} : s \in Select(db)}

FindArtist(d) ==
  LET name == tags(d).artist
      found == {i \in DOMAIN db.rows.artists : db.rows.artists[i] = name} IN
  /\ pc[d] = "artist"
  /\ \E s \in FindOrAdd("artists", found, name) : Continue(d, s, "artists", "album")

FindAlbum(d) ==
  LET name == tags(d).album
      found == {i \in DOMAIN db.rows.albums : db.rows.albums[i] = name} IN
  /\ pc[d] = "album"
  /\ \E s \in FindOrAdd("albums", found, name) : Continue(d, s, "albums", "song")

\* Mutated: the link looked for is one of the file.
FindSong_OfFile(d) ==
  LET name == tags(d).title
      found == {l.songs : l \in {k \in Range(db.rows.links) :
                  /\ k.artists = song[d].artists /\ k.albums = song[d].albums
                  /\ k.sources = song[d].sources /\ db.rows.songs[k.songs] = name}} IN
  /\ pc[d] = "song"
  /\ \E s \in FindOrAdd("songs", found, name) : Continue(d, s, "songs", "link")

\* A song of the artist on the album, by a link, with the title.
FindSong(d) ==
  LET name == tags(d).title
      found == {l.songs : l \in {k \in Range(db.rows.links) :
                  /\ k.artists = song[d].artists /\ k.albums = song[d].albums
                  /\ db.rows.songs[k.songs] = name}} IN
  /\ pc[d] = "song"
  /\ \E s \in FindOrAdd("songs", found, name) : Continue(d, s, "songs", "link")

AddLink(d) ==
  LET link == [artists |-> song[d].artists, albums |-> song[d].albums,
               songs |-> song[d].songs, sources |-> song[d].sources] IN
  /\ pc[d] = "link"
  /\ IF 0 \in Range(link) THEN UNCHANGED db
     ELSE \E s \in insert_db(db, "links", link) : db' = s.db
  /\ Return(d)
  /\ UNCHANGED <<server, shared, list, stats, song>>

-----------------------------------------------------------------------------

Thread(d) ==
  \/ ReadDir(d) \/ ReadDirFalls(d) \/ NotConnected(d) \/ Begin(d) \/ End(d)
  \/ ReadTags(d) \/ SkipFile(d) \/ Progress(d)
  \/ SelectMtime(d) \/ Update(d) \/ AddSource(d) \/ FindArtist(d) \/ FindAlbum(d)
  \/ FindSong(d) \/ AddLink(d)

Next ==
  \/ Start \/ InitDir \/ InitDirFails \/ Stop
  \/ \E f \in DOMAIN Tags : Touch(f)
  \/ \E d \in Dirs : Thread(d)

Spec == Init /\ [][Next]_vars

-----------------------------------------------------------------------------
(* Properties *)

\* The elements that a sequence has before.
Repeated(s) == {i \in DOMAIN s : \E j \in 1 .. i - 1 : s[j] = s[i]}

\* The step repeats an insert after the connection was lost: insert_db does so once in
\* the life of the process, and outside of transactions the first may have been done.
InsertsAgain == ~db.open /\ ~db.tries /\ db'.tries

NoneAdded(old, new) ==
  Repeated(new) \subseteq Repeated(old) \cup IF InsertsAgain THEN {Len(new)} ELSE {}

Paths(sources) == [i \in DOMAIN sources |-> sources[i].path]

\* The links of an artist, an album and a title are to one song.
OneSongEach(r) ==
  \A k, l \in Range(r.links) :
    k.artists = l.artists /\ k.albums = l.albums /\ r.songs[k.songs] = r.songs[l.songs]
    => k.songs = l.songs

\* Whatever threads do at once and whatever is rolled back under them, an artist, an
\* album and a file have one row, and the files of a song of an album are linked to one
\* song: the search of sync_song and the insert after it are not separated.  A second row
\* comes from the one repeat of insert_db only, and not even that links to two songs.
OneRowEach ==
  [][/\ \A t \in {"artists", "albums"} : NoneAdded(db.rows[t], db'.rows[t])
     /\ NoneAdded(Paths(db.rows.sources), Paths(db'.rows.sources))
     /\ OneSongEach(db'.rows)]_vars

\* The time in a row is never newer than what was read of its file: a file that changes
\* while its directory is read is found changed the next time.
NotStale == \A i \in DOMAIN db.rows.sources : db.rows.sources[i].mtime <= db.rows.sources[i].seen

\* A status of 100 % is never shown before the last file was tried, and is shown then,
\* unless there is one file.
ProgressTells ==
  \A d \in Dirs :
    /\ progress[d] = 100 => list[d] = << >>
    /\ pc[d] = "loop" /\ list[d] = << >> /\ num_files[d] > 1 => progress[d] = 100

\* With one directory, and before the connection was lost, the transaction keeps a file
\* and its link together: a step never commits one without the other, so that no file
\* is up to date (db_config.c) without being in the list of songs.
CommitsWhole ==
  [][dirs = 1 /\ ~db'.tries =>
       \A i \in (DOMAIN db'.committed.sources) \ (DOMAIN db.committed.sources) :
         \E l \in Range(db'.committed.links) : l.sources = i]_vars

\* The mutex is held by a thread between the first and the last statement of a song and
\* by nobody else: none of the returns of sync_song keeps it from the other threads, and
\* no two songs are in the database at once.
MutexHeld ==
  \A d \in Dirs : mutex = d <=> pc[d] \in {"update", "source", "artist", "album", "song", "link"}

=============================================================================
