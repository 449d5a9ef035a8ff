# mod_MP in TLA+

mod_MP is a media player built as an Apache module: it indexes music into an SQL database, answers
queries about it as JSON, transcodes songs on demand, and comes with a player written in JavaScript
that runs in the browser. This directory holds TLA+ models of the parts of it whose state is shared
between threads, processes or outstanding requests, the TLC configurations that check them, and
TLAPS proofs about them.

All paths below are relative to the repository; C sources are under `src/`, the web client is under
`data/www/javascript/`.

## 1. What the repository contains, and in which state

The repository is a snapshot in the middle of a rewrite, and the models have to say what they are
models of.

* `src/Makefile.am` builds `libmod_mp` (start-up, input, output, database files, indexers),
  `libmp_error_messages`, `libmp_utils` and the file indexer. `SUBDIRS` is `indexers/file`: the music
  indexer is not built.
* The function bodies of `src/indexers/music/transcoder.c` (lines 45-434) are inside one block
  comment, as are all of `src/upload.c` and parts of `db_config.c` (78-232, 252-464),
  `db_manager.c` (34-225), `db_query.c` (42-81) and `db_query_xml_config.c` (40-291). The
  text is complete code, and that of `transcoder.c` is the only client of the decoding queue.
  Much of QueryConfig and Requests is translated from these.
* `decoding_queue.c`, `dir_sync.c`, `music_query.c`, the tag readers and the codecs are live text
  that nothing links.
* `error_messages.c`, `util_shmem.c`, `mod_mp.c`, `index_manager.c` are built and used.

We model the transcoder, its queue and the queries as they are written, commented out or not, because
they are the heart of the program and have to work when they are switched on again.

## 2. Inventory

| Component | State | Operations | Interacts with | Hard because |
|---|---|---|---|---|
| Decoding queue `decoding_queue.c` | `queue_t` in shared memory: `head`, `tail`, masks `waiting` and `working`, 64 slots with `next`; a global mutex | create, get, add, does-exist, (in the transcoder) clear a working bit | all threads of all server processes | links, two masks and slot reuse must agree; early return under the lock; bounded pool |
| Transcoder `transcoder.c` | a private job per request; `num_working_threads`; rows of `sources` and `links`; the database mutex | `transcode_audio` (request), `encoder_thread`, `add_new_source_db`, `check_db_for_decoding_job` | queue, database, codecs, thread creation, web player | check-then-act over two stores; threads that end while jobs arrive; stale pointer into the queue; failures at every step |
| Encoders/decoders `codecs/` | input and output file; the buffer of a flac frame; what libvorbis and libogg hold; `progress` in the slot | open, process, close, `ogg_encode` | transcoder, libraries | frames, requests, blocks and pages have sizes of their own; several ways to end; one output file for two threads |
| Music query `music_query.c`, `pull_song.c` | per request: the query, its parameters, its rows | `get_music_query`, `run_music_query` | database, transcoder, output | words in any order, right or wrong; each part of a statement is set from its own word |
| Error log `error_messages.c` | `num_errors` and a table of 1024 entries, in shared memory | init, add, addf, duplicate, print, on_fork | everything | lock-free, many writers, read while written, a limit |
| Start-up `libmod_mp.c`, `mod_mp.c`, `util_shmem.c` | server configuration; segments | config hooks, `mp_post_config`, `mp_child_init`, `mp_handler` | Apache, log, database manager, index manager | two passes, several virtual hosts, fork, ignored failures |
| Indexers `index_manager.c`, `indexer.c`, `file_indexer.c` | list of indexers | create, find, query, fork callbacks | handler | lookup by a name that is never set |
| Input `input.c` | - | URI to indexer, command, parameters | handler | searches that need not meet in order |
| Output `output.c`, `util_json.c` | a brigade per request | init, finalise, escape | handler | - |
| Database `database/` | list of connections, tables, queries read from XML, query parameters | connect, get connection, read queries, add parameters, make and run a statement | indexers, transcoder, sync | connections are taken without a lock and never returned; half-read queries stay; stale statuses |
| Directory sync `dir_sync/`, `tag_reader.c`, `sync_song` of `db_config.c` | list of files, shared progress, one connection with one transaction | start threads, list, sync, report | database, log | threads share the connection and its transaction; many returns; a lost connection is retried once per process |
| Web client queries `music_query.js` | page counter, results, newest XHR, `running` | reset, load, process | server, browser, player, playlists | events of older requests, retry, reset in flight |
| Web player `ui/player.js`, `audio.js` | playing index, next to play, decoding jobs | play, fetch sources, poll the transcoder | queries, playlist | answers arrive in any order; polling for ever |
| Web lists `ui/*.js`, `music_ui.js` | selection, tables, playlists | select, sort, drag | queries | mostly layout |

What makes each component correct is in section 4; what is exposed to which hazard, at which line,
is the `hazards` list of `PROJECT.json`.

## 3. The modules

    JobFifo  <--refines--  DecodingQueue  <--INSTANCE--  Transcoder
                           Encoder
                           ErrorMessages
                           Startup
                           DirSync
    QueryConfig  <--EXTENDS--  Requests
    MusicQuery   <--EXTENDS, INSTANCE--  Playlist
                           Player

    DecodingQueue_proofs, Transcoder_proofs, Encoder_proofs, ErrorMessages_proofs, Startup_proofs,
    DirSync_proofs, Requests_proofs: each EXTENDS its module;
    WebClient_proofs: EXTENDS Playlist (and with it MusicQuery) and Player
    MCDecodingQueue, MCTranscoder, ...: what TLC runs

### In the server

**JobFifo** is what the queue promises: a sequence of pending jobs and the job each thread runs. It
has no slots, no lock and no links.

**DecodingQueue** is `decoding_queue.[ch]`. The variables are the fields of `queue_t`, the mutex
(as the set of its holders), and per thread the local `index` and the job pointer `taken` it holds.
One critical section is two or three steps, so that a reader without the lock and a broken lock
would both be seen: `get_decoding_job_queue` is `GetTake` (clear the waiting bit, move `head`),
`GetMark` (set the working bit), `Unlock`; `add_decoding_job_queue` is `AddSlot` (copy the job),
`AddLink` (mark, link, move `tail`), `Unlock`, or `AddFull`; `does_decoding_job_exsits` is `FindScan`,
`Unlock`; clearing the working bit in `encoder_thread` is `Remove`, `Unlock`. The mutex is taken in
the step that runs the first statements of a section; taking a free mutex disturbs nobody, so
nothing is lost by that. A job is what the code compares jobs by: source and output type. The
masks are sets of slots, and the count of leading zeros is the least member. A lock call that fails
is not modelled (the code reports it and goes on).

**Transcoder** puts the two kinds of threads around that queue. It has an instance of DecodingQueue
and does every step on the queue by an action of it. A request thread goes through `check_db`,
`exists`, `add`, `spawn`, `respond` (each the region of `transcode_audio` that touches shared
state once); an encoder thread through `start`, `get`, `prepare`, `encode`, `close`,
`insert_source`, `insert_link`, `remove`, `stop`. `Faults` names what may fail: queries, inserts,
codecs, and the start of a thread. Progress is 100 or less; `ogg_encode` writes it only every 40
packets, so it may reach 100 before the last packets are written, or never. An encoding may also never
end (`EncodeForever`, the fault "first_frame"): the flac decoder that gave up at its first frame is
asked for ever, and the thread keeps the slot. A job is a song and an
output type, in the queue and in the database; the source id of a job is built from the one
condition of the request. The module begins with a job whose output type is given; what
becomes of the words of such a request now is in Requests.

**Encoder** is what the step `encode` of the Transcoder stands for: `ogg_encode` with the two
decoders, for all threads that were given one job. A song is its samples, numbered; the variables are
the locals of `ogg_encode`, the fields of `flac_file`, and what the libraries hold. `Open` and
`OpenFails` are the opening of both files; `Ask` is the head of the loop; `FlacCopy`, `FlacDecode` and
`FlacReturn` are the branches of the loop of `process_flac_file`, `NextFrame` is `flac_write`; `Mp3Read` is
`process_mp3_file`; `Wrote` and `WroteEnd` hand the samples to libvorbis, `Blockout`, `Pageout` and
their ends are the inner loops. libFLAC, libmpg123, libvorbis and libogg are external: how many samples
make a frame, how many packets a page, and which call brings out the last ones. The file is the
sequence of those who wrote its pages. All channels are treated alike, so one is enough.

**QueryConfig** is pure: what `read_table` and `generate_app_queries` make of the XML documents, element
by element, with every early return and every status that is not looked at, and the searches in the
result. A loop is `ForEach`, a recursive function of the number of elements it has been through, whose
values can be reasoned about one by one. **Requests** is a process whose threads answer requests to the
music indexer: `Receive` reads the words (`ReadPair`, `SortBy`, `SortKey`,
`db_query_parameter_add_where`) and refuses the request or has a query with its parameters; `ReadHead`
and `TakeConnection` are the two halves of `db_config_get_connection`, which has no lock; `Lock`,
`Select`, `SelectFails`, `Fetch` are `db_query_run`; `PrintRows`, `HandRow` and `HandFails` are what
`run_music_query` does with the rows: a pull sends the file of the first row and nothing else, no report
either. `Fetch` may end early, since the loop of `db_query_run` takes a lost connection for the end of
the rows; `cut` notes of whom that is true and is used by `AnswerFits` only. `LooksForOutputType` is
where a transcoding with parameters searches a list that is NULL. `Falls` is the end of the process: the
`pool` of the parameters is never set, so a condition on a text or with a list copies to NULL
(`db_query_parameters.c:68`, `:99`, `:125`). The database is external and modelled from the statements:
`Join`, `Grouped`, `Ordered`, `Paged`. A cell is a number, and a value has a sort (number, pair, list,
text, unprintable) in place of characters. Words are put into the statement as they are; of those that
mean more to the database than a value the pair of a limit is modelled ("1,2", an offset and a limit),
and no other. `Asked` says what a request means, from its words and the document alone: the last
`group_by` of the query counts, the conditions all hold, the sort keys count in their order, of several
limits and offsets the last ones do, and an offset only with a limit; a name that is a column's and a
clause's is the column's. It shares with the program the description of the database (`RowsOf`) and the
search for a name, and neither the query, nor its two lists of columns, nor the parameters.

**ErrorMessages** is `error_messages_add` (`Check`, `Claim`, `WriteHeader`, `WriteMessage`: no lock,
one atomic increment) and `error_messages_duplicate`, which `mp_handler` calls for every request
(`Begin`, `CopyHeader`, `CopyMessage`, `End`). A read of a field that is being written may see
anything: `Torn`.

**Startup** is the life of the server around its children. The parent reads the configuration
(`ReadConfig`), is called twice (`FirstPass` only leaves the mark that `SecondPass` looks for) and
goes through its hosts: `Skip`, or `Kill` what has the name `/tmp/mp_errors`, `Create` the log and
do the `Rest` (database manager, index manager, file indexer), or `Disable` the host when a part
fails. Hosts without directives of the module share the configuration of the main server, so one
`mp_srv_cfg` may be initialised more than once. `Restart` is graceful: the children go on while the
pool is cleared and the loop runs again. After a `Crash` and a `Reboot` the file may be there
without the segment. Then the attach fails and an uninitialised pointer is destroyed: the process dies
(`Crash`) or the host is disabled (`KillFails`). A child attaches by name to the log (`ChildLog`)
and once more for each indexer (`ChildIndexers`). Running in one process (`httpd -X`) is not
modelled. The handler finds no indexer for any request, because `friendly_name` is never set; what is
modelled of it is which of the things set up at the start it uses (`Served`, `Shown`).

**DirSync** is one thread for each configured directory, over one connection to the database. `db` is a
record of the rows the connection sees, the rows committed, and the state of connection and transaction.
Operators on that record give the set of the possible results of a statement: `Statement`, `insert_db`
with its reconnect and its static counter, `StartTransaction`, `EndTransaction`. The actions are the
steps of `sync_dir` and what `sync_song` does for one table. The behaviour of `apr_dbd` for MySQL is
external: beginning a transaction ends the one that is open, an error in a transaction makes all later
statements fail and its end roll back, a lost connection takes what was not committed with it, and a new
connection has no transaction. Error 2013 is the loss of the answer: outside of transactions a statement
whose answer is lost was done or not (`Unanswered`), and so was a commit. The rows of a prepared
statement are stored by the driver with the statement, so that none is lost between; that is different
in Requests, whose statement is not prepared. Two things are taken as they are meant, since as they
stand the code cannot run: `init_dir_sync` never sets its local `db_config`, which here is the connected
database; and `update_song` passes its pool as a parameter of the statement and no path, so the model
leaves open whether the row of the file is changed. A thread that uses the structure of the transaction
after its pool was cleared finds any status in it, or the process dies.

### In the browser

JavaScript has one thread; what interleaves are the events of requests, of the audio element, of
timers and of the user.

**MusicQuery** is `music_query.js`: a query asks for one page after the other. `load` makes a new
request and nothing ever aborts an old one; every event of every request calls `process`, which
looks at the *newest* request (`Found`), whichever request the event was of. `Retry`, `More`,
`Finish` and `Ignore` are the branches of `process`; `Ask` is `reset` and the first load.

**Playlist** has two queries, which print into one table: it extends MusicQuery, whose variables are
those of `query`, the one for the songs, and has an instance of it, `search_query`. It has the search
boxes (`Search`, `ClearOne`, `ClearAll`), sorting (`SortSongs`, `SortSearch`, with the array of sort
keys that the playlist and the parameters of its query share), the `song_added` callback and the three
handlers that take the place of `onComplete`. `results.songs` of a query is undefined until rows come,
be it none (`q_found`, `s_found`): an answer with errors and no rows ends a query without them, and what
is copied from it then is undefined.

**Player** is `player.js` with `audio.js`, over a playlist that is loaded, not shuffled and not
searched. `play_song` starts a song that has a playable source (`StartSong`) or waits for it
(`AwaitSong`), and asks for the sources of the next ones (`DecodeNext`); answers come in any order
(`SourcesAnswer`, `TranscodeAnswer`), are counted per song, and lead to transcoding, polling every so
often (`Refresh`), and to play. `LoadStart` is an event of its own.

## 4. The properties and the runs

`queue` (3 threads, 2 jobs, 3 slots). Invariants: every slot has one owner, the list or one thread, at
every step, even in the middle of a critical section (`OneOwner`); while anything waits the links lead
from `head` through every waiting slot once and end at `tail` (`WaitingListLinked`); a call that has
returned keeps the mutex only when the queue is full (`LockKeptWhenFull`). Action
property: no step changes the job in a slot somebody still needs (`JobsNotOverwritten`). Refinement:
`ImplementsFifo`. Three slots and three threads reach every shape of the list (empty, one, several,
full, with the stale tail inside and outside the list, with reuse out of order). A full queue stands
still, so deadlock is not checked.

`transcoder` (2 request threads with 3 requests in all, 3 encoders, 2 slots; queries, inserts, codecs
and thread starts fail, and encodings may never end). The queue may fill up, and the mutex is then never
released, so deadlock is not checked. `UsesQueueAsSpecified`: every step of the composition is a step of
DecodingQueue, so what is proved of that module holds here. `LinkHasSource`: a link row is never written
without a source row of the same job.

`transcoder_live` (2 requests, 2 encoders, 2 slots: the queue cannot overflow; queries, inserts and
codecs fail, encodings may never end), under fairness. `WaitingJobHasEncoder`: no lost wake-up, for the
jobs that wait are never more than the threads that have yet to look at the queue and the requests about
to start one; a thread that works may never come back and does not count. `SlotIsFreed`: every waiting
job is taken, and the slot of every job at work becomes free, but that of an encoding that never ends.
`RequestIsAnswered`: every request is answered. Deadlock is checked. There are as many encoder threads
as requests, so that the start of a thread never waits for a model value.

`encoder` (2 threads with one job; a flac file of 2 frames of 2 and 5 samples and an mp3 file, requests
of 3 and 2 samples, blocks and pages of 2; opening, decoding, formats and writing fail).
`InOrder`: libvorbis is handed a beginning of the song, each sample once; `WholeSong`: an encoder that
ends well has handed over everything, has it in pages, and has its pages in the file if nobody else was
at it; `EncodingEnds` under fairness. A frame is shorter than a request, another longer than one and
no multiple of it, and the last block and page are not full. The second thread may come before, during
or after the first, with the other input.

`requests` (3 threads, 2 connections, 11 requests, 3 documents; statements and opening a file fail, and
the connection may be lost while rows are fetched). `AnswerFits`: an answer without an error has the
rows the words and the document mean, read by operators that do not go through the parameters and the
query (`Asked`), each value under the name of its own column, and a request that makes no sense is not
answered without one. Where the connection was lost while the rows were fetched, a beginning of them is
answered, and no error. The file of a pull is that of the first row, if nothing was reported of
the words. `LockReleased`: every return unlocks. No fairness is assumed; deadlock is checked. The
requests have conditions, sort keys given twice, limits given twice, a limit that is a pair with and
without an offset, an offset without a limit, unknown words, texts and lists; of the documents one is
that of the program in small, the others name tables that are not there, cannot be joined, or have no
id. With three threads and two connections two share one, or one finds none. Few rows, and no
second database, are enough: each request runs one statement.

`error_log` (3 adders with 2 reports each, 1 reader, 2 entries). `OverrunBounded`, `NothingLost`,
`CopyAgrees`. With a limit below the number of adders all of them can pass the check together.

`startup` (2 hosts, 2 children, 2 starts, every part may fail). `ServedIsComplete`: no request is
served by what was not initialised; `OneLog`: the children of a generation agree on one log;
`ShowsReports`: which start-up reports an answer shows; `NoSegmentLost`: through crashes, restarts
and reboots no segment is left without a name that leads to it. Two hosts reach sharing and taking
over, two starts a restart and a recovery.

`dir_sync` (1 or 2 directories, 2 songs with the same artist, album and title, and a picture; statements
fail, the connection or only an answer is lost, one file changes once). `OneRowEach`: no step adds an
artist, an album or a file a second time, but one, the repeat that `insert_db` makes once in the life of
the process, if it is outside of a transaction (the tables have no unique key, and the insert whose
answer was lost may have been done); and the files of a song of an album are linked to one song
(`OneSongEach`), also after that. `NotStale`: a file that changes while it is synced is found changed
the next time; `ProgressTells`: what 100 % means; `MutexHeld`: every one of the fifteen returns unlocks;
`CommitsWhole`: with one directory, and before a connection was lost, a file and its link are committed
together. The directories have a file in common, in either order, and the first has one that cannot be
opened before its files, the second behind them.

`music_query` (pages of 2, answers of 3 and of 2 rows, 4 loads; also answers that do not parse, that
are of no use, that have no rows). `HasFirstPages`: the rows of a running query are the first
pages of the answer to its present parameters, each once, and ended by a short page it has the
whole answer; `QueryEnds` under fairness. One answer ends with a short page, the other is a whole
number of pages, so that an empty one has to be asked for.

`playlist` (2 search boxes, 2 orders, pages of 2, 3 loads; answers that do not parse, and with errors
and no rows). `SearchShowsResults`: while there is text in a box the table shows what the search query
has collected since it was last sent, whatever the songs query brings meanwhile. Two things are less
than one may wish. An answer with errors and no rows ends the search, and the songs of the other query
are printed from then on; `SearchShowsResults` says that nothing else does that. After one of several
boxes was cleared, what the query has collected is of the text before, or a mixture of both, since
nothing is asked again (`playlist.js:211`).

`player` (3 songs of which 1 needs no transcoding, 4 asked for ahead, 3 plays).
`AwaitedIsOnItsWay`: for the song that is waited for a query, a timer or a transcoding is
outstanding; `AnswersDoNotInterrupt`: no answer changes the song that plays; `SomethingPlays`: in
the end a song plays. Four songs ahead of a list of three wrap around it.

`answer_without_source` ends in a violation: a request finds a job at progress 100 in the queue and
answers `output_source_id` 0 (`transcoder.c:380`), which the player then plays.

### Seen while modelling, without a run

The models contain the following, and their properties are stated so that they hold nevertheless. No
text of the repository promises otherwise, or the promise is too vague for a property.

* `add_decoding_job_queue` finds the queue full and returns with the mutex locked
  (`decoding_queue.c:161`): every process stops at its next lock. `LockKeptWhenFull` says that this is the
  only such return.
* Two threads that pass the limit check of the error log together write one entry behind the table
  (`error_messages.c:133`). `OverrunBounded` says how many can.
* Looking for a job in the queue and adding it are two critical sections, so two requests that both
  find nothing add one job twice (`transcoder.c:385`, `:394`). No fault is needed.
* A job that is finished between the look at the database and the look at the queue is encoded again
  (`transcoder.c:388`), as one is that was added twice. The two threads then write one output file, and
  their pages mix; it is not truncated either, so that a shorter song leaves the end of the one before
  (`ogg_encode.c:66`). The limit of four encoder threads tests a counter that nothing changes (`:405`).
* Whether the first frame of a flac file was decoded is not looked at (`flac.c:177-180` tests the
  status of the call before). A decoder that has given up then says that all is well and is asked for
  ever (`:62`), and the slot of its job is never freed: `EncodingEnds` names this state, and
  `SlotIsFreed` the slot. What is no end of an mp3 file is taken for one
  (`mpg123.c:190-196`), and the beginning of the song is recorded as the whole; `WholeSong` excepts it.
* A frame of another length makes new buffers and frees none (`flac.c:87-104`); a failed page leaves
  both files open (`ogg_encode.c:139`); with an unknown length progress is divided by 0 (`:113`).
* Connections are taken from the list without a lock and never given back (`db_config.c:70-75`): two
  requests may get one, which its mutex keeps apart, and after the last has gone every request fails. A
  condition on a text, or with a list of numbers, ends the process (`db_query_parameters.c:99`). A
  condition that cannot be used is reported, and the query runs without it, for every kind of request
  (`music_query.c:184-187`): such a pull sends the file of the first row, and no report with it
  (`pull_song.c:62`); an unknown sort key is reported and left out; an offset without a limit is left
  out and not reported (`db_config.c:210-213`). `AnswerFits` is therefore about answers without a
  report. When the connection is lost while rows are fetched, those fetched so far are the answer,
  without an error (`db_query.c:63`). What one request reported to the database the rows of every later
  one show. The parameters of transcoding are not among those a query knows, and the flag that would let
  them through is only set in a comment (`music_query.c:172`, `:259`): with `output_type` a transcoding
  is refused, without parameters there is none to make (`transcoder.c:355`), and with others the search
  for the type goes through a list that was never made (`:361`).
* `get_xml_attr` of a table without id leaves the id of the table before (`db_query_xml_config.c:183`), and
  the query of an element that stops the reading stays in the list as far as it was read. The odd
  last word of a request is never looked at.
* With two enabled hosts the start-up reports of the first are lost with its segment
  (`mod_mp.c:62`, `util_shmem.c:33`). A child overtaken by a graceful restart may attach to the log of
  the next generation, or keep the one it was forked with (`error_messages.c:66`).
* With two directories a thread that begins commits what another has half done, and its statements go
  on outside a transaction after the other has ended it (`dir_sync.c:210`, `:276`). If a later
  statement then fails, the row of the file stays without a link. The same happens with one directory
  after a connection was lost, and when a second one is lost at the link, which is reported as success
  (`db_config.c:269-275`). Every later sync finds that file up to date (`db_config.c:354`), and its
  song never appears.
* An insert outside of transactions whose answer is lost is done again on the new connection
  (`db_config.c:265-272`), and no table has a unique key (`sql_dump/mediaplayer.dmp:25-81`): the row may be
  there twice. `OneRowEach` excepts this step and no other.
* A progress of 100 % is shown before the transaction is committed; with one file it is 0/0
  (`dir_sync.c:271`). A subdirectory that cannot be opened ends the process at the next file after it
  (`tag_reader.c:71`, `:91`).
* An answer of an abandoned request that comes after the end of a query adds its last page again and
  calls `onComplete` again (`music_query.js:141`, `:218`). An answer with a status other than 200 ends a
  query without `onComplete`; one with errors and no rows ends it as complete (`:210`); if it is the
  first one, the songs of a playlist become undefined (`playlist.js:263`). An answer that does not parse
  is asked for again without limit (`music_query.js:148`), which `MaxLoads` bounds here.
* An answer with errors and no rows makes `search_results` undefined while a search box has text
  (`playlist.js:274`), and the next answer for the songs is printed into the table (`:53`).
* A late search answer after the last box was cleared sets `search_results` again
  (`playlist.js:274`). Sorting or clearing before the first load has finished leaves the songs
  undefined (`:171`, `:226`). After a search is cleared the songs are loaded again, maybe in another
  order, and the player's list is not updated (`:229`). Sorting a search changes the array
  the songs query shares, so that a query that still loads mixes pages of two orders (`:168`).
  Clearing one of several boxes changes the parameters and does not ask again (`:211`).
* When nothing plays, the first answer starts its song, whichever was asked for (`player.js:104`); a
  `loadstart` of the song before keeps the answer for the song that is waited for from starting it
  (`audio.js:41`).

### Fairness

Transcoder's `FairSpec` assumes weak fairness of each thread: the operating system runs every thread
that can run. A thread that waits for the mutex is enabled only while the mutex is free, so weak
fairness alone does not promise it the mutex if others take it for ever. It is enough because the
number of requests in a behaviour is bounded: the others run out of work. Fairness says nothing of an
encoding that never ends: its thread has no step left. Nothing is assumed of the
arrival of requests.

MusicQuery assumes weak fairness of the answers of requests in flight: the browser reports the end of
every request. Player assumes that of answers and timers, and strong fairness of `Transcoded`: a job
that is asked for again and again is done some day (the Transcoder's faults are not composed with it).
Nothing is assumed of the user. Encoder's `FairSpec` assumes weak fairness of each thread: it shares
no lock, and the calls of the libraries return. Startup, DirSync, Playlist and Requests have safety
properties only; of Requests nothing more could be said, since requests wait for a mutex that the
scheduler gives to whom it likes.

### Bounds

`MaxRequests` bounds the requests of a behaviour, `MaxAdds` the reports of a thread, `MaxStarts` and
`MaxSyncs` the starts of a server, `MaxTime` the changes of files, `MaxLoads` the requests of a
query, `MaxPlays` what the user starts; all are guards of one action each and bound nothing in the
code. `NumSlots` is 64, `Limit` is 1024, a page of songs is 750 or 1000 rows, a request for samples
1024 and `Every` 40 in the code; small values make "full" and "last" happen. `MaxRows` bounds the
rows of a query, which events after its end may add to for ever. `NumNext` and `NumSongs` are the
songs asked for ahead and the length of the playlist. Symmetry is used in runs of safety properties
only.

## 5. What is proved

`DecodingQueue_proofs`, for every set of threads and jobs and every number of slots: type correctness,
`OneOwner`, `WaitingListLinked`, `LockKeptWhenFull`, `JobsNotOverwritten`. They are parts or
consequences of one inductive invariant, `QueueInv`. What it adds to them: a thread inside a critical
section is the only holder of the mutex (`LockInv`); the slot a thread is about to mark is in neither
mask, and the added slot of an empty list is its head (`InHand`); what a thread works on is marked
working (`TakenIsWorking`). Without `InHand` the list would not be known to survive `AddLink`, where the
tail may be any slot, the added one included. The list is stated by a sequence of slots, and two lemmas,
`ListTake` and `ListAppend`, give the sequence of the next state. `QueueIsFifo` is the refinement of
JobFifo. `Chain`, the jobs in the order of the links, is a recursive function, and the sequence of slots
of the invariant is what it computes: were there a place at which they differ, there would be a first
one, and the place before it has the same link (`NatLessThanWellFounded`, `WFMin`). With that every step
of the queue is one of `Submit`, `Take` and `Finish`, or none.

`Transcoder_proofs`, for every finite set of requests and encoder threads, all jobs, faults and numbers
of slots. First `UsesQueueAsSpecified`: every step of the transcoder is a step of DecodingQueue or
leaves the queue alone. Since `DecodingQueue_proofs` is instantiated, its theorems then hold here, and
the rest rests on them; one of them is that jobs run in the order in which they came (`JobsRunInOrder`).
`NoLostWakeUp` states `WaitingJobHasEncoder` for `Faults` without "spawn": with it the property is
false, which is why it is checked by the run in which threads can be started. It is inductive together
with `Asking` (a request at work knows its job), and is a matter of counting: the job that is added
waits for the request that added it (`WakesRequest`), which gives it to the thread it starts; a thread
that stops looking either takes a job away or has found that none waits (`TakesHead`, `WakesEncoder`).
`TranscoderInv` has type correctness, with the bounds of `num_working_threads` (`Counted`), and
`LinkHasSource`. What it adds: a thread between the two marks has the slot (`Holding`); the mutex of the
database keeps its two inserts together (`DbHeld`); a thread at its link has a source in advance
(`Linked`). The job is read from the slot anew for each insert, so `Linked` needs `JobsKept` of the
queue: no step changes a slot that is marked working.

`Encoder_proofs`, for any number of threads, songs of any frames and any sizes of requests, blocks and
pages: `InOrder`, `WholeSong`, from `EncoderInv`. What it adds: what is left of the buffer is the end of
the frame decoded last (`Frame`); what was handed over, what the request has and what is left
come to where the decoder is (`Order`); an empty request is the end of the song, the last packet is
behind all samples, the last page behind the last packet (`Ending`); a thread that shares its
file with nobody is the only one at it (`Pages`). `Ending` is what ties success to the end of the
song: nothing in `ogg_encode` counts samples.

`ErrorMessages_proofs`, for every finite set of adders, every set of readers and every limit: type
correctness, `OverrunBounded`, `NothingLost`, `CopyAgrees`, from `LogInv`. What it adds: once the log is
full, the number of entries and the number of threads past the check stay within the bound
together (`Room`); a writer owns its entry and has written so much of it (`Writing`); nobody has
touched entries not yet claimed (`Untouched`); a reader is within what was claimed (`Reading`).

`Startup_proofs`, for every number of hosts, every set of children and any number of restarts: type
correctness, `ServedIsComplete`, `NoSegmentLost`, from `StartupInv`. What it adds: the loop leaves
only complete or disabled configurations behind it, also where hosts share one (`ParentComplete`,
`AtServer`); a child has a copy of complete ones (`ChildrenComplete`); whatever lives is
destroyed with the pool, or nothing of this parent is (`Owned`). `OneLog` and `ShowsReports` rest on a
second invariant, `LogsInv`, about what is logged where: the indexers have the log of their host, but
for the host the loop is at when it shares a configuration (`IndexersHaveLogs`); what a host reported
last is in the log it has (`ReportsInLog`); children of this generation are there only while the server runs
(`Generations`); and a young child has the parent's configurations, with the log to which one
attaches now for the servers it is through with (`YoungInherit`). Its proof showed an error of the
model that the run with two hosts cannot meet: of three hosts, of which the first and the third share
a configuration, the third is initialised after the second took the name over, and `reported` still
spoke of the first time. `Create` now sets it back, as the log of the host is then a new one.

`WebClient_proofs`. Of a query, for every page size, all parameters and all answers: type correctness
and `HasFirstPages`, from `QueryInv`. What it adds: while the query runs, its newest request asks for
the page it counts, with the present parameters, and that page begins within the answer (`Asked`); when
it is over, the answer of its newest request ended it (`Ended`). Lemma `NextPage`: the rows before a
page, with that page, are the rows before the next one. Of a playlist, for any search boxes and orders,
all answers included: `SearchShowsResults` (while there is text and the search goes on the table is a
copy of the results; lemma `OnlyNewRows` says that the rows that are appended are those not yet in it; a
search that is over has an answer with errors, and no rows), and type correctness (`PlaylistTypes`), in
which the search query has its types from lemmas of its own: it begins without a request, and its
parameters change while nobody asks. Of the player, for every number of songs and of songs asked for
ahead: type correctness, `AwaitedIsOnItsWay`, which with it is inductive, and `AnswersDoNotInterrupt`.

`Requests_proofs`, for any number of threads and connections, and all tables, documents, words and rows:
`LockReleased`, what it is for (`StatementsAreApart`: no two threads run a statement on one connection,
though both may have taken it), and `AnswerFits` (`AnswersAreRight`). The last has four layers.

* What is read of the document. `ForEach` goes through states that follow each other (`ColumnLoop` ...
  `PairLoop`, by induction with sets in the place of properties: lemma `Induction`), so what holds of
  the first k elements holds of all. While nothing has gone wrong the tables, columns, names and
  groups are those written down so far (`ColumnsRead`, `CountsRead`, `ChildrenRead`), and the list of
  columns and the string of their names have the same length and belong together, place by place
  (`ListFits`). The queries are read in the order of their elements and
  keep their ids, also those whose reading stops (`DocumentRead`), so that the search for a noun finds
  the query of the element that has it (`QueryFound`). A query that is well formed was read to its
  end, whatever ended the reading behind it.
* What is made of the words. After k of them without a report, the conditions, the keys and the two
  clauses are those said so far (`WordsAreRead`); once something is reported it stays so
  (`NotFine`).
* What the statement asks for. If it is valid the request makes sense, and its rows are the rows asked
  for (`StatementFits`). A value stands under the name of its own column (`ListIsShown`), and the first
  row is searched where the name of the column is (`ColumnIsShown`); for that the ids looked for
  have to be ids (`IdsAssumption`: counts have none).
* The threads. `AnswerInv`: a thread at work has the query and parameters of its request; what waits on
  the connection of a thread that fetches is of its own statement; what is in its results afterwards is
  all of that, or a beginning of it if the connection was lost (`Got`); an answer that was given is
  right. A step of another thread keeps that because of
  `LockInv`, the invariant of the connections: the connection it fills is not one from which
  somebody reads.

While proving this `AnswerFits` was found to say too much or the wrong thing in places that
the run did not reach, and was corrected, with inputs added to the run: several `group_by`, of
which the last one counts; an offset of which nothing is made without a limit; a limit that
is set again, or is a pair; a column whose name is that of a clause.

`DirSync_proofs`, for every number of directories, all files, walks, tags and faults: type correctness
(with the foreign keys of the links), `MutexHeld`, `ProgressTells`, `NotStale`, in two layers.
`ThreadInv` is about the threads alone, whatever the database answers: files done and files left add up
to the files found (`Counted`), the progress shown is that of the file before (`Shown`), a directory not
yet started has done nothing (`Unstarted`). Without `Counted` nothing would tie 100 % to the end of the
list; lemma `PercentOf` is the arithmetic. `DbInv` rests on it: what every operator on the database
keeps of its rows, seen or committed (`GoodDb`), and that the time noted of a file is neither after its
last change nor after its tags were read (`Dated`). Two more rest on both. `RowsInv` is for
`OneRowEach`: the committed rows come first among the visible ones (`Within`); the songs of one artist,
album and title that are linked are one (`OneSongs`, from which `SongsAreOne`); and what a search did
not find (`Fresh`) or the song that it chose (`SongIsOne`) is still right when the row is inserted.
`Within` is what makes that so: a rollback, a new connection or the second try of a statement takes rows
away and adds none but the inserted one (`Rolled`, `Grown`, `Inserted`). `NoneMore` counts the
repetitions of a column: an insert of what is not there yet makes none, and the second try of one that
was done makes the last row one, which happens only where `insert_db` reconnects outside of a
transaction for the first time. `WholeInv` is for `CommitsWhole`: every file in the transaction has its
link, but the one that the thread is at (`Pending`), unless a statement failed; and the transaction
remembers that it failed (`Remembers`), so that its end commits nothing. Before the transaction, nothing
is visible that is not committed (`Before`). Both were checked by TLC as invariants of the run before
they were proved.

Assumptions: the `ASSUME`s of the modules, which TLC evaluates for each run. Those of QueryConfig and
Requests say that the configuration, documents and requests are what an XML parser and a split URI can
give: sequences of elements with attributes that are texts or missing, where the ids of tables, columns
and queries are there (`TableElemsAssumption`, `DocumentsAssumption`, `InputsAssumption`), and `NULL` is
neither a text nor a thread (`NullAssumption`, `ThreadsAssumption`). `CountsAssumption` leaves out the
search for a column in a query that counts, which reads at a NULL. `IdsAssumption` (the ids that
`pull_song` looks for are not `NULL`) follows from `NullAssumption` for everyone but the provers, which
know no string to be a member of `STRING`.

`FiniteAssumption` of the Transcoder is for the counting; of faults nothing is assumed, except of the
thread starts in `NoLostWakeUp`.

Only model-checked: all liveness (`QueryEnds`, `EncodingEnds`, `SlotIsFreed`, `RequestIsAnswered`,
`SomethingPlays`), which needs `FairSpec` and ENABLED. Every other property of a passing run is stated
by a theorem; that of the run that ends in a violation is false. A lemma about every step of a loop
could not be instantiated by the provers, because its step would be an operator; that is why
`Requests_proofs` has a lemma for each of the six loops.

## 6. Not modelled, and the plan

Done in this order, the most important behaviour first:

1. JobFifo, DecodingQueue and its proofs - done
2. Transcoder over DecodingQueue - done
3. ErrorMessages and its proofs - done
4. MusicQuery, Playlist and their proofs - done
5. Player and its proofs - done
6. Startup and its proofs - done
7. DirSync and its proofs - done; the status output and attaching to it are left
8. Proofs of the Transcoder over those of DecodingQueue - done
9. Encoder, with the buffers of `flac.c` and `mpg123.c`, and its proofs - done
10. QueryConfig and Requests: queries, parameters, connections, dispatch in `music_query.c`, and
    the proofs of them - done

What is left, in this order: the Player composed with the failures of the Transcoder, where a failed
job is queued again by every poll (`player.js:48`; now the Transcoder's runs have the job that failed and is
asked for again, and the Player's the song that is awaited meanwhile, each alone); shuffling and the
browser; attaching to the status of the sync and to the queue in a child process; preparing
statements; closing files in the codecs.

Not modelled, and why: `input.c` makes its words for an indexer that is looked up by a name
nothing sets, and `music_query.c` reads fields it no longer makes, so no behaviour of the program
rests on it (Requests begins with the words); `json_escape_char` is a table of characters.

Left out for good: layout of pages and of JSON, `upload.c` (all comment), the MusicBrainz client (its
only call is commented out), audio coding (libraries), build files and data.

## 7. Running

    tlc -workers 2 -config DecodingQueue.cfg MCDecodingQueue.tla
    tlapm DecodingQueue_proofs.tla

Every run, its configuration and what it shows is in `PROJECT.json` under `runs`. The operators whose
names end in `_Something` after the name of an action are mutated forms of that action: each breaks
the property it is listed with under `mutants`.
