---------------------------- MODULE DirSync_proofs ----------------------------
(* Proofs about DirSync, for any number of directories, any files and faults. *)
EXTENDS DirSync, SequenceTheorems, TLAPS

-----------------------------------------------------------------------------
(* Where a thread is *)

InSong == {"update", "source", "artist", "album", "song", "link"}
WithFile == InSong \cup {"lock", "progress"}
Listed == WithFile \cup {"begin", "loop"}
Places == Listed \cup {"none", "created"}

\* The types of what the threads have, apart from the database.
ThreadTypes ==
  /\ dirs \in Dirs /\ init \in 0 .. NumDirs + 1
  /\ mtime \in [Files -> Nat]
  /\ mutex \in Dirs \cup {Nothing}
  /\ pc \in [Dirs -> Places]
  /\ list \in [Dirs -> Seq([path : Files, mtime : Nat])]
  /\ num_files \in [Dirs -> Nat] /\ files_synced \in [Dirs -> Nat]
  /\ progress \in [Dirs -> Nat \cup {Nothing}]

\* A directory whose thread was not started yet.
Unstarted(d) ==
  init = 0 \/ d >= init =>
    pc[d] = "none" /\ list[d] = << >> /\ files_synced[d] = 0 /\ progress[d] = 0

\* What is done and what is left are the files of the directory.
Counted(d) ==
  /\ pc[d] = "created" => list[d] = << >> /\ files_synced[d] = 0 /\ progress[d] = 0
  /\ pc[d] \in Listed => files_synced[d] + Len(list[d]) = num_files[d]
  /\ pc[d] \in WithFile => list[d] # << >>

\* The progress that is shown is of the file before.
Shown(d) ==
  /\ pc[d] \in Listed =>
       progress[d] = IF files_synced[d] = 0 THEN 0
                     ELSE Percent(files_synced[d] - 1, num_files[d])
  /\ progress[d] = 100 => list[d] = << >>

Held(d) == mutex = d <=> pc[d] \in InSong

ThreadAt(d) == Unstarted(d) /\ Counted(d) /\ Shown(d) /\ Held(d)

ThreadInv == ThreadTypes /\ \A d \in Dirs : ThreadAt(d)

-----------------------------------------------------------------------------
(* The threads *)

LEMMA DirsAreNumbers == Dirs \subseteq Nat /\ Nothing \notin Dirs /\ 0 \notin Dirs
  BY NumDirsAssumption, NothingAssumption DEF Dirs

\* What is shown after a file: 100 with the last one only, and then always if there are
\* other files.
LEMMA PercentOf ==
  ASSUME NEW synced \in Nat, NEW num \in Nat, synced < num
  PROVE  /\ Percent(synced, num) \in Nat \cup {Nothing}
         /\ Percent(synced, num) = 100 => synced = num - 1
         /\ num > 1 /\ synced = num - 1 => Percent(synced, num) = 100
<1>1. CASE num = 1
  BY <1>1, NothingAssumption DEF Percent
<1>2. CASE num > 1
  <2> DEFINE n == num - 1
             q == (synced * 100) \div n
  <2>1. n \in Nat /\ n > 0 /\ synced <= n /\ Percent(synced, num) = q
    BY <1>2 DEF Percent
  <2> HIDE DEF n
  <2>2. q \in Nat /\ n * q <= synced * 100 /\ synced * 100 < n * q + n
    BY <2>1, SMTT(30)
  <2> HIDE DEF q
  <2>3. q = 100 => synced = n
    BY <2>1, <2>2
  <2>4. synced = n => q = 100
    <3> SUFFICES ASSUME synced = n PROVE q = 100
      OBVIOUS
    <3>1. n * q <= n * 100 /\ n * 100 < n * q + n
      BY <2>1, <2>2
    <3>2. q <= 100
      BY <3>1, <2>1, <2>2, SMTT(30)
    <3>3. 100 < q + 1
      BY <3>1, <2>1, <2>2, SMTT(30)
    <3> QED
      BY <3>2, <3>3, <2>2
  <2> QED
    BY <2>1, <2>2, <2>3, <2>4 DEF n
<1> QED
  BY <1>1, <1>2

LEMMA ThreadInit == Init => ThreadInv
<1> SUFFICES ASSUME Init PROVE ThreadInv
  OBVIOUS
<1>1. ThreadTypes
  BY DirsAreNumbers, NumDirsAssumption DEF Init, ThreadTypes, Dirs, Places
<1>2. ASSUME NEW d \in Dirs PROVE ThreadAt(d)
  BY DirsAreNumbers
  DEF Init, ThreadAt, Unstarted, Counted, Shown, Held, InSong, WithFile, Listed
<1> QED
  BY <1>1, <1>2 DEF ThreadInv

LEMMA DieStep == ASSUME ThreadInv, Die PROVE ThreadInv'
<1>1. ThreadTypes'
  BY NumDirsAssumption DEF Die, ThreadInv, ThreadTypes, Dirs, Places
<1>2. ASSUME NEW d \in Dirs PROVE ThreadAt(d)'
  BY DirsAreNumbers
  DEF Die, ThreadAt, Unstarted, Counted, Shown, Held, InSong, WithFile, Listed
<1> QED
  BY <1>1, <1>2 DEF ThreadInv

\* What a thread has is as it was, and the mutex is no more and no less its own.
Untouched(d) ==
  /\ pc'[d] = pc[d] /\ list'[d] = list[d] /\ num_files'[d] = num_files[d]
  /\ files_synced'[d] = files_synced[d] /\ progress'[d] = progress[d]
  /\ mutex' = d <=> mutex = d

LEMMA UntouchedAt ==
  ASSUME NEW d, ThreadAt(d), Untouched(d),
         init' = 0 \/ d >= init' => init = 0 \/ d >= init
  PROVE  ThreadAt(d)'
  BY DEF ThreadAt, Untouched, Unstarted, Counted, Shown, Held

LEMMA ServerStep ==
  ASSUME ThreadInv, Start \/ InitDir \/ InitDirFails \/ \E f \in DOMAIN Tags : Touch(f)
  PROVE  ThreadInv'
<1>1. CASE Start
  <2>1. init' \in 0 .. NumDirs + 1
    BY <1>1, NumDirsAssumption DEF Start
  <2>3. ThreadTypes'
    BY <1>1, <2>1 DEF Start, stats, ThreadInv, ThreadTypes
  <2>2. ASSUME NEW d \in Dirs PROVE ThreadAt(d)'
    BY <1>1, UntouchedAt DEF Start, stats, ThreadInv, Untouched
  <2> QED
    BY <2>3, <2>2 DEF ThreadInv
<1>2. CASE InitDir
  <2>1. init \in Dirs /\ init + 1 \in 0 .. NumDirs + 1 /\ init + 1 # 0
    BY <1>2, NumDirsAssumption DEF InitDir, Dirs, ThreadInv, ThreadTypes
  <2>2. ThreadTypes'
    BY <1>2, <2>1 DEF InitDir, stats, ThreadInv, ThreadTypes, Places
  <2>3. ASSUME NEW d \in Dirs PROVE ThreadAt(d)'
    <3>1. CASE d = init
      BY <1>2, <2>1, <3>1, DirsAreNumbers
      DEF InitDir, stats, ThreadInv, ThreadTypes, ThreadAt, Unstarted, Counted, Shown, Held,
          InSong, WithFile, Listed
    <3>2. CASE d # init
      <4>1. Untouched(d)
        BY <1>2, <3>2 DEF InitDir, stats, ThreadInv, ThreadTypes, Untouched
      <4>2. init' = 0 \/ d >= init' => init = 0 \/ d >= init
        BY <1>2, <2>1, DirsAreNumbers DEF InitDir
      <4> QED
        BY <4>1, <4>2, UntouchedAt DEF ThreadInv
    <3> QED
      BY <3>1, <3>2
  <2> QED
    BY <2>2, <2>3 DEF ThreadInv
<1>3. CASE InitDirFails
  <2>1. init' \in 0 .. NumDirs + 1
    BY <1>3, NumDirsAssumption DEF InitDirFails
  <2>3. ThreadTypes'
    BY <1>3, <2>1 DEF InitDirFails, stats, ThreadInv, ThreadTypes
  <2>2. ASSUME NEW d \in Dirs PROVE ThreadAt(d)'
    <3>1. Untouched(d)
      BY <1>3 DEF InitDirFails, stats, Untouched
    <3>2. ~(init' = 0 \/ d >= init')
      BY <1>3, NumDirsAssumption DEF InitDirFails, Dirs
    <3> QED
      BY <3>1, <3>2, UntouchedAt DEF ThreadInv
  <2> QED
    BY <2>3, <2>2 DEF ThreadInv
<1>4. CASE \E f \in DOMAIN Tags : Touch(f)
  <2>1. mtime' \in [Files -> Nat]
    <3>1. PICK f \in DOMAIN Tags : Touch(f)
      BY <1>4
    <3>2. PICK now \in 1 .. MaxTime : mtime' = [mtime EXCEPT ![f] = now]
      BY <3>1 DEF Touch
    <3>3. now \in Nat
      BY MaxTimeAssumption
    <3> QED
      BY <3>2, <3>3 DEF ThreadInv, ThreadTypes
  <2>3. ThreadTypes'
    BY <1>4, <2>1 DEF Touch, stats, ThreadInv, ThreadTypes
  <2>2. ASSUME NEW d \in Dirs PROVE ThreadAt(d)'
    BY <1>4, UntouchedAt DEF Touch, stats, ThreadInv, Untouched
  <2> QED
    BY <2>3, <2>2 DEF ThreadInv
<1> QED
  BY <1>1, <1>2, <1>3, <1>4

LEMMA ReadDirStep == ASSUME ThreadInv, NEW d \in Dirs, ReadDir(d) PROVE ThreadInv'
<1>0. PICK walk \in Walks[d] : \E n \in 0 .. Len(walk) :
        /\ \A i \in DOMAIN walk : i <= n <=> walk[i] # Unreadable
        /\ list' = [list EXCEPT ![d] =
                      [i \in 1 .. n |-> [path |-> walk[i], mtime |-> mtime[walk[i]]]]]
        /\ num_files' = [num_files EXCEPT ![d] = n]
  BY DEF ReadDir
<1>1. PICK n \in 0 .. Len(walk) :
        /\ \A i \in DOMAIN walk : i <= n <=> walk[i] # Unreadable
        /\ list' = [list EXCEPT ![d] =
                      [i \in 1 .. n |-> [path |-> walk[i], mtime |-> mtime[walk[i]]]]]
        /\ num_files' = [num_files EXCEPT ![d] = n]
  BY <1>0
<1> DEFINE files == [i \in 1 .. n |-> [path |-> walk[i], mtime |-> mtime[walk[i]]]]
<1>2. n \in Nat /\ \A i \in 1 .. n : walk[i] \in Files
  BY <1>1, WalksAssumption
<1>3. files \in Seq([path : Files, mtime : Nat]) /\ Len(files) = n
  <2>1. \A i \in 1 .. n : files[i] \in [path : Files, mtime : Nat]
    BY <1>2 DEF ThreadInv, ThreadTypes
  <2> QED
    BY <1>2, <2>1, IsASeq, LenProperties
<1>4. ThreadTypes'
  BY <1>1, <1>2, <1>3
  DEF ReadDir, Goto, server, ThreadInv, ThreadTypes, Places, Listed
<1>5. ASSUME NEW e \in Dirs PROVE ThreadAt(e)'
  <2>1. CASE e = d
    BY <1>1, <1>2, <1>3, <2>1
    DEF ReadDir, Goto, server, ThreadInv, ThreadTypes, ThreadAt, Unstarted, Counted, Shown,
        Held, InSong, WithFile, Listed
  <2>2. CASE e # d
    BY <1>1, <2>2, UntouchedAt
    DEF ReadDir, Goto, server, ThreadInv, ThreadTypes, Untouched
  <2> QED
    BY <2>1, <2>2
<1> QED
  BY <1>4, <1>5 DEF ThreadInv

\* A step of a thread that goes from one place to another.
Moves(d, at) ==
  /\ pc' = [pc EXCEPT ![d] = at]
  /\ UNCHANGED <<dirs, init, mtime, list, stats>>

\* Without the mutex, and with it not in the hands of d before and after.
LEMMA MovesFree ==
  ASSUME ThreadInv, NEW d \in Dirs, NEW at \in Places \ InSong, Moves(d, at),
         pc[d] \in Places \ (InSong \cup {"none"}), UNCHANGED mutex,
         at \in Listed => pc[d] \in Listed,
         at = "created" => pc[d] = "created",
         at \in WithFile => list[d] # << >>
  PROVE  ThreadInv'
<1>1. ThreadTypes'
  BY DEF Moves, stats, ThreadInv, ThreadTypes
<1>2. ASSUME NEW e \in Dirs PROVE ThreadAt(e)'
  <2>1. CASE e = d
    BY <2>1
    DEF Moves, stats, ThreadInv, ThreadTypes, ThreadAt, Unstarted, Counted, Shown, Held
  <2>2. CASE e # d
    BY <2>2, UntouchedAt DEF Moves, stats, ThreadInv, ThreadTypes, Untouched
  <2> QED
    BY <2>1, <2>2
<1> QED
  BY <1>1, <1>2 DEF ThreadInv

\* A step of sync_song goes on with the mutex, or unlocks and returns.
SongMoves(d) ==
  \/ \E at \in InSong : Moves(d, at) /\ mutex' = d
  \/ Moves(d, "progress") /\ mutex' = Nothing

LEMMA SongMovesStep ==
  ASSUME ThreadInv, NEW d \in Dirs, SongMoves(d),
         pc[d] \in InSong \/ (pc[d] = "lock" /\ mutex = Nothing)
  PROVE  ThreadInv'
<1>1. PICK at \in InSong \cup {"progress"} :
        Moves(d, at) /\ mutex' = IF at = "progress" THEN Nothing ELSE d
  BY DEF SongMoves, InSong
<1>2. mutex = d \/ mutex = Nothing
  BY DEF ThreadInv, ThreadAt, Held
<1>3. ThreadTypes'
  BY <1>1 DEF Moves, stats, ThreadInv, ThreadTypes, Places, Listed, WithFile
<1>4. ASSUME NEW e \in Dirs PROVE ThreadAt(e)'
  <2>1. CASE e = d
    BY <1>1, <2>1, DirsAreNumbers, SMTT(20)
    DEF Moves, stats, ThreadInv, ThreadTypes, ThreadAt, Unstarted, Counted, Shown, Held,
        InSong, WithFile, Listed
  <2>2. CASE e # d
    <3>1. mutex' = e <=> mutex = e
      BY <1>1, <1>2, <2>2, DirsAreNumbers
    <3>2. Untouched(e)
      BY <1>1, <2>2, <3>1 DEF Moves, stats, ThreadInv, ThreadTypes, Untouched
    <3> QED
      BY <1>1, <3>2, UntouchedAt DEF Moves, ThreadInv
  <2> QED
    BY <2>1, <2>2
<1> QED
  BY <1>3, <1>4 DEF ThreadInv

LEMMA ContinueMoves ==
  ASSUME NEW d \in Dirs, NEW s, NEW t, NEW at \in InSong, Continue(d, s, t, at), mutex = d
  PROVE  SongMoves(d)
  BY DEF Continue, Return, Goto, server, SongMoves, Moves

LEMMA SongStep ==
  ASSUME ThreadInv, NEW d \in Dirs,
         SelectMtime(d) \/ Update(d) \/ AddSource(d) \/ FindArtist(d) \/ FindAlbum(d)
         \/ FindSong(d) \/ AddLink(d)
  PROVE  ThreadInv'
<1>1. pc[d] \in InSong => mutex = d
  BY DEF ThreadInv, ThreadAt, Held
<1>2. CASE SelectMtime(d)
  <2>1. SongMoves(d)
    BY <1>2 DEF SelectMtime, Return, Goto, server, SongMoves, Moves, InSong
  <2> QED
    BY <1>2, <2>1, SongMovesStep DEF SelectMtime
<1>3. CASE Update(d)
  <2>1. SongMoves(d)
    BY <1>3 DEF Update, Return, Goto, server, SongMoves, Moves
  <2> QED
    BY <1>3, <2>1, SongMovesStep DEF Update, InSong
<1>4. CASE AddSource(d)
  BY <1>1, <1>4, ContinueMoves, SongMovesStep DEF AddSource, InSong
<1>5. CASE FindArtist(d)
  BY <1>1, <1>5, ContinueMoves, SongMovesStep DEF FindArtist, InSong
<1>6. CASE FindAlbum(d)
  BY <1>1, <1>6, ContinueMoves, SongMovesStep DEF FindAlbum, InSong
<1>7. CASE FindSong(d)
  BY <1>1, <1>7, ContinueMoves, SongMovesStep DEF FindSong, InSong
<1>8. CASE AddLink(d)
  <2>1. SongMoves(d)
    BY <1>8 DEF AddLink, Return, Goto, server, SongMoves, Moves
  <2> QED
    BY <1>8, <2>1, SongMovesStep DEF AddLink, InSong
<1> QED
  BY <1>2, <1>3, <1>4, <1>5, <1>6, <1>7, <1>8

LEMMA ProgressStep == ASSUME ThreadInv, NEW d \in Dirs, Progress(d) PROVE ThreadInv'
<1>1. /\ list[d] \in Seq([path : Files, mtime : Nat]) /\ list[d] # << >>
      /\ files_synced[d] \in Nat /\ num_files[d] \in Nat
      /\ files_synced[d] + Len(list[d]) = num_files[d]
  BY DEF Progress, ThreadInv, ThreadTypes, ThreadAt, Counted, WithFile, Listed
<1>2. /\ Tail(list[d]) \in Seq([path : Files, mtime : Nat])
      /\ Len(Tail(list[d])) = Len(list[d]) - 1
      /\ files_synced[d] < num_files[d]
      /\ files_synced[d] = num_files[d] - 1 => Tail(list[d]) = << >>
  <2> DEFINE l == list[d]
  <2>1. /\ Tail(l) \in Seq([path : Files, mtime : Nat]) /\ Len(Tail(l)) = Len(l) - 1
        /\ Len(l) \in Nat \ {0}
    BY <1>1, HeadTailProperties, EmptySeq
  <2>2. Len(Tail(l)) = 0 => Tail(l) = << >>
    BY <2>1, EmptySeq
  <2>3. \A done, all \in Nat, left \in Nat \ {0} :
          done + left = all => done < all /\ (done = all - 1 => left - 1 = 0)
    OBVIOUS
  <2>4. /\ files_synced[d] < num_files[d]
        /\ files_synced[d] = num_files[d] - 1 => Len(Tail(l)) = 0
    BY <1>1, <2>1, <2>3
  <2> QED
    BY <2>1, <2>2, <2>4
<1> DEFINE p == Percent(files_synced[d], num_files[d])
<1>3. p \in Nat \cup {Nothing} /\ (p = 100 => Tail(list[d]) = << >>)
  BY <1>1, <1>2, PercentOf
<1>0. /\ files_synced' = [files_synced EXCEPT ![d] = files_synced[d] + 1]
      /\ progress' = [progress EXCEPT ![d] = p]
      /\ list' = [list EXCEPT ![d] = Tail(list[d])]
      /\ pc' = [pc EXCEPT ![d] = "loop"]
  BY DEF Progress, Goto
<1> HIDE DEF p
<1>4. ThreadTypes'
  <2>2. files_synced' \in [Dirs -> Nat] /\ progress' \in [Dirs -> Nat \cup {Nothing}]
    BY <1>0, <1>1, <1>3, SMTT(20) DEF ThreadInv, ThreadTypes
  <2>3. list' \in [Dirs -> Seq([path : Files, mtime : Nat])] /\ pc' \in [Dirs -> Places]
    BY <1>0, <1>2 DEF ThreadInv, ThreadTypes, Places, Listed
  <2> QED
    BY <2>2, <2>3 DEF Progress, server, ThreadInv, ThreadTypes
<1>5. ASSUME NEW e \in Dirs PROVE ThreadAt(e)'
  <2>1. CASE e = d
    <3>1. files_synced'[d] = files_synced[d] + 1 /\ progress'[d] = p
      BY <1>0 DEF ThreadInv, ThreadTypes
    <3>2. files_synced'[d] # 0 /\ files_synced'[d] - 1 = files_synced[d]
      BY <1>1, <3>1
    <3>3. list'[d] = Tail(list[d]) /\ pc'[d] = "loop" /\ num_files'[d] = num_files[d]
      BY <1>0 DEF Progress, ThreadInv, ThreadTypes
    <3>4. Shown(d)'
      BY <1>3, <3>1, <3>2, <3>3 DEF Shown, p
    <3>5. Counted(d)'
      BY <1>1, <1>2, <3>1, <3>3 DEF Counted, InSong, WithFile
    <3> QED
      BY <2>1, <3>3, <3>4, <3>5, DirsAreNumbers
      DEF Progress, Goto, server, ThreadInv, ThreadTypes, ThreadAt, Unstarted, Held,
          InSong
  <2>2. CASE e # d
    BY <2>2, UntouchedAt DEF Progress, Goto, server, ThreadInv, ThreadTypes, Untouched
  <2> QED
    BY <2>1, <2>2
<1> QED
  BY <1>4, <1>5 DEF ThreadInv

LEMMA ThreadStep == ASSUME ThreadInv, NEW d \in Dirs, Thread(d) PROVE ThreadInv'
<1>1. CASE ReadDir(d)
  BY <1>1, ReadDirStep
<1>2. CASE ReadDirFalls(d)
  BY <1>2, DieStep DEF ReadDirFalls
<1>3. CASE NotConnected(d)
  BY <1>3, MovesFree DEF NotConnected, Goto, server, Moves, InSong, WithFile, Listed, Places
<1>4. CASE Begin(d)
  BY <1>4, MovesFree DEF Begin, Goto, server, Moves, InSong, WithFile, Listed, Places
<1>5. CASE End(d)
  BY <1>5, MovesFree DEF End, Goto, server, Moves, InSong, WithFile, Listed, Places
<1>6. CASE ReadTags(d)
  BY <1>6, MovesFree DEF ReadTags, Goto, server, Moves, InSong, WithFile, Listed, Places
<1>7. CASE SkipFile(d)
  BY <1>7, MovesFree DEF SkipFile, Goto, server, Moves, InSong, WithFile, Listed, Places
<1>8. CASE Progress(d)
  BY <1>8, ProgressStep
<1> QED
  BY <1>1, <1>2, <1>3, <1>4, <1>5, <1>6, <1>7, <1>8, SongStep DEF Thread

LEMMA ThreadNext == ThreadInv /\ [Next]_vars => ThreadInv'
<1>1. ASSUME ThreadInv, UNCHANGED vars PROVE ThreadInv'
  BY <1>1
  DEF vars, server, stats, ThreadInv, ThreadTypes, ThreadAt, Unstarted, Counted, Shown, Held
<1>2. ASSUME ThreadInv, Next PROVE ThreadInv'
  BY <1>2, ServerStep, DieStep, ThreadStep DEF Next, Stop
<1> QED
  BY <1>1, <1>2

LEMMA ThreadsInvariant == Spec => []ThreadInv
  BY ThreadInit, ThreadNext, PTL DEF Spec

-----------------------------------------------------------------------------

\* Every return of sync_song unlocks: the mutex is held by a thread between the first and
\* the last statement of a song and by nobody else.
THEOREM MutexIsHeld == Spec => []MutexHeld
<1>1. ThreadInv => MutexHeld
  BY DEF ThreadInv, ThreadAt, Held, InSong, MutexHeld
<1> QED
  BY <1>1, ThreadsInvariant, PTL

\* A progress of 100 % is shown when the last of several files was tried, and never before.
THEOREM ProgressIsTold == Spec => []ProgressTells
<1>1. ThreadInv => ProgressTells
  <2> SUFFICES ASSUME ThreadInv, NEW d \in Dirs
               PROVE  /\ progress[d] = 100 => list[d] = << >>
                      /\ pc[d] = "loop" /\ list[d] = << >> /\ num_files[d] > 1
                           => progress[d] = 100
    BY DEF ProgressTells
  <2>1. ASSUME pc[d] = "loop", list[d] = << >>, num_files[d] > 1 PROVE progress[d] = 100
    <3>1. files_synced[d] = num_files[d] /\ num_files[d] \in Nat
      BY <2>1 DEF ThreadInv, ThreadTypes, ThreadAt, Counted, Listed
    <3>2. Percent(num_files[d] - 1, num_files[d]) = 100
      BY <2>1, <3>1, PercentOf
    <3> QED
      BY <2>1, <3>1, <3>2 DEF ThreadInv, ThreadAt, Shown, Listed
  <2> QED
    BY <2>1 DEF ThreadInv, ThreadAt, Shown
<1> QED
  BY <1>1, ThreadsInvariant, PTL

-----------------------------------------------------------------------------
(* The database: what the operators on it keep of its rows *)

GoodRows(r) ==
  /\ r \in Rows
  /\ \A i \in DOMAIN r.links : Allowed(r, r.links[i])
  /\ \A i \in DOMAIN r.sources : r.sources[i].mtime <= r.sources[i].seen

GoodDb(d) == d \in Databases /\ GoodRows(d.rows) /\ GoodRows(d.committed)

GoodResult(s) == GoodDb(s.db) /\ s.status \in Status

GoodRow(t, row) ==
  \/ t \in {"artists", "albums", "songs"} /\ row \in Names
  \/ t = "sources" /\ row \in SourceRows /\ row.mtime <= row.seen
  \/ t = "links" /\ row \in LinkRows

LEMMA AppendGood ==
  ASSUME NEW r, GoodRows(r), NEW t, NEW row, GoodRow(t, row), t = "links" => Allowed(r, row)
  PROVE  GoodRows([r EXCEPT ![t] = Append(@, row)])
<1> DEFINE q == [r EXCEPT ![t] = Append(@, row)]
<1>1. CASE t \in {"artists", "albums", "songs"}
  <2>1. /\ Append(r[t], row) \in Seq(Names)
        /\ DOMAIN r[t] \subseteq DOMAIN Append(r[t], row)
    <3>1. r[t] \in Seq(Names) /\ row \in Names
      BY <1>1 DEF GoodRows, GoodRow, Rows
    <3> QED
      BY <3>1, AppendProperties, LenProperties
  <2>2. q \in Rows /\ q.links = r.links /\ q.sources = r.sources
    BY <1>1, <2>1 DEF GoodRows, Rows
  <2>3. \A u \in Ids : DOMAIN r[u] \subseteq DOMAIN q[u]
    BY <1>1, <2>1 DEF GoodRows, Rows, Ids
  <2> QED
    BY <2>2, <2>3 DEF GoodRows, Allowed
<1>2. CASE t = "sources"
  <2>1. r.sources \in Seq(SourceRows) /\ row \in SourceRows /\ row.mtime <= row.seen
    BY <1>2 DEF GoodRows, GoodRow, Rows
  <2> DEFINE new == Append(r.sources, row)
  <2>2. /\ new \in Seq(SourceRows) /\ DOMAIN r.sources \subseteq DOMAIN new
        /\ \A i \in DOMAIN new : new[i] = row \/ (i \in DOMAIN r.sources /\ new[i] = r.sources[i])
    BY <2>1, AppendProperties, LenProperties
  <2> HIDE DEF new
  <2>3. q \in Rows /\ q.links = r.links /\ q.sources = new
    BY <1>2, <2>2 DEF GoodRows, Rows, new
  <2>4. \A u \in Ids : DOMAIN r[u] \subseteq DOMAIN q[u]
    BY <1>2, <2>2 DEF GoodRows, Rows, Ids, new
  <2>5. \A i \in DOMAIN q.sources : q.sources[i].mtime <= q.sources[i].seen
    BY <2>1, <2>2, <2>3 DEF GoodRows
  <2> QED
    BY <2>3, <2>4, <2>5 DEF GoodRows, Allowed
<1>3. CASE t = "links"
  <2>1. r.links \in Seq(LinkRows) /\ row \in LinkRows /\ Allowed(r, row)
    BY <1>3 DEF GoodRows, GoodRow, Rows
  <2> DEFINE new == Append(r.links, row)
  <2>2. /\ new \in Seq(LinkRows)
        /\ \A i \in DOMAIN new : new[i] = row \/ (i \in DOMAIN r.links /\ new[i] = r.links[i])
    BY <2>1, AppendProperties, LenProperties
  <2> HIDE DEF new
  <2>3. q \in Rows /\ q.links = new /\ q.sources = r.sources
    BY <1>3, <2>2 DEF GoodRows, Rows, new
  <2>4. \A u \in Ids : q[u] = r[u]
    BY <1>3, <2>2 DEF GoodRows, Rows, Ids, new
  <2>5. \A i \in DOMAIN q.links : Allowed(q, q.links[i])
    BY <2>1, <2>2, <2>3, <2>4 DEF GoodRows, Allowed
  <2> QED
    BY <2>3, <2>5 DEF GoodRows
<1> QED
  BY <1>1, <1>2, <1>3 DEF GoodRow

LEMMA AfterGood ==
  ASSUME NEW d, GoodDb(d), NEW status \in Status, NEW new, GoodRows(new)
  PROVE  GoodDb(After(d, status, new))
<1> DEFINE rows == [ok |-> new, error |-> d.rows, lost |-> d.committed][status]
           committed == IF status = "ok" /\ ~d.open THEN new ELSE d.committed
<1>1. GoodRows(rows) /\ GoodRows(committed)
  <2>1. rows = new \/ rows = d.rows \/ rows = d.committed
    BY DEF Status
  <2> QED
    BY <2>1 DEF GoodDb
<1> HIDE DEF rows, committed
<1>2. rows \in Rows /\ committed \in Rows
  BY <1>1 DEF GoodRows
<1>3. After(d, status, new) =
        [d EXCEPT !.errnum = IF d.open THEN status ELSE @, !.up = @ /\ status # "lost",
                  !.rows = rows, !.committed = committed]
  BY DEF After, rows, committed
<1>4. After(d, status, new) \in Databases
  BY <1>2, <1>3 DEF GoodDb, Databases
<1>5. After(d, status, new).rows = rows /\ After(d, status, new).committed = committed
  BY <1>3 DEF GoodDb, Databases
<1> QED
  BY <1>1, <1>4, <1>5 DEF GoodDb

LEMMA OutcomesAre ==
  ASSUME NEW d, GoodDb(d)
  PROVE  Outcomes(d) \subseteq Status /\ (d.open /\ "ok" \in Outcomes(d) => d.errnum = "ok")
  BY DEF Outcomes, GoodDb, Databases, Status

\* A statement is answered, or outside of transactions it is done and not answered.
LEMMA StatementIs ==
  ASSUME NEW d, GoodDb(d), NEW new, NEW s \in Statement(d, new)
  PROVE  \/ \E status \in Outcomes(d) : s = [db |-> After(d, status, new), status |-> status]
         \/ ~d.open /\ s = [db |-> Unanswered(d, new), status |-> "lost"]
<1>1. CASE \E status \in Outcomes(d) : s = [db |-> After(d, status, new), status |-> status]
  BY <1>1
<1>2. CASE \E status \in IF d.up /\ ~d.open THEN Outcomes(d) \cap {"lost"} ELSE {} :
             s = [db |-> Unanswered(d, new), status |-> status]
  BY <1>2
<1> QED
  BY <1>1, <1>2 DEF Statement

LEMMA UnansweredIs ==
  ASSUME NEW d, GoodDb(d), NEW new
  PROVE  /\ Unanswered(d, new).rows = new /\ Unanswered(d, new).committed = new
         /\ Unanswered(d, new).open = d.open /\ Unanswered(d, new).current = d.current
         /\ Unanswered(d, new).tries = d.tries
         /\ GoodRows(new) => GoodDb(Unanswered(d, new))
<1>1. Unanswered(d, new) =
        [d EXCEPT !.errnum = IF d.open THEN "lost" ELSE d.errnum, !.up = FALSE, !.rows = new,
                  !.committed = new]
  BY DEF Unanswered, After, GoodDb, Databases
<1> DEFINE e == Unanswered(d, new)
<1> HIDE DEF e
<1>2. e.rows = new /\ e.committed = new /\ e.open = d.open /\ e.current = d.current
      /\ e.tries = d.tries
  BY <1>1 DEF GoodDb, Databases, e
<1>3. new \in Rows => e \in Databases
  BY <1>1 DEF GoodDb, Databases, Status, e
<1>4. GoodRows(new) => GoodDb(e)
  BY <1>2, <1>3 DEF GoodDb, GoodRows
<1> QED
  BY <1>2, <1>4 DEF e

LEMMA StatementGood ==
  ASSUME NEW d, GoodDb(d), NEW new, GoodRows(new), NEW s \in Statement(d, new)
  PROVE  GoodResult(s)
<1>1. CASE \E status \in Outcomes(d) : s = [db |-> After(d, status, new), status |-> status]
  <2>1. PICK status \in Status : s = [db |-> After(d, status, new), status |-> status]
    BY <1>1, OutcomesAre
  <2> QED
    BY <2>1, AfterGood DEF GoodResult
<1>2. CASE s = [db |-> Unanswered(d, new), status |-> "lost"]
  BY <1>2, UnansweredIs DEF GoodResult, Status
<1> QED
  BY <1>1, <1>2, StatementIs

LEMMA SelectGood ==
  ASSUME NEW d, GoodDb(d), NEW s \in Select(d)
  PROVE  GoodResult(s)
  BY StatementGood DEF Select, GoodDb

LEMMA InsertGood ==
  ASSUME NEW d, GoodDb(d), NEW t, NEW row, GoodRow(t, row), NEW s \in Insert(d, t, row)
  PROVE  GoodResult(s)
<1>1. CASE t = "links" => Allowed(d.rows, row)
  BY <1>1, AppendGood, StatementGood DEF Insert, GoodDb
<1>2. CASE ~(t = "links" => Allowed(d.rows, row))
  <2>1. PICK status \in Status : s = [db |-> After(d, status, d.rows), status |-> status]
    BY <1>2 DEF Insert, Outcomes, GoodDb, Databases, Status
  <2> QED
    BY <2>1, AfterGood DEF GoodDb, GoodResult
<1> QED
  BY <1>1, <1>2

\* Of get_insert_last_id and insert_db.
GoodId(s) == GoodDb(s.db) /\ s.id \in Nat

LEMMA LastIdGood ==
  ASSUME NEW s, GoodResult(s), NEW t, NEW row, GoodRow(t, row), NEW r \in LastId(s, t)
  PROVE  GoodId(r) /\ r.status \in Status
<1>1. CASE s.status = "ok" /\ t # "links"
  <2>1. PICK q \in Select(s.db) :
          r = [db |-> q.db, status |-> q.status,
               id |-> IF q.status = "ok" THEN Len(q.db.rows[t]) ELSE 0]
    BY <1>1 DEF LastId
  <2>2. GoodResult(q)
    BY <2>1, SelectGood DEF GoodResult
  <2>3. q.db.rows[t] \in Seq(Names) \/ q.db.rows[t] \in Seq(SourceRows)
    BY <1>1, <2>2 DEF GoodResult, GoodDb, GoodRows, Rows, GoodRow
  <2>4. Len(q.db.rows[t]) \in Nat
    BY <2>3, LenProperties
  <2> QED
    BY <2>1, <2>2, <2>4 DEF GoodResult, GoodId
<1>2. CASE ~(s.status = "ok" /\ t # "links")
  BY <1>2 DEF LastId, GoodResult, GoodId
<1> QED
  BY <1>1, <1>2

LEMMA TryGood ==
  ASSUME NEW d, GoodDb(d), NEW t, NEW row, GoodRow(t, row), NEW r \in Try(d, t, row)
  PROVE  GoodId(r) /\ r.status \in Status \cup {"again"}
<1>1. PICK s \in Insert(d, t, row) :
        r \in IF s.status = "lost"
              THEN {[db |-> s.db, status |-> "lost", id |-> 0],
                    [db |-> Reconnected(s.db), status |-> "again", id |-> 0]}
              ELSE LastId(s, t)
  BY DEF Try
<1>2. GoodResult(s)
  BY InsertGood
<1>3. GoodDb(Reconnected(s.db))
  BY <1>2 DEF GoodResult, GoodDb, Databases, Reconnected
<1>4. CASE s.status = "lost"
  BY <1>1, <1>2, <1>3, <1>4 DEF GoodResult, GoodId, Status
<1>5. CASE s.status # "lost"
  BY <1>1, <1>2, <1>5, LastIdGood
<1> QED
  BY <1>4, <1>5

LEMMA SettledGood ==
  ASSUME NEW d, GoodDb(d), NEW t, NEW row, GoodRow(t, row), NEW r \in Try(d, t, row)
  PROVE  GoodId(Settled(r)) /\ Settled(r).status \in Status
  BY TryGood DEF Settled, GoodId, Status

LEMMA insert_dbGood ==
  ASSUME NEW d, GoodDb(d), NEW t, NEW row, GoodRow(t, row), NEW r \in insert_db(d, t, row)
  PROVE  GoodId(r) /\ r.status \in Status
<1>1. CASE d.tries
  BY <1>1, SettledGood DEF insert_db
<1>2. CASE ~d.tries
  <2>1. CASE r \in Try(d, t, row) /\ r.status # "again"
    BY <2>1, TryGood
  <2>2. ASSUME NEW s \in Try(d, t, row),
               NEW q \in Try([s.db EXCEPT !.tries = TRUE], t, row), r = Settled(q)
        PROVE  GoodId(r) /\ r.status \in Status
    <3>1. GoodDb(s.db)
      BY TryGood DEF GoodId
    <3>2. GoodDb([s.db EXCEPT !.tries = TRUE])
      BY <3>1 DEF GoodDb, Databases
    <3> QED
      BY <2>2, <3>2, SettledGood
  <2> QED
    BY <1>2, <2>1, <2>2 DEF insert_db
<1> QED
  BY <1>1, <1>2

LEMMA FindOrAddGood ==
  ASSUME NEW t, NEW row, GoodRow(t, row), GoodDb(db), NEW found \in SUBSET Nat,
         NEW r \in FindOrAdd(t, found, row)
  PROVE  GoodId(r) /\ r.status \in Status
<1>1. PICK s \in Select(db) :
        r \in IF s.status # "ok" THEN {[db |-> s.db, status |-> s.status, id |-> 0]}
              ELSE IF found = {} THEN insert_db(s.db, t, row)
              ELSE {[db |-> s.db, status |-> "ok", id |-> i] : i \in found}
  BY DEF FindOrAdd
<1>2. GoodResult(s)
  BY SelectGood
<1>3. CASE s.status = "ok" /\ found = {}
  BY <1>1, <1>2, <1>3, insert_dbGood DEF GoodResult
<1>4. CASE ~(s.status = "ok" /\ found = {})
  BY <1>1, <1>2, <1>4 DEF GoodResult, GoodId, Status
<1> QED
  BY <1>3, <1>4

LEMMA EndGood ==
  ASSUME NEW d, GoodDb(d), NEW s \in EndTransaction(d)
  PROVE  GoodResult(s)
<1>1. CASE ~d.current
  BY <1>1 DEF EndTransaction, GoodResult, Status
<1>2. CASE d.current
  <2> DEFINE Ended(kept, up) == [d EXCEPT !.open = FALSE, !.errnum = "ok", !.rows = kept,
                                          !.committed = kept, !.up = up]
  <2>1. ASSUME NEW kept, GoodRows(kept), NEW up \in BOOLEAN PROVE GoodDb(Ended(kept, up))
    BY <2>1 DEF GoodDb, GoodRows, Databases, Status
  <2> DEFINE committed == Ended(d.rows, TRUE)
             rolledBack == Ended(d.committed, TRUE)
             lost == Ended(d.committed, FALSE)
             unanswered == Ended(d.rows, FALSE)
  <2>2. \/ s = [db |-> committed, status |-> "ok"]
        \/ s = [db |-> rolledBack, status |-> "ok"]
        \/ s = [db |-> lost, status |-> "lost"]
        \/ s = [db |-> unanswered, status |-> "lost"]
    BY <1>2 DEF EndTransaction
  <2>3. GoodDb(committed) /\ GoodDb(rolledBack) /\ GoodDb(lost) /\ GoodDb(unanswered)
    <3>1. GoodRows(d.rows) /\ GoodRows(d.committed)
      BY DEF GoodDb
    <3> HIDE DEF Ended
    <3> QED
      BY <2>1, <3>1
  <2> HIDE DEF committed, rolledBack, lost, unanswered
  <2> QED
    BY <2>2, <2>3 DEF GoodResult, Status
<1> QED
  BY <1>1, <1>2 DEF GoodDb, Databases

LEMMA StartGood ==
  ASSUME NEW d, GoodDb(d), NEW s \in StartTransaction(d)
  PROVE  GoodResult(s)
<1>1. PICK e \in IF d.open THEN {q.db : q \in EndTransaction(d)} ELSE {d} :
        \E r \in Select(e) :
          s = [db |-> [r.db EXCEPT !.open = TRUE, !.current = TRUE, !.errnum = r.status],
               status |-> r.status]
  BY DEF StartTransaction
<1>2. GoodDb(e)
  BY <1>1, EndGood DEF GoodResult
<1>3. PICK r \in Select(e) :
        s = [db |-> [r.db EXCEPT !.open = TRUE, !.current = TRUE, !.errnum = r.status],
             status |-> r.status]
  BY <1>1
<1>4. GoodResult(r)
  BY <1>2, SelectGood
<1> QED
  BY <1>3, <1>4 DEF GoodResult, GoodDb, Databases

-----------------------------------------------------------------------------
(* What a thread knows of the times of its files *)

HasTags == InSong \cup {"lock"}

\* The time noted of a file is not after its last change, nor after the reading of its tags.
Dated(d) ==
  /\ \A i \in 1 .. Len(list[d]) : list[d][i].mtime <= mtime[list[d][i].path]
  /\ pc[d] \in HasTags => file(d).path \in DOMAIN Tags /\ file(d).mtime <= song[d].seen

DbInv ==
  /\ connected \in BOOLEAN /\ transaction \in Dirs \cup {Nothing} /\ cleared \subseteq Dirs
  /\ song \in [Dirs -> Songs] /\ syncs \in Nat
  /\ GoodDb(db)
  /\ \A d \in Dirs : Dated(d)

LEMMA DbInit == Init => DbInv
<1> SUFFICES ASSUME Init PROVE DbInv
  OBVIOUS
<1>1. GoodRows(NoRows)
  BY DEF NoRows, GoodRows, Rows
<1>2. GoodDb(db)
  BY <1>1 DEF Init, Connect, GoodDb, GoodRows, Databases, Status
<1>3. \A d \in Dirs : Dated(d)
  BY DEF Init, Dated, HasTags, InSong
<1> QED
  BY <1>2, <1>3 DEF Init, DbInv, Songs, NoSong

LEMMA DbDie == ASSUME DbInv, Die PROVE DbInv'
<1>1. GoodDb(db)'
  BY DEF Die, DbInv, Connect, GoodDb, GoodRows, Databases, Status
<1>2. \A d \in Dirs : Dated(d)'
  BY DEF Die, Dated, HasTags, InSong
<1> QED
  BY <1>1, <1>2 DEF Die, DbInv, Songs, NoSong

LEMMA DbServer ==
  ASSUME ThreadInv, DbInv, Start \/ InitDir \/ InitDirFails
  PROVE  DbInv'
<1>1. UNCHANGED <<transaction, cleared, song, db, list, mtime>>
  BY DEF Start, InitDir, InitDirFails, shared
<1>2. connected' \in BOOLEAN /\ syncs' \in Nat
  <2>1. CASE Start
    BY <2>1 DEF Start, DbInv
  <2>2. CASE InitDir \/ InitDirFails
    BY <2>2 DEF InitDir, InitDirFails, shared, DbInv
  <2> QED
    BY <2>1, <2>2
<1>3. ASSUME NEW d \in Dirs PROVE pc'[d] \in HasTags => pc[d] \in HasTags
  BY DEF Start, InitDir, InitDirFails, ThreadInv, ThreadTypes, HasTags, InSong
<1>4. ASSUME NEW d \in Dirs PROVE Dated(d)'
  BY <1>1, <1>3 DEF DbInv, Dated, file
<1> QED
  BY <1>1, <1>2, <1>4 DEF DbInv

LEMMA DbTouch == ASSUME ThreadInv, DbInv, NEW f \in DOMAIN Tags, Touch(f) PROVE DbInv'
<1>1. PICK now \in 1 .. MaxTime :
        (\A g \in Files : mtime[g] < now) /\ mtime' = [mtime EXCEPT ![f] = now]
  BY DEF Touch
<1>2. now \in Nat
  BY MaxTimeAssumption
<1>3. UNCHANGED <<connected, transaction, cleared, song, syncs, db, list, pc>>
  BY DEF Touch, shared
<1>4. ASSUME NEW g \in Files PROVE mtime[g] \in Nat /\ mtime'[g] \in Nat /\ mtime[g] <= mtime'[g]
  BY <1>1, <1>2 DEF ThreadInv, ThreadTypes
<1>5. ASSUME NEW d \in Dirs PROVE Dated(d)'
  <2>1. ASSUME NEW i \in 1 .. Len(list[d])
        PROVE  list[d][i].mtime <= mtime'[list[d][i].path]
    <3>1. list[d][i] \in [path : Files, mtime : Nat]
      BY ElementOfSeq DEF ThreadInv, ThreadTypes
    <3>2. list[d][i].mtime <= mtime[list[d][i].path]
      BY DEF DbInv, Dated
    <3> QED
      BY <1>4, <3>1, <3>2
  <2> QED
    BY <1>3, <2>1 DEF DbInv, Dated, file
<1> QED
  BY <1>3, <1>5 DEF DbInv

\* A step of thread d that leaves the files and the others alone.
Keeps(d) ==
  /\ UNCHANGED <<mtime, list, syncs>>
  /\ \E at : pc' = [pc EXCEPT ![d] = at] /\ (at \in HasTags => pc[d] \in HasTags)
  /\ \A e \in Dirs : song'[e].seen = song[e].seen

LEMMA KeepsDated ==
  ASSUME ThreadInv, DbInv, NEW d \in Dirs, Keeps(d), NEW e \in Dirs
  PROVE  Dated(e)'
<1>1. pc'[e] \in HasTags => pc[e] \in HasTags
  BY DEF Keeps, ThreadInv, ThreadTypes
<1> QED
  BY <1>1 DEF Keeps, DbInv, Dated, file

LEMMA DbReadDir == ASSUME ThreadInv, DbInv, NEW d \in Dirs, ReadDir(d) PROVE DbInv'
<1>1. PICK walk \in Walks[d], n \in Nat :
        /\ \A i \in 1 .. n : walk[i] \in Files
        /\ list' = [list EXCEPT ![d] =
                      [i \in 1 .. n |-> [path |-> walk[i], mtime |-> mtime[walk[i]]]]]
  <2>1. PICK walk \in Walks[d] : \E n \in 0 .. Len(walk) :
          /\ \A i \in DOMAIN walk : i <= n <=> walk[i] # Unreadable
          /\ list' = [list EXCEPT ![d] =
                        [i \in 1 .. n |-> [path |-> walk[i], mtime |-> mtime[walk[i]]]]]
    BY DEF ReadDir
  <2>2. PICK n \in 0 .. Len(walk) :
          /\ \A i \in DOMAIN walk : i <= n <=> walk[i] # Unreadable
          /\ list' = [list EXCEPT ![d] =
                        [i \in 1 .. n |-> [path |-> walk[i], mtime |-> mtime[walk[i]]]]]
    BY <2>1
  <2>3. n \in Nat /\ \A i \in 1 .. n : walk[i] \in Files
    BY <2>2, WalksAssumption
  <2> QED
    BY <2>2, <2>3
<1> DEFINE files == [i \in 1 .. n |-> [path |-> walk[i], mtime |-> mtime[walk[i]]]]
<1>2. Len(files) = n /\ \A i \in 1 .. n : files[i].mtime <= mtime[files[i].path]
  BY <1>1 DEF ThreadInv, ThreadTypes
<1>3. /\ UNCHANGED <<connected, transaction, cleared, song, syncs, db, mtime>>
      /\ pc' = [pc EXCEPT ![d] = "begin"]
  BY DEF ReadDir, Goto, server, shared
<1>4. ASSUME NEW e \in Dirs PROVE Dated(e)'
  <2>1. CASE e = d
    BY <1>1, <1>2, <1>3, <2>1 DEF Dated, ThreadInv, ThreadTypes, HasTags, InSong
  <2>2. CASE e # d
    BY <1>1, <1>3, <2>2 DEF DbInv, Dated, file, ThreadInv, ThreadTypes
  <2> QED
    BY <2>1, <2>2
<1> QED
  BY <1>3, <1>4 DEF DbInv

LEMMA DbSkip ==
  ASSUME ThreadInv, DbInv, NEW d \in Dirs, NotConnected(d) \/ SkipFile(d)
  PROVE  DbInv'
<1>1. UNCHANGED <<connected, transaction, cleared, song, syncs, db>>
  BY DEF NotConnected, SkipFile, server, shared
<1>2. Keeps(d)
  BY DEF NotConnected, SkipFile, Goto, server, Keeps, HasTags, InSong
<1> QED
  BY <1>1, <1>2, KeepsDated DEF DbInv

LEMMA DbBegin == ASSUME ThreadInv, DbInv, NEW d \in Dirs, Begin(d) PROVE DbInv'
<1>1. UNCHANGED <<connected, cleared, song, syncs>> /\ transaction' \in Dirs \cup {Nothing}
  BY DEF Begin, server, DbInv
<1>2. Keeps(d)
  BY DEF Begin, Goto, server, Keeps, HasTags, InSong
<1>3. GoodDb(db)'
  BY StartGood DEF Begin, DbInv, GoodResult
<1> QED
  BY <1>1, <1>2, <1>3, KeepsDated DEF DbInv

LEMMA DbEnd == ASSUME ThreadInv, DbInv, NEW d \in Dirs, End(d) PROVE DbInv'
<1>1. UNCHANGED <<connected, transaction, song, syncs>> /\ cleared' \subseteq Dirs
  BY DEF End, server, DbInv
<1>2. Keeps(d)
  <2>1. UNCHANGED <<mtime, list, syncs, song>> /\ pc' = [pc EXCEPT ![d] = "none"]
    BY DEF End, Goto, server
  <2>2. "none" \notin HasTags
    BY DEF HasTags, InSong
  <2> QED
    BY <2>1, <2>2 DEF Keeps
<1>3. GoodDb(db)'
  <2>1. PICK errnum \in Status : \E s \in EndTransaction([db EXCEPT !.errnum = errnum]) : db' = s.db
    BY DEF End, DbInv, GoodDb, Databases
  <2>2. GoodDb([db EXCEPT !.errnum = errnum])
    BY DEF DbInv, GoodDb, Databases
  <2> QED
    BY <2>1, <2>2, EndGood DEF GoodResult
<1> QED
  BY <1>1, <1>2, <1>3, KeepsDated DEF DbInv

\* Of the file that a thread is at.
LEMMA FileType ==
  ASSUME ThreadInv, DbInv, NEW d \in Dirs, list[d] # << >>
  PROVE  /\ file(d) \in [path : Files, mtime : Nat]
         /\ file(d).mtime <= mtime[file(d).path]
<1>1. list[d] \in Seq([path : Files, mtime : Nat])
  BY DEF ThreadInv, ThreadTypes
<1>2. 1 \in 1 .. Len(list[d]) /\ file(d) = list[d][1]
  BY <1>1, EmptySeq DEF file
<1> QED
  BY <1>1, <1>2, HeadTailProperties DEF file, DbInv, Dated

LEMMA DbReadTags == ASSUME ThreadInv, DbInv, NEW d \in Dirs, ReadTags(d) PROVE DbInv'
<1>1. UNCHANGED <<connected, transaction, cleared, syncs, db, list, mtime>>
  BY DEF ReadTags, server, shared
<1>2. /\ file(d) \in [path : Files, mtime : Nat] /\ file(d).mtime <= mtime[file(d).path]
      /\ mtime[file(d).path] \in Nat
  BY FileType DEF ReadTags, ThreadInv, ThreadTypes
<1>3. song' = [song EXCEPT ![d] = [NoSong EXCEPT !.seen = mtime[file(d).path]]]
  BY DEF ReadTags, file
<1>4. song' \in [Dirs -> Songs] /\ song'[d].seen = mtime[file(d).path]
  BY <1>2, <1>3 DEF DbInv, NoSong, Songs
<1>5. ASSUME NEW e \in Dirs PROVE Dated(e)'
  <2>1. CASE e = d
    BY <1>1, <1>2, <1>4, <2>1 DEF ReadTags, DbInv, Dated, file
  <2>2. CASE e # d
    BY <1>1, <1>3, <2>2 DEF ReadTags, Goto, DbInv, Dated, file, ThreadInv, ThreadTypes
  <2> QED
    BY <2>1, <2>2
<1> QED
  BY <1>1, <1>4, <1>5 DEF DbInv

LEMMA DbProgress == ASSUME ThreadInv, DbInv, NEW d \in Dirs, Progress(d) PROVE DbInv'
<1>1. UNCHANGED <<connected, transaction, cleared, syncs, db, mtime>>
  BY DEF Progress, server, shared
<1>2. /\ list' = [list EXCEPT ![d] = Tail(list[d])]
      /\ song' = [song EXCEPT ![d] = NoSong]
      /\ pc' = [pc EXCEPT ![d] = "loop"]
  BY DEF Progress, Goto
<1>3. list[d] \in Seq([path : Files, mtime : Nat]) /\ list[d] # << >>
  BY DEF Progress, ThreadInv, ThreadTypes, ThreadAt, Counted, WithFile
<1>4. \A i \in 1 .. Len(Tail(list[d])) :
        i + 1 \in 1 .. Len(list[d]) /\ Tail(list[d])[i] = list[d][i + 1]
  BY <1>3, HeadTailProperties
<1>5. song' \in [Dirs -> Songs]
  BY <1>2 DEF DbInv, NoSong, Songs
<1>6. ASSUME NEW e \in Dirs PROVE Dated(e)'
  <2>1. CASE e = d
    <3>1. list'[d] = Tail(list[d]) /\ pc'[d] = "loop"
      BY <1>2 DEF ThreadInv, ThreadTypes
    <3>2. \A i \in 1 .. Len(list'[d]) : list'[d][i].mtime <= mtime[list'[d][i].path]
      BY <1>4, <3>1 DEF DbInv, Dated
    <3> QED
      BY <1>1, <2>1, <3>1, <3>2 DEF Dated, HasTags, InSong
  <2>2. CASE e # d
    BY <1>1, <1>2, <2>2 DEF DbInv, Dated, file, ThreadInv, ThreadTypes
  <2> QED
    BY <2>1, <2>2
<1> QED
  BY <1>1, <1>5, <1>6 DEF DbInv

LEMMA SourceGood ==
  ASSUME ThreadInv, DbInv, NEW d \in Dirs, pc[d] \in HasTags
  PROVE  GoodRow("sources", Source(d))
<1>1. list[d] # << >>
  BY DEF ThreadInv, ThreadAt, Counted, HasTags, WithFile
<1>2. file(d) \in [path : Files, mtime : Nat] /\ file(d).mtime <= song[d].seen
  BY <1>1, FileType DEF DbInv, Dated
<1>3. song[d].seen \in Nat
  BY DEF DbInv, Songs
<1> QED
  BY <1>2, <1>3 DEF Source, GoodRow, SourceRows

LEMMA NamesGood ==
  ASSUME DbInv, NEW d \in Dirs, pc[d] \in HasTags
  PROVE  {tags(d).artist, tags(d).album, tags(d).title} \subseteq Names
  BY DEF DbInv, Dated, tags, Names

LEMMA DbSelectMtime == ASSUME ThreadInv, DbInv, NEW d \in Dirs, SelectMtime(d) PROVE DbInv'
<1>1. UNCHANGED <<transaction, cleared, syncs, song, mtime, list>>
  BY DEF SelectMtime, server
<1>2. PICK s \in Select(db) : db' = s.db /\ connected' = (connected /\ s.status # "lost")
  BY DEF SelectMtime
<1>3. GoodDb(db)' /\ connected' \in BOOLEAN
  BY <1>2, SelectGood DEF DbInv, GoodResult
<1>4. \E at : pc' = [pc EXCEPT ![d] = at]
  BY DEF SelectMtime, Goto, Return
<1>5. Keeps(d)
  BY <1>1, <1>4 DEF Keeps, SelectMtime, HasTags
<1> QED
  BY <1>1, <1>3, <1>5, KeepsDated DEF DbInv

LEMMA DbUpdate == ASSUME ThreadInv, DbInv, NEW d \in Dirs, Update(d) PROVE DbInv'
<1>1. UNCHANGED <<connected, transaction, cleared, syncs, song, mtime, list>>
  BY DEF Update, server, shared
<1>2. Keeps(d)
  BY <1>1 DEF Keeps, Update, Return, Goto, HasTags, InSong
<1>3. PICK rows \in {db.rows} \cup {[db.rows EXCEPT !.sources[i] = Source(d)] : i \in SourceIds(d)} :
        \E s \in Statement(db, rows) : db' = s.db
  BY DEF Update
<1>4. GoodRows(rows)
  <2>1. CASE rows = db.rows
    BY <2>1 DEF DbInv, GoodDb
  <2>2. ASSUME NEW i \in SourceIds(d), rows = [db.rows EXCEPT !.sources[i] = Source(d)]
        PROVE  GoodRows(rows)
    <3> DEFINE new == [db.rows.sources EXCEPT ![i] = Source(d)]
    <3>1. db.rows.sources \in Seq(SourceRows) /\ db.rows \in Rows
      BY DEF DbInv, GoodDb, GoodRows, Rows
    <3>2. Source(d) \in SourceRows /\ Source(d).mtime <= Source(d).seen
      BY SourceGood DEF Update, HasTags, InSong, GoodRow
    <3>3. i \in 1 .. Len(db.rows.sources)
      BY <3>1, LenProperties DEF SourceIds
    <3>4. /\ new \in Seq(SourceRows) /\ DOMAIN new = DOMAIN db.rows.sources
          /\ \A j \in DOMAIN new : new[j] = Source(d) \/ new[j] = db.rows.sources[j]
      BY <3>1, <3>2, <3>3, ExceptSeq, LenProperties
    <3> HIDE DEF new
    <3>5. rows \in Rows /\ rows.sources = new /\ rows.links = db.rows.links
      BY <2>2, <3>1, <3>4 DEF Rows, new
    <3>6. \A t \in Ids : DOMAIN rows[t] = DOMAIN db.rows[t]
      BY <2>2, <3>1, <3>4 DEF Rows, Ids, new
    <3>7. \A j \in DOMAIN rows.links : Allowed(rows, rows.links[j])
      BY <3>5, <3>6 DEF DbInv, GoodDb, GoodRows, Allowed
    <3>8. \A j \in DOMAIN rows.sources : rows.sources[j].mtime <= rows.sources[j].seen
      BY <3>2, <3>4, <3>5 DEF DbInv, GoodDb, GoodRows
    <3> QED
      BY <3>5, <3>7, <3>8 DEF GoodRows
  <2> QED
    BY <2>1, <2>2
<1>5. GoodDb(db)'
  BY <1>3, <1>4, StatementGood DEF DbInv, GoodResult
<1> QED
  BY <1>1, <1>2, <1>5, KeepsDated DEF DbInv

LEMMA DbContinue ==
  ASSUME ThreadInv, DbInv, NEW d \in Dirs, pc[d] \in HasTags, NEW s, GoodId(s),
         NEW t \in Ids, NEW at, Continue(d, s, t, at)
  PROVE  DbInv'
<1>1. UNCHANGED <<connected, transaction, cleared, syncs, mtime, list>> /\ GoodDb(db)'
  BY DEF Continue, server, shared, GoodId
<1>2. song' \in [Dirs -> Songs] /\ \A e \in Dirs : song'[e].seen = song[e].seen
  <2>1. CASE UNCHANGED song
    BY <2>1 DEF DbInv
  <2>2. CASE song' = [song EXCEPT ![d][t] = s.id]
    <3> DEFINE new == [song[d] EXCEPT ![t] = s.id]
    <3>1. new \in Songs /\ new.seen = song[d].seen
      BY DEF DbInv, Songs, GoodId, Ids
    <3>2. song' = [song EXCEPT ![d] = new]
      BY <2>2
    <3> HIDE DEF new
    <3> QED
      BY <3>1, <3>2 DEF DbInv
  <2> QED
    BY <2>1, <2>2 DEF Continue
<1>3. Keeps(d)
  BY <1>1, <1>2 DEF Keeps, Continue, Return, Goto
<1> QED
  BY <1>1, <1>2, <1>3, KeepsDated DEF DbInv

\* The rows that a search finds are numbered.
LEMMA FoundAreIds ==
  ASSUME DbInv, NEW d \in Dirs
  PROVE  /\ DOMAIN db.rows.artists \subseteq Nat /\ DOMAIN db.rows.albums \subseteq Nat
         /\ \A l \in Range(db.rows.links) : l.songs \in Nat
<1>1. /\ db.rows.artists \in Seq(Names) /\ db.rows.albums \in Seq(Names)
      /\ db.rows.links \in Seq(LinkRows)
  BY DEF DbInv, GoodDb, GoodRows, Rows
<1>2. \A i \in DOMAIN db.rows.links : db.rows.links[i] \in LinkRows
  BY <1>1, ElementOfSeq, LenProperties
<1> QED
  BY <1>1, <1>2, LenProperties DEF Range, LinkRows

LEMMA DbFind ==
  ASSUME ThreadInv, DbInv, NEW d \in Dirs,
         AddSource(d) \/ FindArtist(d) \/ FindAlbum(d) \/ FindSong(d)
  PROVE  DbInv'
<1>1. CASE AddSource(d)
  <2>1. pc[d] \in HasTags
    BY <1>1 DEF AddSource, HasTags, InSong
  <2>2. PICK s \in insert_db(db, "sources", Source(d)) : Continue(d, s, "sources", "artist")
    BY <1>1 DEF AddSource
  <2> QED
    BY <2>1, <2>2, SourceGood, insert_dbGood, DbContinue DEF DbInv, Ids
<1>2. CASE FindArtist(d)
  <2> DEFINE found == {i \in DOMAIN db.rows.artists : db.rows.artists[i] = tags(d).artist}
  <2>1. pc[d] \in HasTags
    BY <1>2 DEF FindArtist, HasTags, InSong
  <2>2. PICK s \in FindOrAdd("artists", found, tags(d).artist) : Continue(d, s, "artists", "album")
    BY <1>2 DEF FindArtist
  <2>3. found \in SUBSET Nat /\ GoodRow("artists", tags(d).artist)
    BY <2>1, FoundAreIds, NamesGood DEF GoodRow
  <2> QED
    BY <2>1, <2>2, <2>3, FindOrAddGood, DbContinue DEF DbInv, Ids
<1>3. CASE FindAlbum(d)
  <2> DEFINE found == {i \in DOMAIN db.rows.albums : db.rows.albums[i] = tags(d).album}
  <2>1. pc[d] \in HasTags
    BY <1>3 DEF FindAlbum, HasTags, InSong
  <2>2. PICK s \in FindOrAdd("albums", found, tags(d).album) : Continue(d, s, "albums", "song")
    BY <1>3 DEF FindAlbum
  <2>3. found \in SUBSET Nat /\ GoodRow("albums", tags(d).album)
    BY <2>1, FoundAreIds, NamesGood DEF GoodRow
  <2> QED
    BY <2>1, <2>2, <2>3, FindOrAddGood, DbContinue DEF DbInv, Ids
<1>4. CASE FindSong(d)
  <2> DEFINE found == {l.songs : l \in {k \in Range(db.rows.links) :
                         /\ k.artists = song[d].artists /\ k.albums = song[d].albums
                         /\ db.rows.songs[k.songs] = tags(d).title}}
  <2>1. pc[d] \in HasTags
    BY <1>4 DEF FindSong, HasTags, InSong
  <2>2. PICK s \in FindOrAdd("songs", found, tags(d).title) : Continue(d, s, "songs", "link")
    BY <1>4 DEF FindSong
  <2>3. found \in SUBSET Nat /\ GoodRow("songs", tags(d).title)
    BY <2>1, FoundAreIds, NamesGood DEF GoodRow
  <2> QED
    BY <2>1, <2>2, <2>3, FindOrAddGood, DbContinue DEF DbInv, Ids
<1> QED
  BY <1>1, <1>2, <1>3, <1>4

LEMMA DbAddLink == ASSUME ThreadInv, DbInv, NEW d \in Dirs, AddLink(d) PROVE DbInv'
<1> DEFINE link == [artists |-> song[d].artists, albums |-> song[d].albums,
                    songs |-> song[d].songs, sources |-> song[d].sources]
<1>1. UNCHANGED <<connected, transaction, cleared, syncs, song, mtime, list>>
  BY DEF AddLink, server, shared
<1>2. Keeps(d)
  BY <1>1 DEF Keeps, AddLink, Return, Goto, HasTags, InSong
<1>3. GoodRow("links", link)
  BY DEF GoodRow, LinkRows, DbInv, Songs
<1>4. GoodDb(db)'
  <2>1. CASE UNCHANGED db
    BY <2>1 DEF DbInv
  <2>2. ASSUME NEW s \in insert_db(db, "links", link), db' = s.db PROVE GoodDb(db)'
    BY <1>3, <2>2, insert_dbGood DEF DbInv, GoodId
  <2> QED
    BY <2>1, <2>2 DEF AddLink
<1> QED
  BY <1>1, <1>2, <1>4, KeepsDated DEF DbInv

LEMMA DbNext == ThreadInv /\ DbInv /\ [Next]_vars => DbInv'
<1>1. ASSUME ThreadInv, DbInv, UNCHANGED vars PROVE DbInv'
  BY <1>1 DEF vars, server, shared, DbInv, Dated, file
<1>2. ASSUME ThreadInv, DbInv, NEW d \in Dirs, Thread(d) PROVE DbInv'
  BY <1>2, DbReadDir, DbDie, DbSkip, DbBegin, DbEnd, DbReadTags, DbProgress, DbSelectMtime,
     DbUpdate, DbFind, DbAddLink
  DEF Thread, ReadDirFalls
<1>3. ASSUME ThreadInv, DbInv, Next PROVE DbInv'
  BY <1>2, <1>3, DbServer, DbTouch, DbDie DEF Next, Stop
<1> QED
  BY <1>1, <1>3

LEMMA DbInvariant == Spec => []DbInv
  BY ThreadsInvariant, DbInit, DbNext, PTL DEF Spec

-----------------------------------------------------------------------------

\* The variables have their types, and no link points to a row that is not there.
THEOREM TypeCorrect == Spec => []TypeOK
<1>1. ThreadInv /\ DbInv => TypeOK
  BY DEF ThreadInv, ThreadTypes, DbInv, GoodDb, GoodRows, TypeOK, Places, Listed, WithFile, InSong
<1> QED
  BY <1>1, ThreadsInvariant, DbInvariant, PTL

\* A row is never newer than what was read of its file, so that a file that changes while
\* it is synced is found changed at the next sync.
THEOREM RowsAreNotStale == Spec => []NotStale
<1>1. DbInv => NotStale
  BY DEF DbInv, GoodDb, GoodRows, NotStale
<1> QED
  BY <1>1, DbInvariant, PTL

-----------------------------------------------------------------------------
(* One row for each: what is committed is below what the statements see, so *)
(* that a search that finds nothing stays right when rows are rolled back   *)
(* between it and the insert.                                               *)

\* A song with the artist and the album of `link' and the title of its song is its song.
OneSong(r, link) ==
  link.songs \in DOMAIN r.songs =>
    \A l \in Range(r.links) :
      l.artists = link.artists /\ l.albums = link.albums /\ r.songs[l.songs] = r.songs[link.songs]
      => l.songs = link.songs

OneSongs(r) == \A k \in Range(r.links) : OneSong(r, k)

\* The rows c come first in r, where a source may have other times.
Within(c, r) ==
  /\ \A t \in {"artists", "albums", "songs", "links"} :
       \A i \in DOMAIN c[t] : i \in DOMAIN r[t] /\ c[t][i] = r[t][i]
  /\ \A i \in DOMAIN c.sources : i \in DOMAIN r.sources /\ c.sources[i].path = r.sources[i].path

\* No row has yet what a search for `row' looks for.
Unseen(r, t, row) ==
  /\ t \in {"artists", "albums"} => row \notin Range(r[t])
  /\ t = "sources" => \A i \in DOMAIN r.sources : r.sources[i].path # row.path
  /\ t = "links" => OneSong(r, row)

Added(r, t, row) == [r EXCEPT ![t] = Append(@, row)]

Tables == {"artists", "albums", "songs", "sources", "links"}

LEMMA AddedRows ==
  ASSUME NEW r, GoodRows(r), NEW t, NEW row, GoodRow(t, row)
  PROVE  /\ t \in Tables /\ \A u \in Tables \ {t} : Added(r, t, row)[u] = r[u]
         /\ Len(Added(r, t, row)[t]) = Len(r[t]) + 1 /\ Len(r[t]) \in Nat
         /\ DOMAIN Added(r, t, row)[t] = DOMAIN r[t] \cup {Len(r[t]) + 1}
         /\ DOMAIN r[t] = 1 .. Len(r[t])
         /\ Added(r, t, row)[t][Len(r[t]) + 1] = row
         /\ \A i \in DOMAIN r[t] : Added(r, t, row)[t][i] = r[t][i]
<1>1. t \in Tables /\ r \in Rows
  BY DEF GoodRow, Tables, GoodRows
<1>2. \E S : r[t] \in Seq(S) /\ row \in S
  <2>1. CASE t \in {"artists", "albums", "songs"}
    BY <1>1, <2>1 DEF GoodRow, Rows
  <2>2. CASE t = "sources"
    BY <1>1, <2>2 DEF GoodRow, Rows
  <2>3. CASE t = "links"
    BY <1>1, <2>3 DEF GoodRow, Rows
  <2> QED
    BY <1>1, <2>1, <2>2, <2>3 DEF Tables
<1>3. PICK S : r[t] \in Seq(S) /\ row \in S
  BY <1>2
<1> DEFINE new == Append(r[t], row)
<1>4. /\ Len(new) = Len(r[t]) + 1 /\ Len(r[t]) \in Nat
      /\ new \in Seq(S) /\ DOMAIN new = 1 .. Len(new) /\ DOMAIN r[t] = 1 .. Len(r[t])
      /\ new[Len(r[t]) + 1] = row
      /\ \A i \in 1 .. Len(r[t]) : new[i] = r[t][i]
  BY <1>3, AppendProperties, LenProperties
<1>5. 1 .. Len(new) = (1 .. Len(r[t])) \cup {Len(r[t]) + 1}
  BY <1>4
<1> HIDE DEF new
<1>6. Added(r, t, row) = [r EXCEPT ![t] = new]
  BY DEF Added, new
<1>7. Added(r, t, row)[t] = new /\ \A u \in Tables \ {t} : Added(r, t, row)[u] = r[u]
  BY <1>1, <1>6 DEF Rows, Tables
<1> QED
  BY <1>1, <1>4, <1>5, <1>7

LEMMA WithinItself == ASSUME NEW r PROVE Within(r, r)
  BY DEF Within

LEMMA WithinAdded ==
  ASSUME NEW r, GoodRows(r), NEW t, NEW row, GoodRow(t, row), NEW c, Within(c, r)
  PROVE  Within(c, Added(r, t, row))
<1>1. \A u \in Tables : \A i \in DOMAIN r[u] :
        i \in DOMAIN Added(r, t, row)[u] /\ Added(r, t, row)[u][i] = r[u][i]
  BY AddedRows
<1>2. Added(r, t, row).sources = Added(r, t, row)["sources"] /\ r.sources = r["sources"]
  OBVIOUS
<1> QED
  BY <1>1, <1>2 DEF Within, Tables

LEMMA OneSongBelow ==
  ASSUME NEW r, NEW c, GoodRows(c), Within(c, r), NEW link, OneSong(r, link)
  PROVE  OneSong(c, link)
<1> SUFFICES ASSUME link.songs \in DOMAIN c.songs, NEW l \in Range(c.links),
                    l.artists = link.artists, l.albums = link.albums,
                    c.songs[l.songs] = c.songs[link.songs]
             PROVE  l.songs = link.songs
  BY DEF OneSong
<1>1. PICK i \in DOMAIN c.links : l = c.links[i]
  BY DEF Range
<1>2. l.songs \in DOMAIN c.songs
  BY <1>1 DEF GoodRows, Allowed, Ids
<1>3. l \in Range(r.links)
  BY <1>1 DEF Within, Range
<1>4. /\ \A j \in DOMAIN c.songs : j \in DOMAIN r.songs /\ c.songs[j] = r.songs[j]
  BY DEF Within
<1> QED
  BY <1>2, <1>3, <1>4 DEF OneSong

LEMMA UnseenBelow ==
  ASSUME NEW r, NEW c, GoodRows(c), Within(c, r), NEW t, NEW row, Unseen(r, t, row)
  PROVE  Unseen(c, t, row)
<1>1. t \in {"artists", "albums"} => Range(c[t]) \subseteq Range(r[t])
  BY DEF Within, Range
<1>2. t = "sources" => \A i \in DOMAIN c.sources : c.sources[i].path # row.path
  BY DEF Within, Unseen
<1> QED
  BY <1>1, <1>2, OneSongBelow DEF Unseen

LEMMA OneSongsAdded ==
  ASSUME NEW r, GoodRows(r), NEW t, NEW row, GoodRow(t, row), OneSongs(r),
         t = "links" => OneSong(r, row) /\ Allowed(r, row)
  PROVE  OneSongs(Added(r, t, row)) /\ (t = "links" => OneSong(Added(r, t, row), row))
<1> DEFINE q == Added(r, t, row)
           n == Len(r[t]) + 1
<1>0. q.songs = q["songs"] /\ q.links = q["links"]
  OBVIOUS
<1>1. /\ t \in Tables /\ \A u \in Tables \ {t} : q[u] = r[u]
      /\ DOMAIN q[t] = DOMAIN r[t] \cup {n} /\ n \notin DOMAIN r[t]
      /\ q[t][n] = row
      /\ \A i \in DOMAIN r[t] : q[t][i] = r[t][i]
  BY AddedRows
<1> HIDE DEF q, n
<1>2. \A l \in Range(r.links) : l.songs \in DOMAIN r.songs
  BY DEF Range, GoodRows, Allowed, Ids
<1>3. CASE t # "links"
  <2>1. q.links = r.links
    BY <1>0, <1>1, <1>3 DEF Tables
  <2>2. \A i \in DOMAIN r.songs : q.songs[i] = r.songs[i]
    BY <1>0, <1>1 DEF Tables
  <2> QED
    BY <1>2, <1>3, <2>1, <2>2 DEF OneSongs, OneSong, q
<1>4. CASE t = "links"
  <2>1. q.songs = r.songs /\ \A l \in Range(q.links) : l = row \/ l \in Range(r.links)
    BY <1>0, <1>1, <1>4 DEF Tables, Range
  <2>2. OneSong(r, row) /\ row.songs \in DOMAIN r.songs
    BY <1>4 DEF Allowed, Ids
  <2>3. \A k \in Range(q.links) : OneSong(q, k)
    BY <1>2, <2>1, <2>2 DEF OneSongs, OneSong
  <2>4. OneSong(q, row)
    BY <1>2, <2>1, <2>2 DEF OneSongs, OneSong
  <2> QED
    BY <2>3, <2>4 DEF OneSongs, q
<1> QED
  BY <1>3, <1>4

-----------------------------------------------------------------------------
(* What is there once *)

Uniques == {"artists", "albums", "sources"}

\* What has one row each.
Column(r, u) == IF u = "sources" THEN Paths(r.sources) ELSE r[u]

LEMMA ColumnIs ==
  ASSUME NEW r, GoodRows(r), NEW u \in Uniques
  PROVE  /\ DOMAIN Column(r, u) = 1 .. Len(r[u]) /\ Len(r[u]) \in Nat
         /\ Len(Column(r, u)) = Len(r[u])
<1>1. r.artists \in Seq(Names) /\ r.albums \in Seq(Names) /\ r.sources \in Seq(SourceRows)
  BY DEF GoodRows, Rows
<1>2. CASE u # "sources"
  BY <1>1, <1>2, LenProperties DEF Uniques, Column
<1>3. CASE u = "sources"
  <2>1. DOMAIN r.sources = 1 .. Len(r.sources) /\ Len(r.sources) \in Nat
    BY <1>1, LenProperties
  <2>2. Paths(r.sources) = [i \in 1 .. Len(r.sources) |-> r.sources[i].path]
    BY <2>1 DEF Paths
  <2> DEFINE n == Len(r.sources)
             paths == [i \in 1 .. n |-> r.sources[i].path]
  <2>3. n \in Nat /\ DOMAIN paths = 1 .. n /\ Len(paths) = n
    BY <2>1
  <2> HIDE DEF n, paths
  <2>4. Column(r, u) = paths /\ Len(r[u]) = n
    BY <1>3, <2>2 DEF Column, n, paths
  <2> QED
    BY <2>3, <2>4
<1> QED
  BY <1>2, <1>3

LEMMA ColumnAdded ==
  ASSUME NEW r, GoodRows(r), NEW t, NEW row, GoodRow(t, row), NEW u \in Uniques
  PROVE  LET old == Column(r, u)
             new == Column(Added(r, t, row), u)
             n == Len(r[u]) + 1 IN
         /\ t # u => new = old
         /\ t = u => /\ DOMAIN new = 1 .. n /\ Len(new) = n
                     /\ \A i \in 1 .. Len(r[u]) : new[i] = old[i]
                     /\ Unseen(r, t, row) => \A i \in 1 .. Len(r[u]) : old[i] # new[n]
<1> DEFINE q == Added(r, t, row)
           m == Len(r[u])
<1>0. q.sources = q["sources"] /\ r.sources = r["sources"]
  OBVIOUS
<1>1. /\ t \in Tables /\ \A v \in Tables \ {t} : q[v] = r[v]
      /\ t = u => /\ Len(q[u]) = m + 1 /\ m \in Nat
                  /\ DOMAIN q[u] = 1 .. m + 1 /\ DOMAIN r[u] = 1 .. m
                  /\ q[u][m + 1] = row
                  /\ \A i \in 1 .. m : q[u][i] = r[u][i]
  <2>1. /\ t \in Tables /\ \A v \in Tables \ {t} : q[v] = r[v]
        /\ Len(q[t]) = Len(r[t]) + 1 /\ Len(r[t]) \in Nat
        /\ DOMAIN q[t] = DOMAIN r[t] \cup {Len(r[t]) + 1}
        /\ DOMAIN r[t] = 1 .. Len(r[t])
        /\ q[t][Len(r[t]) + 1] = row
        /\ \A i \in DOMAIN r[t] : q[t][i] = r[t][i]
    BY AddedRows
  <2>2. (1 .. Len(r[t])) \cup {Len(r[t]) + 1} = 1 .. Len(r[t]) + 1
    BY <2>1
  <2> QED
    BY <2>1, <2>2
<1> HIDE DEF q, m
<1>2. CASE t # u
  <2>1. q[u] = r[u]
    BY <1>1, <1>2 DEF Uniques, Tables
  <2> QED
    BY <1>0, <1>2, <2>1 DEF Column, q
<1>3. CASE t = u /\ u # "sources"
  <2>1. Column(q, u) = q[u] /\ Column(r, u) = r[u]
    BY <1>3 DEF Column
  <2>2. Unseen(r, t, row) => \A i \in 1 .. m : r[u][i] # row
    BY <1>1, <1>3 DEF Unseen, Uniques, Range
  <2> QED
    BY <1>1, <1>3, <2>1, <2>2 DEF q, m
<1>4. CASE t = u /\ u = "sources"
  <2> DEFINE paths == [i \in 1 .. m + 1 |-> q[u][i].path]
  <2>1. m + 1 \in Nat /\ DOMAIN paths = 1 .. m + 1 /\ Len(paths) = m + 1
    BY <1>1, <1>4
  <2>2. Column(q, u) = paths /\ Column(r, u) = [i \in 1 .. m |-> r[u][i].path]
    BY <1>0, <1>1, <1>4 DEF Column, Paths
  <2>3. /\ \A i \in 1 .. m : paths[i] = r[u][i].path
        /\ paths[m + 1] = row.path
    BY <1>1, <1>4
  <2>4. Unseen(r, t, row) => \A i \in 1 .. m : r[u][i].path # row.path
    BY <1>0, <1>1, <1>4 DEF Unseen
  <2> HIDE DEF paths
  <2> QED
    BY <1>1, <1>4, <2>1, <2>2, <2>3, <2>4 DEF q, m
<1> QED
  BY <1>2, <1>3, <1>4

\* No row of r is a repetition that is not one in o, but the last one if `last' says so.
NoneMore(o, r, last) ==
  \A u \in Uniques :
    Repeated(Column(r, u)) \subseteq
      Repeated(Column(o, u)) \cup IF last THEN {Len(Column(r, u))} ELSE {}

LEMMA AddedRepeats ==
  ASSUME NEW r, GoodRows(r), NEW t, NEW row, GoodRow(t, row),
         NEW o, NoneMore(o, r, FALSE)
  PROVE  /\ NoneMore(o, Added(r, t, row), TRUE)
         /\ Unseen(r, t, row) => NoneMore(o, Added(r, t, row), FALSE)
<1> SUFFICES ASSUME NEW u \in Uniques
             PROVE  LET new == Column(Added(r, t, row), u) IN
                    /\ Repeated(new) \subseteq Repeated(Column(o, u)) \cup {Len(new)}
                    /\ Unseen(r, t, row) => Repeated(new) \subseteq Repeated(Column(o, u))
  BY DEF NoneMore
<1> DEFINE new == Column(Added(r, t, row), u)
           old == Column(r, u)
           m == Len(r[u])
<1>1. DOMAIN old = 1 .. m /\ m \in Nat
  BY ColumnIs
<1>2. /\ t # u => new = old
      /\ t = u => /\ DOMAIN new = 1 .. m + 1 /\ Len(new) = m + 1
                  /\ \A i \in 1 .. m : new[i] = old[i]
                  /\ Unseen(r, t, row) => \A i \in 1 .. m : old[i] # new[m + 1]
  BY ColumnAdded
<1>3. Repeated(old) \subseteq Repeated(Column(o, u))
  BY DEF NoneMore
<1> HIDE DEF new, old, m
<1>4. ASSUME t = u, NEW i \in Repeated(new)
      PROVE  i \in Repeated(old) \/ (i = m + 1 /\ ~Unseen(r, t, row))
  <2>1. PICK j \in 1 .. i - 1 : i \in 1 .. m + 1 /\ new[j] = new[i]
    BY <1>2, <1>4 DEF Repeated
  <2>2. j \in 1 .. m /\ new[j] = old[j]
    BY <1>1, <1>2, <1>4, <2>1
  <2>3. CASE i = m + 1
    BY <1>2, <1>4, <2>1, <2>2, <2>3
  <2>4. CASE i # m + 1
    <3>4. i \in 1 .. m
      BY <1>1, <2>1, <2>4
    <3>5. new[i] = old[i]
      BY <1>2, <1>4, <3>4
    <3>1. i \in 1 .. m /\ old[j] = old[i]
      BY <2>1, <2>2, <3>4, <3>5
    <3>2. \E k \in 1 .. i - 1 : old[k] = old[i]
      BY <2>1, <3>1
    <3>3. i \in DOMAIN old
      BY <1>1, <3>1
    <3> QED
      BY <3>2, <3>3 DEF Repeated
  <2> QED
    BY <2>3, <2>4
<1> QED
  BY <1>2, <1>3, <1>4 DEF new

\* The rows that come first in others have no more repetitions than those.
LEMMA WithinRepeats ==
  ASSUME NEW o, NEW c, GoodRows(c), Within(c, o)
  PROVE  NoneMore(o, c, FALSE)
<1> SUFFICES ASSUME NEW u \in Uniques, NEW i \in Repeated(Column(c, u))
             PROVE  i \in Repeated(Column(o, u))
  BY DEF NoneMore
<1>1. DOMAIN Column(c, u) = 1 .. Len(c[u]) /\ Len(c[u]) \in Nat
  BY ColumnIs
<1>2. \A j \in DOMAIN Column(c, u) :
        j \in DOMAIN Column(o, u) /\ Column(o, u)[j] = Column(c, u)[j]
  <2>1. CASE u # "sources"
    BY <2>1 DEF Uniques, Column, Within
  <2>2. CASE u = "sources"
    BY <2>2 DEF Column, Paths, Within
  <2> QED
    BY <2>1, <2>2
<1>3. PICK j \in 1 .. i - 1 : i \in DOMAIN Column(c, u) /\ Column(c, u)[j] = Column(c, u)[i]
  BY DEF Repeated
<1>4. j \in DOMAIN Column(c, u)
  BY <1>1, <1>3
<1> QED
  BY <1>2, <1>3, <1>4 DEF Repeated

-----------------------------------------------------------------------------
(* What the operators on the database make of its rows *)

Olds(d) == {d.rows, d.committed}

\* Nothing is inserted; what was not committed may be gone.
Rolled(d, e) ==
  e.rows \in Olds(d) /\ e.committed \in Olds(d) /\ Within(e.committed, e.rows)

\* A row may be inserted, before or after that.
Grown(S, t, row) == S \cup {Added(r, t, row) : r \in {q \in S : t = "links" => Allowed(q, row)}}

Grew(d, e, t, row) == Olds(e) \subseteq Grown(Olds(d), t, row) /\ Within(e.committed, e.rows)

\* Outside of transactions it may be inserted twice, once in the life of the process.
Inserted(d, e, t, row) ==
  \/ Grew(d, e, t, row)
  \/ /\ ~d.open /\ ~d.tries /\ e.tries
     /\ Olds(e) \subseteq Grown(Grown(Olds(d), t, row), t, row)
     /\ Within(e.committed, e.rows)

\* The database, with the committed rows below the others.
Layered(d) == GoodDb(d) /\ Within(d.committed, d.rows)

LEMMA GrownGrows ==
  ASSUME NEW S, NEW T, NEW t, NEW row, S \subseteq T
  PROVE  S \subseteq Grown(S, t, row) /\ Grown(S, t, row) \subseteq Grown(T, t, row)
  BY DEF Grown

LEMMA AfterRows ==
  ASSUME NEW d, GoodDb(d), NEW status \in Status, NEW new
  PROVE  LET e == After(d, status, new) IN
         /\ e.rows = IF status = "ok" THEN new ELSE IF status = "error" THEN d.rows ELSE d.committed
         /\ e.committed = IF status = "ok" /\ ~d.open THEN new ELSE d.committed
         /\ e.open = d.open /\ e.current = d.current /\ e.tries = d.tries
         /\ e.errnum = IF d.open THEN status ELSE d.errnum
<1> DEFINE rows == [ok |-> new, error |-> d.rows, lost |-> d.committed][status]
<1>1. rows = IF status = "ok" THEN new ELSE IF status = "error" THEN d.rows ELSE d.committed
  BY DEF Status
<1> HIDE DEF rows
<1>2. After(d, status, new) =
        [d EXCEPT !.errnum = IF d.open THEN status ELSE @, !.up = @ /\ status # "lost",
                  !.rows = rows,
                  !.committed = IF status = "ok" /\ ~d.open THEN new ELSE d.committed]
  BY DEF After, rows
<1> QED
  BY <1>1, <1>2 DEF GoodDb, Databases

\* The rows after a statement: as they were, or with what it changes, which is committed
\* outside of transactions even if the answer is lost.
LEMMA StatementRows ==
  ASSUME NEW d, GoodDb(d), NEW new, NEW s \in Statement(d, new)
  PROVE  /\ s.status \in Status
         /\ s.db.open = d.open /\ s.db.current = d.current /\ s.db.tries = d.tries
         /\ \/ s.db.rows \in Olds(d) /\ s.db.committed = d.committed /\ s.status # "ok"
            \/ s.db.rows = new /\ s.db.committed \in {new, d.committed}
         /\ s.status = "ok" => s.db.rows = new
         /\ d.open /\ s.db.committed # d.committed => FALSE
         /\ d.open /\ s.status # "ok" => s.db.rows \in Olds(d)
<1>1. CASE \E status \in Outcomes(d) : s = [db |-> After(d, status, new), status |-> status]
  <2>1. PICK status \in Status : s = [db |-> After(d, status, new), status |-> status]
    BY <1>1, OutcomesAre
  <2> QED
    BY <2>1, AfterRows DEF Olds
<1>2. CASE ~d.open /\ s = [db |-> Unanswered(d, new), status |-> "lost"]
  BY <1>2, UnansweredIs DEF Status
<1> QED
  BY <1>1, <1>2, StatementIs

LEMMA SelectRows ==
  ASSUME NEW d, Layered(d), NEW s \in Select(d)
  PROVE  /\ Rolled(d, s.db) /\ Layered(s.db) /\ s.status \in Status
         /\ s.db.open = d.open /\ s.db.tries = d.tries
         /\ s.status = "ok" => s.db.rows = d.rows
<1>1. s \in Statement(d, d.rows) /\ GoodDb(d)
  BY DEF Select, Layered
<1>2. /\ s.status \in Status /\ s.db.open = d.open /\ s.db.tries = d.tries
      /\ \/ s.db.rows \in Olds(d) /\ s.db.committed = d.committed
         \/ s.db.rows = d.rows /\ s.db.committed \in {d.rows, d.committed}
      /\ s.status = "ok" => s.db.rows = d.rows
  BY <1>1, StatementRows
<1>3. Rolled(d, s.db)
  BY <1>2, WithinItself DEF Rolled, Olds, Layered
<1> QED
  BY <1>2, <1>3, SelectGood DEF Layered, Rolled, GoodResult

LEMMA InsertRows ==
  ASSUME NEW d, Layered(d), NEW t, NEW row, GoodRow(t, row), NEW s \in Insert(d, t, row)
  PROVE  /\ Grew(d, s.db, t, row) /\ Layered(s.db) /\ s.status \in Status
         /\ s.db.open = d.open /\ s.db.tries = d.tries
         /\ s.status = "ok" => /\ s.db.rows = Added(d.rows, t, row)
                               /\ s.db.rows \in Grown({d.rows}, t, row)
         /\ s.status # "ok" /\ d.open => Rolled(d, s.db)
<1>0. GoodDb(d) /\ GoodDb(s.db)
  BY InsertGood DEF Layered, GoodResult
<1>1. CASE t = "links" => Allowed(d.rows, row)
  <2> DEFINE new == Added(d.rows, t, row)
  <2>1. s \in Statement(d, new)
    BY <1>1 DEF Insert, Added
  <2>2. new \in Grown({d.rows}, t, row) /\ new \in Grown(Olds(d), t, row)
    BY <1>1 DEF Grown, Olds
  <2>3. Within(d.committed, new)
    BY <1>0, WithinAdded DEF Layered, GoodDb
  <2> HIDE DEF new
  <2>4. /\ s.status \in Status /\ s.db.open = d.open /\ s.db.tries = d.tries
        /\ \/ s.db.rows \in Olds(d) /\ s.db.committed = d.committed /\ s.status # "ok"
           \/ s.db.rows = new /\ s.db.committed \in {new, d.committed}
        /\ s.status = "ok" => s.db.rows = new
        /\ d.open => s.db.committed = d.committed
        /\ d.open /\ s.status # "ok" => s.db.rows \in Olds(d)
    BY <1>0, <2>1, StatementRows
  <2>5. Within(s.db.committed, s.db.rows)
    BY <2>3, <2>4, WithinItself DEF Olds, Layered
  <2>6. Olds(s.db) \subseteq Grown(Olds(d), t, row)
    BY <2>2, <2>4, GrownGrows DEF Olds
  <2>7. s.status # "ok" /\ d.open => Rolled(d, s.db)
    BY <2>4, <2>5 DEF Rolled, Olds
  <2> QED
    BY <1>0, <2>2, <2>4, <2>5, <2>6, <2>7 DEF Grew, Layered, new
<1>2. CASE ~(t = "links" => Allowed(d.rows, row))
  <2>1. PICK status \in Status \ {"ok"} :
          s = [db |-> After(d, status, d.rows), status |-> status]
    BY <1>0, <1>2, OutcomesAre DEF Insert, Status
  <2>2. /\ s.status = status /\ s.db.rows \in Olds(d) /\ s.db.committed = d.committed
        /\ s.db.open = d.open /\ s.db.tries = d.tries
    BY <1>0, <2>1, AfterRows DEF Olds
  <2>3. Rolled(d, s.db)
    BY <2>2, WithinItself DEF Rolled, Olds, Layered
  <2>4. Grew(d, s.db, t, row)
    BY <2>3, GrownGrows DEF Rolled, Grew, Olds
  <2> QED
    BY <1>0, <2>1, <2>2, <2>3, <2>4 DEF Grew, Layered
<1> QED
  BY <1>1, <1>2

\* A rollback before or after an insert leaves it an insert.
LEMMA RolledGrew ==
  ASSUME NEW d, NEW e, NEW f, NEW t, NEW row,
         (Rolled(d, e) /\ Grew(e, f, t, row)) \/ (Grew(d, e, t, row) /\ Rolled(e, f))
  PROVE  Grew(d, f, t, row)
<1>1. CASE Rolled(d, e) /\ Grew(e, f, t, row)
  <2>1. Olds(e) \subseteq Olds(d)
    BY <1>1 DEF Rolled, Olds
  <2>2. Grown(Olds(e), t, row) \subseteq Grown(Olds(d), t, row)
    BY <2>1, GrownGrows
  <2> QED
    BY <1>1, <2>2 DEF Grew
<1>2. CASE Grew(d, e, t, row) /\ Rolled(e, f)
  BY <1>2 DEF Grew, Rolled, Olds
<1> QED
  BY <1>1, <1>2

LEMMA RolledInserted ==
  ASSUME NEW d, NEW e, NEW f, NEW t, NEW row, Rolled(d, e), e.open = d.open, e.tries = d.tries,
         Inserted(e, f, t, row)
  PROVE  Inserted(d, f, t, row)
<1>1. CASE Grew(e, f, t, row)
  BY <1>1, RolledGrew DEF Inserted
<1>2. CASE ~Grew(e, f, t, row)
  <2>1. Olds(e) \subseteq Olds(d)
    BY DEF Rolled, Olds
  <2>2. Grown(Olds(e), t, row) \subseteq Grown(Olds(d), t, row)
    BY <2>1, GrownGrows
  <2>3. Grown(Grown(Olds(e), t, row), t, row) \subseteq Grown(Grown(Olds(d), t, row), t, row)
    BY <2>2, GrownGrows
  <2> QED
    BY <1>2, <2>3 DEF Inserted
<1> QED
  BY <1>1, <1>2

\* The new row is there with its id, if the insert is said to have succeeded and not
\* that it had to be tried again.
HasId(S, s, t, row) ==
  s.status = "ok" /\ s.id # 0 /\ t # "links" =>
    /\ s.db.rows \in {Added(r, t, row) : r \in S}
    /\ s.id = Len(s.db.rows[t])

LEMMA TryRows ==
  ASSUME NEW d, Layered(d), NEW t, NEW row, GoodRow(t, row), NEW r \in Try(d, t, row)
  PROVE  /\ Grew(d, r.db, t, row) /\ Layered(r.db)
         /\ HasId(Olds(d), r, t, row)
         /\ r.db.tries = d.tries
         /\ r.status = "again" => r.id = 0 /\ (d.open => Rolled(d, r.db))
<1>1. PICK s \in Insert(d, t, row) :
        r \in IF s.status = "lost"
              THEN {[db |-> s.db, status |-> "lost", id |-> 0],
                    [db |-> Reconnected(s.db), status |-> "again", id |-> 0]}
              ELSE LastId(s, t)
  BY DEF Try
<1>2. /\ Grew(d, s.db, t, row) /\ Layered(s.db) /\ s.status \in Status
      /\ s.db.open = d.open /\ s.db.tries = d.tries
      /\ s.status = "ok" => /\ s.db.rows = Added(d.rows, t, row)
                            /\ s.db.rows \in Grown({d.rows}, t, row)
      /\ s.status # "ok" /\ d.open => Rolled(d, s.db)
  BY InsertRows
<1>3. CASE s.status = "lost"
  <2> DEFINE e == Reconnected(s.db)
  <2>1. e.rows = s.db.rows /\ e.committed = s.db.committed /\ e.tries = s.db.tries
    BY <1>2 DEF Layered, GoodDb, Databases, Reconnected
  <2>2. GoodDb(e)
    BY <1>2 DEF Layered, GoodDb, Databases, Reconnected
  <2> HIDE DEF e
  <2>3. Layered(e) /\ (d.open => Rolled(d, e)) /\ Grew(d, e, t, row)
    BY <1>2, <1>3, <2>1, <2>2 DEF Layered, Rolled, Grew, Olds
  <2> QED
    BY <1>1, <1>2, <1>3, <2>1, <2>3 DEF e, HasId
<1>4. CASE s.status = "ok" /\ t # "links"
  <2>1. PICK q \in Select(s.db) :
          r = [db |-> q.db, status |-> q.status,
               id |-> IF q.status = "ok" THEN Len(q.db.rows[t]) ELSE 0]
    BY <1>1, <1>4 DEF LastId
  <2>2. /\ Rolled(s.db, q.db) /\ Layered(q.db) /\ q.status \in Status
        /\ q.db.tries = s.db.tries
        /\ q.status = "ok" => q.db.rows = s.db.rows
    BY <1>2, <2>1, SelectRows
  <2>3. Grew(d, q.db, t, row)
    BY <1>2, <2>2, RolledGrew
  <2> QED
    BY <1>2, <1>4, <2>1, <2>2, <2>3 DEF HasId, Olds, Status
<1>5. CASE s.status = "error" \/ (s.status = "ok" /\ t = "links")
  BY <1>1, <1>2, <1>5 DEF LastId, HasId
<1> QED
  BY <1>2, <1>3, <1>4, <1>5 DEF Status

LEMMA insert_dbRows ==
  ASSUME NEW d, Layered(d), NEW t, NEW row, GoodRow(t, row), NEW r \in insert_db(d, t, row)
  PROVE  Inserted(d, r.db, t, row) /\ Layered(r.db) /\ HasId(Grown(Olds(d), t, row), r, t, row)
<1>1. ASSUME NEW e, Layered(e), NEW q \in Try(e, t, row)
      PROVE  /\ Grew(e, Settled(q).db, t, row) /\ Layered(Settled(q).db)
             /\ HasId(Olds(e), Settled(q), t, row) /\ Settled(q).db.tries = e.tries
  BY <1>1, TryRows DEF Settled, HasId
<1>4. Olds(d) \subseteq Grown(Olds(d), t, row)
  BY GrownGrows
<1>2. CASE d.tries
  BY <1>1, <1>2, <1>4 DEF insert_db, Inserted, HasId
<1>3. CASE ~d.tries
  <2>1. CASE r \in Try(d, t, row)
    BY <1>4, <2>1, TryRows DEF Inserted, HasId
  <2>2. ASSUME NEW s \in Try(d, t, row), s.status = "again",
               NEW q \in Try([s.db EXCEPT !.tries = TRUE], t, row), r = Settled(q)
        PROVE  /\ Inserted(d, r.db, t, row) /\ Layered(r.db)
               /\ HasId(Grown(Olds(d), t, row), r, t, row)
    <3> DEFINE e == [s.db EXCEPT !.tries = TRUE]
    <3>1. Grew(d, s.db, t, row) /\ Layered(s.db) /\ (d.open => Rolled(d, s.db))
      BY <2>2, TryRows
    <3>2. GoodDb(e) /\ e.rows = s.db.rows /\ e.committed = s.db.committed /\ e.tries
      BY <3>1 DEF Layered, GoodDb, Databases
    <3>3. q \in Try(e, t, row)
      BY <2>2
    <3> HIDE DEF e
    <3>4. Layered(e) /\ (d.open => Rolled(d, e)) /\ Olds(e) \subseteq Grown(Olds(d), t, row)
      BY <3>1, <3>2 DEF Layered, Rolled, Grew, Olds
    <3>5. /\ Grew(e, r.db, t, row) /\ Layered(r.db) /\ HasId(Olds(e), r, t, row)
          /\ r.db.tries
      BY <1>1, <2>2, <3>2, <3>3, <3>4
    <3>8. HasId(Grown(Olds(d), t, row), r, t, row)
      BY <3>4, <3>5 DEF HasId
    <3>6. CASE d.open
      <4>1. Grew(d, r.db, t, row)
        BY <3>4, <3>5, <3>6, RolledGrew
      <4> QED
        BY <3>5, <3>8, <4>1 DEF Inserted
    <3>7. CASE ~d.open
      <4>1. Grown(Olds(e), t, row) \subseteq Grown(Grown(Olds(d), t, row), t, row)
        BY <3>4, GrownGrows
      <4>2. Inserted(d, r.db, t, row)
        BY <1>3, <3>5, <3>7, <4>1 DEF Inserted, Grew
      <4> QED
        BY <3>5, <3>8, <4>2
    <3> QED
      BY <3>6, <3>7
  <2> QED
    BY <1>3, <2>1, <2>2 DEF insert_db
<1> QED
  BY <1>2, <1>3 DEF Layered, GoodDb, Databases

LEMMA EndRows ==
  ASSUME NEW d, Layered(d), NEW s \in EndTransaction(d)
  PROVE  Rolled(d, s.db) /\ Layered(s.db)
<1>1. CASE ~d.current
  BY <1>1 DEF EndTransaction, Rolled, Olds, Layered
<1>2. CASE d.current
  <2>1. PICK kept \in Olds(d), up \in BOOLEAN :
          s.db = [d EXCEPT !.open = FALSE, !.errnum = "ok", !.rows = kept, !.committed = kept,
                           !.up = up]
    <3> DEFINE Ended(kept, up) == [d EXCEPT !.open = FALSE, !.errnum = "ok", !.rows = kept,
                                            !.committed = kept, !.up = up]
    <3>1. \E kept \in Olds(d), up \in BOOLEAN : s.db = Ended(kept, up)
      <4>1. \/ s = [db |-> Ended(d.rows, TRUE), status |-> "ok"]
            \/ s = [db |-> Ended(d.committed, TRUE), status |-> "ok"]
            \/ s = [db |-> Ended(d.committed, FALSE), status |-> "lost"]
            \/ s = [db |-> Ended(d.rows, FALSE), status |-> "lost"]
        BY <1>2 DEF EndTransaction
      <4>2. d.rows \in Olds(d) /\ d.committed \in Olds(d) /\ TRUE \in BOOLEAN /\ FALSE \in BOOLEAN
        BY DEF Olds
      <4>3. \/ s.db = Ended(d.rows, TRUE)
            \/ s.db = Ended(d.committed, TRUE)
            \/ s.db = Ended(d.committed, FALSE)
            \/ s.db = Ended(d.rows, FALSE)
        BY <4>1
      <4> HIDE DEF Ended
      <4> QED
        BY <4>2, <4>3, Zenon
    <3> QED
      BY <3>1
  <2>2. s.db.rows = kept /\ s.db.committed = kept
    BY <2>1 DEF Layered, GoodDb, Databases
  <2> QED
    BY <2>2, WithinItself, EndGood DEF Rolled, Layered, GoodResult
<1> QED
  BY <1>1, <1>2

LEMMA StartRows ==
  ASSUME NEW d, Layered(d), NEW s \in StartTransaction(d)
  PROVE  Rolled(d, s.db) /\ Layered(s.db)
<1>1. PICK e \in IF d.open THEN {q.db : q \in EndTransaction(d)} ELSE {d} :
        \E r \in Select(e) :
          s = [db |-> [r.db EXCEPT !.open = TRUE, !.current = TRUE, !.errnum = r.status],
               status |-> r.status]
  BY DEF StartTransaction
<1>2. Rolled(d, e) /\ Layered(e)
  BY <1>1, EndRows DEF Rolled, Olds, Layered
<1>3. PICK r \in Select(e) :
        s = [db |-> [r.db EXCEPT !.open = TRUE, !.current = TRUE, !.errnum = r.status],
             status |-> r.status]
  BY <1>1
<1>4. Rolled(e, r.db) /\ Layered(r.db)
  BY <1>2, SelectRows
<1>5. s.db.rows = r.db.rows /\ s.db.committed = r.db.committed
  BY <1>3, <1>4 DEF Layered, GoodDb, Databases
<1> QED
  BY <1>2, <1>4, <1>5, StartGood DEF Rolled, Olds, Layered, GoodResult

-----------------------------------------------------------------------------
(* The threads keep a row for each *)

\* The file that is going to be inserted is not there.
Fresh(d) ==
  pc[d] = "source" => \A i \in DOMAIN db.rows.sources : db.rows.sources[i].path # file(d).path

\* The song that is going to be linked is the one of its album, if it is still there.
SongIsOne(d) == pc[d] = "link" => OneSong(db.rows, song[d])

OneDb(d) == Within(d.committed, d.rows) /\ OneSongs(d.rows)

RowsInv == OneDb(db) /\ \A d \in Dirs : Fresh(d) /\ SongIsOne(d)

\* What OneRowEach says of a step.
AddsNone ==
  /\ \A t \in {"artists", "albums"} : NoneAdded(db.rows[t], db'.rows[t])
  /\ NoneAdded(Paths(db.rows.sources), Paths(db'.rows.sources))

\* What it says of the databases before and after it.
NoneTwice(d, e) == NoneMore(d.rows, e.rows, ~d.open /\ ~d.tries /\ e.tries)

LEMMA AddsNoneIs == NoneTwice(db, db') => AddsNone
  BY DEF NoneTwice, NoneMore, AddsNone, NoneAdded, InsertsAgain, Uniques, Column

LEMMA OneSongsBelow ==
  ASSUME NEW r, NEW c, GoodRows(c), Within(c, r), OneSongs(r)
  PROVE  OneSongs(c)
<1>1. \A k \in Range(c.links) : k \in Range(r.links)
  BY DEF Within, Range
<1> QED
  BY <1>1, OneSongBelow DEF OneSongs

LEMMA RolledOne ==
  ASSUME NEW d, GoodDb(d), OneDb(d), NEW e, Rolled(d, e)
  PROVE  OneDb(e) /\ NoneTwice(d, e)
<1>1. OneSongs(d.committed)
  BY OneSongsBelow DEF OneDb, GoodDb
<1>2. Within(e.rows, d.rows) /\ GoodRows(e.rows)
  BY WithinItself DEF Rolled, Olds, OneDb, GoodDb
<1>3. NoneMore(d.rows, e.rows, FALSE)
  BY <1>2, WithinRepeats
<1> QED
  BY <1>1, <1>3 DEF OneDb, Rolled, Olds, NoneTwice, NoneMore

\* Rows to which `row' is added stay good and without two songs for one.
LEMMA GrownOne ==
  ASSUME NEW S, NEW t, NEW row, GoodRow(t, row),
         \A r \in S : GoodRows(r) /\ OneSongs(r) /\ (t = "links" => OneSong(r, row)),
         NEW q \in Grown(S, t, row)
  PROVE  GoodRows(q) /\ OneSongs(q) /\ (t = "links" => OneSong(q, row))
<1>1. CASE q \in S
  BY <1>1
<1>2. ASSUME NEW r \in S, t = "links" => Allowed(r, row), q = Added(r, t, row)
      PROVE  GoodRows(q) /\ OneSongs(q) /\ (t = "links" => OneSong(q, row))
  BY <1>2, OneSongsAdded, AppendGood DEF Added
<1> QED
  BY <1>1, <1>2 DEF Grown

LEMMA InsertedOne ==
  ASSUME NEW d, GoodDb(d), OneDb(d), NEW t, NEW row, GoodRow(t, row), Unseen(d.rows, t, row),
         NEW e, Inserted(d, e, t, row)
  PROVE  OneDb(e) /\ NoneTwice(d, e)
<1> DEFINE Once == Grown(Olds(d), t, row)
           Twice == Grown(Once, t, row)
<1>1. \A r \in Olds(d) : /\ GoodRows(r) /\ Within(r, d.rows) /\ OneSongs(r)
                         /\ Unseen(r, t, row)
  BY UnseenBelow, OneSongsBelow, WithinItself DEF Olds, GoodDb, OneDb
<1>2. \A r \in Once : GoodRows(r) /\ OneSongs(r) /\ (t = "links" => OneSong(r, row))
  BY <1>1, GrownOne DEF Unseen
<1>3. \A r \in Once : NoneMore(d.rows, r, FALSE)
  <2> SUFFICES ASSUME NEW r \in Once PROVE NoneMore(d.rows, r, FALSE)
    OBVIOUS
  <2>1. CASE r \in Olds(d)
    BY <1>1, <2>1, WithinRepeats
  <2>2. ASSUME NEW q \in Olds(d), r = Added(q, t, row) PROVE NoneMore(d.rows, r, FALSE)
    BY <1>1, <2>2, WithinRepeats, AddedRepeats
  <2> QED
    BY <2>1, <2>2 DEF Grown
<1> HIDE DEF Once
<1>4. \A r \in Twice : OneSongs(r)
  BY <1>2, GrownOne
<1>5. \A r \in Twice : NoneMore(d.rows, r, TRUE)
  <2> SUFFICES ASSUME NEW r \in Twice PROVE NoneMore(d.rows, r, TRUE)
    OBVIOUS
  <2>1. CASE r \in Once
    BY <1>3, <2>1 DEF NoneMore
  <2>2. ASSUME NEW q \in Once, r = Added(q, t, row) PROVE NoneMore(d.rows, r, TRUE)
    BY <1>2, <1>3, <2>2, AddedRepeats
  <2> QED
    BY <2>1, <2>2 DEF Grown
<1> HIDE DEF Twice
<1>6. CASE Grew(d, e, t, row)
  <2>1. e.rows \in Once /\ Within(e.committed, e.rows)
    BY <1>6 DEF Grew, Olds, Once
  <2>2. NoneMore(d.rows, e.rows, FALSE) /\ OneSongs(e.rows)
    BY <1>2, <1>3, <2>1
  <2> QED
    BY <2>1, <2>2 DEF OneDb, NoneTwice, NoneMore
<1>7. CASE ~Grew(d, e, t, row)
  <2>1. e.rows \in Twice /\ Within(e.committed, e.rows) /\ ~d.open /\ ~d.tries /\ e.tries
    BY <1>7 DEF Inserted, Olds, Once, Twice
  <2> QED
    BY <1>4, <1>5, <2>1 DEF OneDb, NoneTwice
<1> QED
  BY <1>6, <1>7

\* What a thread is about to insert is as it was.
Same(e) ==
  pc'[e] \in {"source", "link"} => pc'[e] = pc[e] /\ list'[e] = list[e] /\ song'[e] = song[e]

LEMMA RolledSame ==
  ASSUME DbInv, RowsInv, Rolled(db, db'), NEW e \in Dirs, Same(e)
  PROVE  Fresh(e)' /\ SongIsOne(e)'
<1>1. Within(db'.rows, db.rows) /\ GoodRows(db'.rows)
  BY WithinItself DEF Rolled, Olds, RowsInv, OneDb, DbInv, GoodDb
<1>2. Fresh(e)'
  BY <1>1 DEF Same, RowsInv, Fresh, file, Within
<1>3. SongIsOne(e)'
  BY <1>1, OneSongBelow DEF Same, RowsInv, SongIsOne
<1> QED
  BY <1>2, <1>3

LEMMA RowsSame ==
  ASSUME DbInv, RowsInv, Rolled(db, db'), \A e \in Dirs : Same(e)
  PROVE  RowsInv' /\ AddsNone
<1>1. OneDb(db') /\ AddsNone
  BY RolledOne, AddsNoneIs DEF RowsInv, DbInv
<1> QED
  BY <1>1, RolledSame DEF RowsInv

LEMMA RolledItself == ASSUME RowsInv PROVE Rolled(db, db)
  BY DEF RowsInv, OneDb, Rolled, Olds

LEMMA RowsInit == Init => RowsInv
  BY DEF Init, RowsInv, OneDb, Connect, NoRows, Within, OneSongs, OneSong, Range, Fresh, SongIsOne

LEMMA RowsDie == ASSUME DbInv, RowsInv, Die PROVE RowsInv' /\ AddsNone
<1>1. db'.rows = db.committed /\ db'.committed = db.committed
  BY DEF Die, Connect
<1>2. \A d \in Dirs : pc'[d] = "none"
  BY DEF Die
<1>3. Rolled(db, db')
  BY <1>1, WithinItself DEF Rolled, Olds
<1> QED
  BY <1>2, <1>3, RowsSame DEF Same

\* The steps that do not touch the database, and those that begin and end a transaction.
LEMMA RowsServer ==
  ASSUME ThreadInv, DbInv, RowsInv,
         Start \/ InitDir \/ InitDirFails \/ \E f \in DOMAIN Tags : Touch(f)
  PROVE  RowsInv' /\ AddsNone
<1>1. UNCHANGED <<db, list, song>>
  BY DEF Start, InitDir, InitDirFails, Touch
<1>2. ASSUME NEW e \in Dirs PROVE Same(e)
  BY <1>1 DEF Start, InitDir, InitDirFails, Touch, Same, ThreadInv, ThreadTypes
<1> QED
  BY <1>1, <1>2, RowsSame, RolledItself

LEMMA RowsThread ==
  ASSUME ThreadInv, DbInv, RowsInv, NEW d \in Dirs,
         \/ ReadDir(d) \/ NotConnected(d) \/ Begin(d) \/ End(d)
         \/ ReadTags(d) \/ SkipFile(d) \/ Progress(d)
  PROVE  RowsInv' /\ AddsNone
<1>1. Layered(db)
  BY DEF DbInv, RowsInv, OneDb, Layered
<1>2. Rolled(db, db')
  <2>1. CASE UNCHANGED db
    BY <2>1, RolledItself
  <2>2. CASE Begin(d)
    BY <1>1, <2>2, StartRows DEF Begin
  <2>3. CASE End(d)
    <3>1. PICK errnum \in Status : \E s \in EndTransaction([db EXCEPT !.errnum = errnum]) : db' = s.db
      BY <2>3 DEF End, DbInv, GoodDb, Databases
    <3> DEFINE e == [db EXCEPT !.errnum = errnum]
    <3>2. Layered(e) /\ e.rows = db.rows /\ e.committed = db.committed
      BY <1>1 DEF Layered, GoodDb, Databases
    <3>3. PICK s \in EndTransaction(e) : db' = s.db
      BY <3>1
    <3> HIDE DEF e
    <3>4. Rolled(e, db')
      BY <3>2, <3>3, EndRows
    <3> QED
      BY <3>2, <3>4 DEF Rolled, Olds
  <2> QED
    BY <2>1, <2>2, <2>3 DEF ReadDir, NotConnected, ReadTags, SkipFile, Progress
<1>3. ASSUME NEW e \in Dirs PROVE Same(e)
  <2>1. PICK at \in {"begin", "none", "loop", "lock", "progress"} : pc' = [pc EXCEPT ![d] = at]
    BY DEF ReadDir, NotConnected, Begin, End, ReadTags, SkipFile, Progress, Goto
  <2>2. e # d => list'[e] = list[e] /\ song'[e] = song[e]
    BY DEF ReadDir, NotConnected, Begin, End, ReadTags, SkipFile, Progress, ThreadInv,
           ThreadTypes, DbInv
  <2> QED
    BY <2>1, <2>2 DEF Same, ThreadInv, ThreadTypes
<1> QED
  BY <1>2, <1>3, RowsSame

\* While one thread is in a song, no other is about to insert.
LEMMA OthersWait ==
  ASSUME ThreadInv, NEW d \in Dirs, mutex \in {d, Nothing}, NEW at, pc' = [pc EXCEPT ![d] = at],
         NEW e \in Dirs \ {d}
  PROVE  pc'[e] \notin {"source", "link"} /\ Fresh(e)' /\ SongIsOne(e)'
<1>1. pc'[e] = pc[e] /\ mutex # e
  BY DirsAreNumbers DEF ThreadInv, ThreadTypes
<1>2. pc'[e] \notin {"source", "link"}
  BY <1>1 DEF ThreadInv, ThreadAt, Held, InSong
<1> QED
  BY <1>2 DEF Fresh, SongIsOne

\* A step of a song, when it is known what it makes of the rows.
LEMMA RowsSong ==
  ASSUME ThreadInv, NEW d \in Dirs, mutex \in {d, Nothing}, NEW at, pc' = [pc EXCEPT ![d] = at],
         OneDb(db'), NoneTwice(db, db'), at = "source" => Fresh(d)',
         at = "link" => SongIsOne(d)'
  PROVE  RowsInv' /\ AddsNone
<1>1. pc'[d] = at
  BY DEF ThreadInv, ThreadTypes
<1>2. Fresh(d)' /\ SongIsOne(d)'
  BY <1>1 DEF Fresh, SongIsOne
<1> QED
  BY <1>2, OthersWait, AddsNoneIs DEF RowsInv

LEMMA RowsSelectMtime ==
  ASSUME ThreadInv, DbInv, RowsInv, NEW d \in Dirs, SelectMtime(d)
  PROVE  RowsInv' /\ AddsNone
<1>1. PICK s \in Select(db) :
        /\ db' = s.db
        /\ IF s.status # "ok" THEN Return(d)
           ELSE IF SourceIds(d) = {} THEN Goto(d, "source") /\ mutex' = d
           ELSE \E i \in SourceIds(d) :
                  IF file(d).mtime <= db.rows.sources[i].mtime THEN Return(d)
                  ELSE Goto(d, "update") /\ mutex' = d
  BY DEF SelectMtime
<1>2. Rolled(db, db') /\ (s.status = "ok" => db'.rows = db.rows)
  BY <1>1, SelectRows DEF DbInv, RowsInv, OneDb, Layered
<1>3. OneDb(db') /\ NoneTwice(db, db')
  BY <1>2, RolledOne DEF RowsInv, DbInv
<1>4. list' = list
  BY DEF SelectMtime
<1>5. PICK at \in {"source", "progress", "update"} :
        pc' = [pc EXCEPT ![d] = at] /\ (at = "source" => s.status = "ok" /\ SourceIds(d) = {})
  <2>1. CASE s.status = "ok" /\ SourceIds(d) = {}
    BY <1>1, <2>1 DEF Goto
  <2>2. CASE ~(s.status = "ok" /\ SourceIds(d) = {})
    BY <1>1, <2>2 DEF Goto, Return
  <2> QED
    BY <2>1, <2>2
<1>6. at = "source" => Fresh(d)'
  BY <1>2, <1>4, <1>5 DEF Fresh, SourceIds, file
<1> QED
  BY <1>3, <1>5, <1>6, RowsSong DEF SelectMtime

LEMMA RowsUpdate ==
  ASSUME ThreadInv, DbInv, RowsInv, NEW d \in Dirs, Update(d)
  PROVE  RowsInv' /\ AddsNone
<1>1. PICK rows \in {db.rows} \cup {[db.rows EXCEPT !.sources[i] = Source(d)] : i \in SourceIds(d)} :
        \E s \in Statement(db, rows) : db' = s.db
  BY DEF Update
<1>2. /\ OneSongs(rows) /\ Within(db.committed, rows)
      /\ \A u \in Uniques : Column(rows, u) = Column(db.rows, u)
  <2>1. CASE rows = db.rows
    BY <2>1 DEF RowsInv, OneDb
  <2>2. ASSUME NEW i \in SourceIds(d), rows = [db.rows EXCEPT !.sources[i] = Source(d)]
        PROVE  /\ OneSongs(rows) /\ Within(db.committed, rows)
               /\ \A u \in Uniques : Column(rows, u) = Column(db.rows, u)
    <3> DEFINE new == [db.rows.sources EXCEPT ![i] = Source(d)]
    <3>1. /\ rows.artists = db.rows.artists /\ rows.albums = db.rows.albums
          /\ rows.songs = db.rows.songs /\ rows.links = db.rows.links
          /\ rows.sources = new
      BY <2>2 DEF DbInv, GoodDb, GoodRows, Rows
    <3>2. /\ DOMAIN new = DOMAIN db.rows.sources
          /\ \A j \in DOMAIN new : new[j].path = db.rows.sources[j].path
      BY DEF SourceIds, Source
    <3> HIDE DEF new
    <3>3. OneSongs(rows)
      BY <3>1 DEF RowsInv, OneDb, OneSongs, OneSong
    <3>4. Within(db.committed, rows)
      <4>1. Within(db.committed, db.rows)
        BY DEF RowsInv, OneDb
      <4>2. \A t \in {"artists", "albums", "songs", "links"} : rows[t] = db.rows[t]
        BY <3>1
      <4> QED
        BY <3>1, <3>2, <4>1, <4>2 DEF Within
    <3>5. \A u \in Uniques : Column(rows, u) = Column(db.rows, u)
      <4>1. Paths(rows.sources) = Paths(db.rows.sources)
        BY <3>1, <3>2 DEF Paths
      <4>2. rows["artists"] = db.rows["artists"] /\ rows["albums"] = db.rows["albums"]
        BY <3>1
      <4> QED
        BY <4>1, <4>2 DEF Uniques, Column
    <3> QED
      BY <3>3, <3>4, <3>5
  <2> QED
    BY <2>1, <2>2
<1>3. PICK s \in Statement(db, rows) : db' = s.db
  BY <1>1
<1>4. \/ db'.rows \in Olds(db) /\ db'.committed = db.committed
      \/ db'.rows = rows /\ db'.committed \in {rows, db.committed}
  BY <1>3, StatementRows DEF DbInv
<1>5. OneDb(db') /\ NoneTwice(db, db')
  <2>1. CASE db'.rows \in Olds(db) /\ db'.committed = db.committed
    <3>1. Rolled(db, db')
      BY <2>1, WithinItself DEF Rolled, Olds, RowsInv, OneDb
    <3> QED
      BY <3>1, RolledOne DEF RowsInv, DbInv
  <2>2. CASE db'.rows = rows /\ db'.committed \in {rows, db.committed}
    <3>1. OneDb(db')
      BY <1>2, <2>2, WithinItself DEF OneDb
    <3>2. NoneMore(db.rows, db'.rows, FALSE)
      BY <1>2, <2>2 DEF NoneMore
    <3> QED
      BY <3>1, <3>2 DEF NoneTwice, NoneMore
  <2> QED
    BY <1>4, <2>1, <2>2
<1> QED
  BY <1>5, RowsSong DEF Update, Return, Goto, ThreadInv, ThreadAt, Held, InSong

LEMMA FindOrAddRows ==
  ASSUME DbInv, RowsInv, NEW t \in Tables \ {"links"}, NEW row, GoodRow(t, row), NEW found,
         found = {} => Unseen(db.rows, t, row), NEW r \in FindOrAdd(t, found, row)
  PROVE  /\ OneDb(r.db) /\ NoneTwice(db, r.db)
         /\ r.status = "ok" =>
              \/ r.id \in found /\ r.db.rows = db.rows
              \/ r.id = 0
              \/ /\ found = {}
                 /\ r.db.rows \in {Added(q, t, row) : q \in Grown(Olds(db), t, row)}
                 /\ r.id = Len(r.db.rows[t])
<1>1. PICK s \in Select(db) :
        r \in IF s.status # "ok" THEN {[db |-> s.db, status |-> s.status, id |-> 0]}
              ELSE IF found = {} THEN insert_db(s.db, t, row)
              ELSE {[db |-> s.db, status |-> "ok", id |-> i] : i \in found}
  BY DEF FindOrAdd
<1>2. /\ Rolled(db, s.db) /\ Layered(s.db) /\ (s.status = "ok" => s.db.rows = db.rows)
      /\ s.db.open = db.open /\ s.db.tries = db.tries
  BY <1>1, SelectRows DEF DbInv, RowsInv, OneDb, Layered
<1>3. OneDb(s.db) /\ NoneTwice(db, s.db)
  BY <1>2, RolledOne DEF RowsInv, DbInv
<1>4. CASE s.status = "ok" /\ found = {}
  <2>1. r \in insert_db(s.db, t, row)
    BY <1>1, <1>4
  <2>2. Inserted(s.db, r.db, t, row) /\ HasId(Grown(Olds(s.db), t, row), r, t, row)
    BY <1>2, <2>1, insert_dbRows
  <2>3. Inserted(db, r.db, t, row)
    BY <1>2, <2>2, RolledInserted
  <2>4. OneDb(r.db) /\ NoneTwice(db, r.db)
    BY <1>4, <2>3, InsertedOne DEF RowsInv, DbInv
  <2>5. Olds(s.db) \subseteq Olds(db)
    BY <1>2 DEF Rolled, Olds
  <2>6. Grown(Olds(s.db), t, row) \subseteq Grown(Olds(db), t, row)
    BY <2>5, GrownGrows
  <2> QED
    BY <1>4, <2>2, <2>4, <2>6 DEF HasId
<1>5. CASE ~(s.status = "ok" /\ found = {})
  BY <1>1, <1>2, <1>3, <1>5
<1> QED
  BY <1>4, <1>5

\* The place to which the statements of a table lead.
LEMMA ContinueAt ==
  ASSUME NEW d \in Dirs, NEW s, NEW t, NEW at, Continue(d, s, t, at)
  PROVE  /\ db' = s.db /\ list' = list
         /\ \/ s.status = "ok" /\ pc' = [pc EXCEPT ![d] = at] /\ song' = [song EXCEPT ![d][t] = s.id]
            \/ pc' = [pc EXCEPT ![d] = "progress"]
  BY DEF Continue, Return, Goto

LEMMA RowsFind ==
  ASSUME ThreadInv, DbInv, RowsInv, NEW d \in Dirs, AddSource(d) \/ FindArtist(d) \/ FindAlbum(d)
  PROVE  RowsInv' /\ AddsNone
<1>0. Layered(db) /\ OneDb(db) /\ GoodDb(db)
  BY DEF DbInv, RowsInv, OneDb, Layered
<1>1. pc[d] \in HasTags /\ mutex = d
  BY DEF AddSource, FindArtist, FindAlbum, HasTags, InSong, ThreadInv, ThreadAt, Held
<1>2. CASE AddSource(d)
  <2>1. PICK s \in insert_db(db, "sources", Source(d)) : Continue(d, s, "sources", "artist")
    BY <1>2 DEF AddSource
  <2>2. GoodRow("sources", Source(d)) /\ Unseen(db.rows, "sources", Source(d))
    BY <1>1, <1>2, SourceGood DEF AddSource, RowsInv, Fresh, Unseen, Source
  <2>3. OneDb(db') /\ NoneTwice(db, db')
    BY <1>0, <2>1, <2>2, insert_dbRows, InsertedOne, ContinueAt
  <2>4. PICK at \in {"artist", "progress"} : pc' = [pc EXCEPT ![d] = at]
    BY <2>1, ContinueAt
  <2> QED
    BY <1>1, <2>3, <2>4, RowsSong
<1>3. CASE FindArtist(d)
  <2> DEFINE found == {i \in DOMAIN db.rows.artists : db.rows.artists[i] = tags(d).artist}
  <2>1. PICK s \in FindOrAdd("artists", found, tags(d).artist) : Continue(d, s, "artists", "album")
    BY <1>3 DEF FindArtist
  <2>2. GoodRow("artists", tags(d).artist) /\ "artists" \in Tables \ {"links"}
    BY <1>1, NamesGood DEF GoodRow, Tables
  <2>3. found = {} => Unseen(db.rows, "artists", tags(d).artist)
    BY DEF Unseen, Range
  <2>4. OneDb(db') /\ NoneTwice(db, db')
    BY <2>1, <2>2, <2>3, FindOrAddRows, ContinueAt
  <2>5. PICK at \in {"album", "progress"} : pc' = [pc EXCEPT ![d] = at]
    BY <2>1, ContinueAt
  <2> QED
    BY <1>1, <2>4, <2>5, RowsSong
<1>4. CASE FindAlbum(d)
  <2> DEFINE found == {i \in DOMAIN db.rows.albums : db.rows.albums[i] = tags(d).album}
  <2>1. PICK s \in FindOrAdd("albums", found, tags(d).album) : Continue(d, s, "albums", "song")
    BY <1>4 DEF FindAlbum
  <2>2. GoodRow("albums", tags(d).album) /\ "albums" \in Tables \ {"links"}
    BY <1>1, NamesGood DEF GoodRow, Tables
  <2>3. found = {} => Unseen(db.rows, "albums", tags(d).album)
    BY DEF Unseen, Range
  <2>4. OneDb(db') /\ NoneTwice(db, db')
    BY <2>1, <2>2, <2>3, FindOrAddRows, ContinueAt
  <2>5. PICK at \in {"song", "progress"} : pc' = [pc EXCEPT ![d] = at]
    BY <2>1, ContinueAt
  <2> QED
    BY <1>1, <2>4, <2>5, RowsSong
<1> QED
  BY <1>2, <1>3, <1>4

LEMMA RowsFindSong ==
  ASSUME ThreadInv, DbInv, RowsInv, NEW d \in Dirs, FindSong(d)
  PROVE  RowsInv' /\ AddsNone
<1> DEFINE found == {l.songs : l \in {k \in Range(db.rows.links) :
                       /\ k.artists = song[d].artists /\ k.albums = song[d].albums
                       /\ db.rows.songs[k.songs] = tags(d).title}}
           Once == Grown(Olds(db), "songs", tags(d).title)
<1>1. pc[d] \in HasTags /\ mutex = d
  BY DEF FindSong, HasTags, InSong, ThreadInv, ThreadAt, Held
<1>2. PICK s \in FindOrAdd("songs", found, tags(d).title) : Continue(d, s, "songs", "link")
  BY DEF FindSong
<1>3. /\ GoodRow("songs", tags(d).title) /\ "songs" \in Tables \ {"links"}
      /\ Unseen(db.rows, "songs", tags(d).title)
  BY <1>1, NamesGood DEF GoodRow, Tables, Unseen
<1> HIDE DEF found
<1>4. /\ OneDb(s.db) /\ NoneTwice(db, s.db)
      /\ s.status = "ok" =>
           \/ s.id \in found /\ s.db.rows = db.rows
           \/ s.id = 0
           \/ /\ found = {} /\ s.db.rows \in {Added(q, "songs", tags(d).title) : q \in Once}
              /\ s.id = Len(s.db.rows["songs"])
  BY <1>2, <1>3, FindOrAddRows
<1> HIDE DEF Once
<1>5. db' = s.db
  BY <1>2, ContinueAt
<1>6. CASE pc' = [pc EXCEPT ![d] = "progress"]
  BY <1>1, <1>4, <1>5, <1>6, RowsSong
<1>7. CASE /\ s.status = "ok" /\ pc' = [pc EXCEPT ![d] = "link"]
           /\ song' = [song EXCEPT ![d]["songs"] = s.id]
  <2>1. /\ song'[d].artists = song[d].artists /\ song'[d].albums = song[d].albums
        /\ song'[d].songs = s.id
    BY <1>7 DEF DbInv, Songs
  <2>2. \A r \in Olds(db) : \A l \in Range(r.links) : l.songs \in DOMAIN r.songs
    BY DEF DbInv, GoodDb, GoodRows, Olds, Range, Allowed, Ids
  <2>3. OneSong(db'.rows, song'[d])
    <3>1. CASE s.id \in found /\ s.db.rows = db.rows
      <4>1. PICK k \in Range(db.rows.links) :
              /\ k.artists = song[d].artists /\ k.albums = song[d].albums
              /\ db.rows.songs[k.songs] = tags(d).title /\ s.id = k.songs
        BY <3>1 DEF found
      <4>2. OneSong(db.rows, k) /\ k.songs \in DOMAIN db.rows.songs
        BY <2>2 DEF RowsInv, OneDb, OneSongs, Olds
      <4> QED
        BY <1>5, <2>1, <3>1, <4>1, <4>2 DEF OneSong
    <3>2. CASE s.id = 0
      <4>1. db'.rows.songs \in Seq(Names)
        <5>1. GoodDb(s.db)
          <6>1. found \in SUBSET Nat
            BY FoundAreIds DEF found
          <6> QED
            BY <1>2, <1>3, <6>1, FindOrAddGood DEF GoodId, DbInv
        <5> QED
          BY <1>5, <5>1 DEF GoodDb, GoodRows, Rows
      <4>2. 0 \notin DOMAIN db'.rows.songs
        BY <4>1, LenProperties
      <4> QED
        BY <2>1, <3>2, <4>2 DEF OneSong
    <3>3. CASE /\ found = {} /\ s.id = Len(s.db.rows["songs"])
               /\ s.db.rows \in {Added(q, "songs", tags(d).title) : q \in Once}
      <4>1. PICK q \in Once : db'.rows = Added(q, "songs", tags(d).title)
        BY <1>5, <3>3
      <4>5. PICK c \in Olds(db) : q \in {c, Added(c, "songs", tags(d).title)}
        BY <4>1 DEF Once, Grown
      <4>6. GoodRows(c) /\ Within(c, db.rows) /\ OneSongs(c)
        BY WithinItself, OneSongsBelow DEF Olds, DbInv, GoodDb, RowsInv, OneDb
      <4>2. GoodRows(q)
        BY <1>3, <4>5, <4>6, AppendGood DEF Added
      <4>7. q.links = c.links /\ \A i \in DOMAIN c.songs : i \in DOMAIN q.songs /\ q.songs[i] = c.songs[i]
        <5>1. CASE q = c
          BY <5>1
        <5>2. CASE q = Added(c, "songs", tags(d).title)
          <6>1. /\ \A u \in Tables \ {"songs"} : q[u] = c[u]
                /\ DOMAIN c["songs"] \subseteq DOMAIN q["songs"]
                /\ \A i \in DOMAIN c["songs"] : q["songs"][i] = c["songs"][i]
            BY <1>3, <4>6, <5>2, AddedRows
          <6>2. q.links = q["links"] /\ c.links = c["links"]
            OBVIOUS
          <6> QED
            BY <6>1, <6>2 DEF Tables
        <5> QED
          BY <4>5, <5>1, <5>2
      <4> DEFINE n == Len(q.songs) + 1
      <4>3. /\ s.id = n /\ n \notin DOMAIN q.songs /\ db'.rows.links = q.links
            /\ db'.rows.songs[n] = tags(d).title
            /\ \A i \in DOMAIN q.songs : db'.rows.songs[i] = q.songs[i]
        <5>1. /\ Len(db'.rows["songs"]) = Len(q["songs"]) + 1 /\ Len(q["songs"]) \in Nat
              /\ DOMAIN q["songs"] = 1 .. Len(q["songs"])
              /\ db'.rows["songs"][Len(q["songs"]) + 1] = tags(d).title
              /\ \A i \in DOMAIN q["songs"] : db'.rows["songs"][i] = q["songs"][i]
              /\ \A u \in Tables \ {"songs"} : db'.rows[u] = q[u]
          BY <1>3, <4>1, <4>2, AddedRows
        <5> QED
          BY <1>5, <3>3, <5>1 DEF Tables
      <4> HIDE DEF n
      <4>4. ASSUME NEW l \in Range(q.links), l.artists = song[d].artists,
                   l.albums = song[d].albums, db'.rows.songs[l.songs] = tags(d).title
            PROVE  FALSE
        <5>1. l.songs \in DOMAIN c.songs /\ l \in Range(db.rows.links)
          BY <2>2, <4>6, <4>7 DEF Within, Range
        <5>2. db.rows.songs[l.songs] = tags(d).title
          BY <4>3, <4>4, <4>6, <4>7, <5>1 DEF Within
        <5>3. l.songs \in found
          BY <4>4, <5>1, <5>2 DEF found
        <5> QED
          BY <3>3, <5>3
      <4> QED
        BY <2>1, <4>3, <4>4 DEF OneSong
    <3> QED
      BY <1>4, <1>7, <3>1, <3>2, <3>3
  <2>4. SongIsOne(d)'
    BY <2>3 DEF SongIsOne
  <2> QED
    BY <1>1, <1>4, <1>5, <1>7, <2>4, RowsSong
<1> QED
  BY <1>2, <1>6, <1>7, ContinueAt

LEMMA RowsAddLink ==
  ASSUME ThreadInv, DbInv, RowsInv, NEW d \in Dirs, AddLink(d)
  PROVE  RowsInv' /\ AddsNone
<1> DEFINE link == [artists |-> song[d].artists, albums |-> song[d].albums,
                    songs |-> song[d].songs, sources |-> song[d].sources]
<1>1. OneDb(db') /\ NoneTwice(db, db')
  <2>1. CASE UNCHANGED db
    BY <2>1, RolledItself, RolledOne DEF RowsInv, DbInv
  <2>2. ASSUME NEW s \in insert_db(db, "links", link), db' = s.db
        PROVE  OneDb(db') /\ NoneTwice(db, db')
    <3>1. GoodRow("links", link)
      BY DEF GoodRow, LinkRows, DbInv, Songs
    <3>2. OneSong(db.rows, song[d])
      BY DEF RowsInv, SongIsOne, AddLink
    <3>3. OneSong(db.rows, link)
      BY <3>2 DEF OneSong
    <3>4. Unseen(db.rows, "links", link)
      BY <3>3 DEF Unseen
    <3> HIDE DEF link
    <3>5. Layered(db) /\ GoodDb(db) /\ OneDb(db)
      BY DEF Layered, DbInv, RowsInv, OneDb
    <3> QED
      BY <2>2, <3>1, <3>4, <3>5, insert_dbRows, InsertedOne
  <2> QED
    BY <2>1, <2>2 DEF AddLink
<1>2. mutex = d
  BY DEF AddLink, ThreadInv, ThreadAt, Held, InSong
<1> QED
  BY <1>1, <1>2, RowsSong DEF AddLink, Return, Goto

LEMMA RowsNext == ThreadInv /\ DbInv /\ RowsInv /\ [Next]_vars => RowsInv' /\ [AddsNone]_vars
<1>1. ASSUME ThreadInv, DbInv, RowsInv, UNCHANGED vars PROVE RowsInv'
  BY <1>1 DEF vars, server, RowsInv, Fresh, SongIsOne, file
<1>2. ASSUME ThreadInv, DbInv, RowsInv, NEW d \in Dirs, Thread(d) PROVE RowsInv' /\ AddsNone
  BY <1>2, RowsDie, RowsThread, RowsSelectMtime, RowsUpdate, RowsFind, RowsFindSong, RowsAddLink
  DEF Thread, ReadDirFalls
<1>3. ASSUME ThreadInv, DbInv, RowsInv, Next PROVE RowsInv' /\ AddsNone
  BY <1>2, <1>3, RowsServer, RowsDie DEF Next, Stop
<1> QED
  BY <1>1, <1>3

LEMMA RowsInvariant == Spec => []RowsInv
  BY ThreadsInvariant, DbInvariant, RowsInit, RowsNext, PTL DEF Spec

LEMMA SongsAreOne ==
  ASSUME NEW r, GoodRows(r), OneSongs(r)
  PROVE  OneSongEach(r)
<1>1. \A l \in Range(r.links) : l.songs \in DOMAIN r.songs
  BY DEF GoodRows, Range, Allowed, Ids
<1> QED
  BY <1>1 DEF OneSongs, OneSong, OneSongEach

\* Whatever threads do at once and whatever is rolled back under them, no step adds a
\* second row for an artist, an album or a file, but the one repeat of insert_db after a
\* connection is lost outside of transactions; and the files of a song of an album are
\* linked to one song, also after that.
THEOREM RowsAreUnique == Spec => OneRowEach
<1>1. ASSUME DbInv', RowsInv' PROVE OneSongEach(db'.rows)
  BY <1>1, SongsAreOne DEF DbInv, GoodDb, RowsInv, OneDb
<1>2. ThreadInv /\ DbInv /\ RowsInv /\ [Next]_vars => [AddsNone /\ OneSongEach(db'.rows)]_vars
  BY <1>1, DbNext, RowsNext
<1>3. [][AddsNone /\ OneSongEach(db'.rows)]_vars => OneRowEach
  BY PTL DEF AddsNone, OneRowEach
<1> QED
  BY <1>2, <1>3, ThreadsInvariant, DbInvariant, RowsInvariant, PTL DEF Spec

-----------------------------------------------------------------------------
(* One directory, and the connection not lost in an insert: what is in the  *)
(* transaction is whole, or it has failed and is rolled back.               *)

\* A statement in a transaction commits nothing, and the transaction remembers a failure.
Kept(d, e) == e.open /\ e.committed = d.committed /\ e.current = d.current /\ e.tries = d.tries

Remembers(d, s) ==
  /\ Kept(d, s.db)
  /\ s.status = "ok" => d.errnum = "ok"
  /\ s.status = "ok" <=> s.db.errnum = "ok"

LEMMA StatementOpen ==
  ASSUME NEW d, GoodDb(d), NEW new, NEW s \in Statement(d, new)
  PROVE  /\ s.db.tries = d.tries /\ s.db.current = d.current
         /\ d.open => Remembers(d, s)
         /\ s.status = "ok" => s.db.rows = new
         /\ s.status \in Status
<1>1. CASE \E status \in Outcomes(d) : s = [db |-> After(d, status, new), status |-> status]
  <2>1. PICK status \in Outcomes(d) : s = [db |-> After(d, status, new), status |-> status]
    BY <1>1
  <2> QED
    BY <2>1, OutcomesAre, AfterRows DEF Remembers, Kept
<1>2. CASE ~d.open /\ s = [db |-> Unanswered(d, new), status |-> "lost"]
  BY <1>2, UnansweredIs DEF Status
<1> QED
  BY <1>1, <1>2, StatementIs

LEMMA InsertOpen ==
  ASSUME NEW d, GoodDb(d), NEW t, NEW row, GoodRow(t, row), NEW s \in Insert(d, t, row)
  PROVE  /\ s.db.tries = d.tries /\ GoodDb(s.db) /\ s.status \in Status
         /\ d.open => Remembers(d, s)
         /\ s.status = "ok" => s.db.rows = Added(d.rows, t, row)
<1>1. CASE t = "links" => Allowed(d.rows, row)
  <2>1. s \in Statement(d, Added(d.rows, t, row))
    BY <1>1 DEF Insert, Added
  <2> QED
    BY <2>1, StatementOpen, InsertGood DEF GoodResult
<1>2. CASE ~(t = "links" => Allowed(d.rows, row))
  <2>1. PICK status \in Status \ {"ok"} :
          s = [db |-> After(d, status, d.rows), status |-> status]
    BY <1>2, OutcomesAre DEF Insert, Status
  <2> QED
    BY <2>1, AfterRows, InsertGood DEF Remembers, Kept, GoodResult
<1> QED
  BY <1>1, <1>2

LEMMA TryOpen ==
  ASSUME NEW d, GoodDb(d), NEW t, NEW row, GoodRow(t, row), NEW r \in Try(d, t, row)
  PROVE  /\ r.db.tries = d.tries
         /\ r.status # "again" /\ d.open => Remembers(d, r)
         /\ r.status = "ok" => /\ r.db.rows = Added(d.rows, t, row)
                               /\ t # "links" => r.id = Len(r.db.rows[t])
<1>1. PICK s \in Insert(d, t, row) :
        r \in IF s.status = "lost"
              THEN {[db |-> s.db, status |-> "lost", id |-> 0],
                    [db |-> Reconnected(s.db), status |-> "again", id |-> 0]}
              ELSE LastId(s, t)
  BY DEF Try
<1>2. /\ s.db.tries = d.tries /\ GoodDb(s.db) /\ s.status \in Status
      /\ d.open => Remembers(d, s)
      /\ s.status = "ok" => s.db.rows = Added(d.rows, t, row)
  BY InsertOpen
<1>3. CASE s.status = "lost"
  <2>1. Reconnected(s.db).tries = s.db.tries
    BY <1>2 DEF Reconnected, GoodDb, Databases
  <2> QED
    BY <1>1, <1>2, <1>3, <2>1 DEF Remembers
<1>4. CASE s.status = "ok" /\ t # "links"
  <2>1. PICK q \in Select(s.db) :
          r = [db |-> q.db, status |-> q.status,
               id |-> IF q.status = "ok" THEN Len(q.db.rows[t]) ELSE 0]
    BY <1>1, <1>4 DEF LastId
  <2>2. /\ q.db.tries = s.db.tries /\ (s.db.open => Remembers(s.db, q))
        /\ q.status = "ok" => q.db.rows = s.db.rows
    BY <1>2, <2>1, StatementOpen DEF Select
  <2> QED
    BY <1>2, <1>4, <2>1, <2>2 DEF Remembers, Kept
<1>5. CASE s.status = "error" \/ (s.status = "ok" /\ t = "links")
  BY <1>1, <1>2, <1>5 DEF LastId, Remembers
<1> QED
  BY <1>2, <1>3, <1>4, <1>5 DEF Status

\* If tries is not set after it, insert_db tried once.
LEMMA insert_dbOpen ==
  ASSUME NEW d, GoodDb(d), NEW t, NEW row, GoodRow(t, row), NEW r \in insert_db(d, t, row),
         ~r.db.tries
  PROVE  /\ ~d.tries
         /\ d.open => Remembers(d, r)
         /\ r.status = "ok" => /\ r.db.rows = Added(d.rows, t, row)
                               /\ t # "links" => r.id = Len(r.db.rows[t])
<1>1. ASSUME NEW e, GoodDb(e), NEW q \in Try(e, t, row) PROVE Settled(q).db.tries = e.tries
  BY <1>1, TryOpen DEF Settled
<1>2. d.tries \in BOOLEAN
  BY DEF GoodDb, Databases
<1>3. ~d.tries
  BY <1>1, <1>2 DEF insert_db
<1>4. ASSUME NEW s \in Try(d, t, row), NEW q \in Try([s.db EXCEPT !.tries = TRUE], t, row),
             r = Settled(q)
      PROVE  FALSE
  <2> DEFINE e == [s.db EXCEPT !.tries = TRUE]
  <2>1. GoodDb(s.db)
    BY TryGood DEF GoodId
  <2>2. GoodDb(e) /\ e.tries
    BY <2>1 DEF GoodDb, Databases
  <2> HIDE DEF e
  <2> QED
    BY <1>1, <1>4, <2>2 DEF e
<1>5. r \in Try(d, t, row) /\ r.status # "again"
  BY <1>3, <1>4 DEF insert_db
<1> QED
  BY <1>3, <1>5, TryOpen

\* The id is found or of the new row, and no row of a file or a link is disturbed.
LEMMA FindOrAddOpen ==
  ASSUME GoodDb(db), NEW t \in {"artists", "albums", "songs"}, NEW row \in Names,
         NEW found \in SUBSET (Nat \ {0}), NEW r \in FindOrAdd(t, found, row), ~r.db.tries
  PROVE  /\ ~db.tries
         /\ db.open => Remembers(db, r)
         /\ r.status = "ok" => /\ r.id # 0
                               /\ r.db.rows.sources = db.rows.sources
                               /\ r.db.rows.links = db.rows.links
<1>1. PICK s \in Select(db) :
        r \in IF s.status # "ok" THEN {[db |-> s.db, status |-> s.status, id |-> 0]}
              ELSE IF found = {} THEN insert_db(s.db, t, row)
              ELSE {[db |-> s.db, status |-> "ok", id |-> i] : i \in found}
  BY DEF FindOrAdd
<1>2. /\ s.db.tries = db.tries /\ GoodDb(s.db)
      /\ db.open => Remembers(db, s)
      /\ s.status = "ok" => s.db.rows = db.rows
  BY <1>1, StatementOpen, SelectGood DEF Select, GoodResult
<1>3. GoodRow(t, row)
  BY DEF GoodRow
<1>4. CASE s.status = "ok" /\ found = {}
  <2>1. r \in insert_db(s.db, t, row)
    BY <1>1, <1>4
  <2>2. /\ ~s.db.tries
        /\ s.db.open => Remembers(s.db, r)
        /\ r.status = "ok" => r.db.rows = Added(s.db.rows, t, row) /\ r.id = Len(r.db.rows[t])
    BY <1>2, <1>3, <2>1, insert_dbOpen
  <2> DEFINE q == Added(s.db.rows, t, row)
  <2>3. /\ Len(q[t]) = Len(s.db.rows[t]) + 1 /\ Len(s.db.rows[t]) \in Nat
        /\ q["sources"] = s.db.rows["sources"] /\ q["links"] = s.db.rows["links"]
    <3>1. GoodRows(s.db.rows) /\ {"sources", "links"} \subseteq Tables \ {t}
      BY <1>2 DEF GoodDb, Tables
    <3> QED
      BY <1>3, <3>1, AddedRows
  <2>a. s.db.rows = db.rows /\ (r.status = "ok" => r.db.rows = q /\ r.id = Len(r.db.rows[t]))
    BY <1>2, <1>4, <2>2
  <2> HIDE DEF q
  <2>4. ASSUME r.status = "ok"
        PROVE  r.id # 0 /\ r.db.rows.sources = db.rows.sources /\ r.db.rows.links = db.rows.links
    <3>1. r.db.rows = q /\ r.id = Len(q[t])
      BY <2>a, <2>4
    <3>2. r.id # 0
      BY <2>3, <3>1
    <3> QED
      BY <2>3, <2>a, <3>1, <3>2
  <2>5. ASSUME db.open PROVE Remembers(db, r)
    <3>1. Remembers(db, s) /\ Remembers(s.db, r)
      BY <1>2, <2>2, <2>5 DEF Remembers, Kept
    <3> QED
      BY <1>4, <3>1 DEF Remembers, Kept
  <2> QED
    BY <1>2, <2>2, <2>4, <2>5
<1>5. CASE s.status = "ok" /\ found # {}
  <2>1. PICK i \in found : r = [db |-> s.db, status |-> "ok", id |-> i]
    BY <1>1, <1>5
  <2>2. r.db = s.db /\ r.status = s.status /\ r.id # 0
    BY <1>5, <2>1
  <2> QED
    BY <1>2, <1>5, <2>2 DEF Remembers
<1>6. CASE s.status # "ok"
  BY <1>1, <1>2, <1>6 DEF Remembers
<1> QED
  BY <1>4, <1>5, <1>6

Alone == dirs = 1 /\ ~db.tries

InTransaction == InSong \cup {"loop", "lock", "progress"}

\* Nothing was done yet for the only directory.
Before == init \in {0, 1} \/ pc[1] \in {"created", "begin"}

Linked(i) == \E l \in Range(db.rows.links) : l.sources = i

\* Places where the source is inserted and the link is not.
HasSource == {"artist", "album", "song", "link"}

\* Every file in the transaction has its link, but the one that the thread is at.
Pending(d) ==
  /\ pc[d] \in HasSource => song[d].sources # 0
  /\ pc[d] \in {"album", "song", "link"} => song[d].artists # 0
  /\ pc[d] \in {"song", "link"} => song[d].albums # 0
  /\ pc[d] = "link" => song[d].songs # 0
  /\ db.errnum = "ok" =>
       \A i \in (DOMAIN db.rows.sources) \ (DOMAIN db.committed.sources) :
         Linked(i) \/ (pc[d] \in HasSource /\ i = song[d].sources)

WholeAlone ==
  /\ db.current
  /\ Before => ~db.open /\ cleared = {} /\ db.committed = db.rows
  /\ pc[1] \in InTransaction => db.open /\ cleared = {} /\ Pending(1)

WholeInv == (\A d \in Dirs : pc[d] # "none" => d <= dirs) /\ (Alone => WholeAlone)

\* What CommitsWhole says of a step.
CommitsLinked ==
  dirs = 1 /\ ~db'.tries =>
    \A i \in (DOMAIN db'.committed.sources) \ (DOMAIN db.committed.sources) :
      \E l \in Range(db'.committed.links) : l.sources = i

LEMMA FirstDir == 1 \in Dirs /\ \A d \in Dirs : d <= 1 => d = 1
  BY NumDirsAssumption DEF Dirs

LEMMA WholeInit == Init => WholeInv
<1> SUFFICES ASSUME Init PROVE WholeInv
  OBVIOUS
<1>1. /\ db.current /\ ~db.open /\ cleared = {} /\ db.committed = db.rows
      /\ \A d \in Dirs : pc[d] = "none"
  BY DEF Init, Connect
<1> QED
  BY <1>1, FirstDir DEF WholeInv, WholeAlone, InTransaction, InSong

LEMMA WholeDie ==
  ASSUME ThreadInv, Die
  PROVE  WholeInv' /\ CommitsLinked
<1>1. /\ db'.current /\ ~db'.open /\ cleared' = {} /\ db'.committed = db'.rows
      /\ db'.committed = db.committed
      /\ \A d \in Dirs : pc'[d] = "none"
  BY DEF Die, Connect
<1> QED
  BY <1>1, FirstDir DEF WholeInv, WholeAlone, InTransaction, InSong, CommitsLinked

\* A step that does not touch the database and leads into a transaction only from within.
LEMMA WholeFrame ==
  ASSUME WholeInv, UNCHANGED <<dirs, db, cleared>>,
         \A d \in Dirs : pc'[d] # "none" => pc[d] # "none" \/ d <= dirs,
         Before' => Before,
         /\ pc'[1] \in InTransaction => pc[1] \in InTransaction
         /\ pc[1] \in InTransaction => \/ pc'[1] = pc[1] /\ song'[1] = song[1]
                                       \/ pc[1] \notin HasSource /\ pc'[1] \notin HasSource
  PROVE  WholeInv' /\ CommitsLinked
<1>1. CommitsLinked
  BY DEF CommitsLinked
<1>2. \A d \in Dirs : pc'[d] # "none" => d <= dirs'
  BY DEF WholeInv
<1>3. ASSUME Alone' PROVE WholeAlone'
  <2>1. WholeAlone
    BY <1>3 DEF WholeInv, Alone
  <2>2. ASSUME pc'[1] \in InTransaction PROVE Pending(1)'
    <3>1. Pending(1)
      BY <2>1, <2>2 DEF WholeAlone
    <3>2. CASE pc'[1] = pc[1] /\ song'[1] = song[1]
      BY <3>1, <3>2 DEF Pending, Linked
    <3>3. CASE pc[1] \notin HasSource /\ pc'[1] \notin HasSource
      BY <3>1, <3>3 DEF Pending, Linked, HasSource
    <3> QED
      BY <2>2, <3>2, <3>3
  <2> QED
    BY <2>1, <2>2 DEF WholeAlone
<1> QED
  BY <1>1, <1>2, <1>3 DEF WholeInv

LEMMA WholeServer ==
  ASSUME ThreadInv, DbInv, WholeInv,
         Start \/ InitDir \/ InitDirFails \/ \E f \in DOMAIN Tags : Touch(f)
  PROVE  WholeInv' /\ CommitsLinked
<1>1. UNCHANGED <<dirs, db, cleared, song>>
  BY DEF Start, InitDir, InitDirFails, Touch, shared
<1>2. CASE Start \/ \E f \in DOMAIN Tags : Touch(f)
  <2>1. pc' = pc /\ (Before' => Before)
    BY <1>2 DEF Start, Touch, Before
  <2> QED
    BY <1>1, <2>1, WholeFrame DEF WholeInv
<1>3. CASE InitDirFails
  <2>1. pc' = pc /\ (Before' => Before)
    BY <1>3, NumDirsAssumption DEF InitDirFails, Before
  <2> QED
    BY <1>1, <2>1, WholeFrame DEF WholeInv
<1>4. CASE InitDir
  <2>1. /\ init \in Nat /\ init >= 1 /\ init <= dirs /\ init' = init + 1
        /\ pc' = [pc EXCEPT ![init] = "created"]
    BY <1>4, NumDirsAssumption DEF InitDir, ThreadInv, ThreadTypes, Dirs
  <2>2. Before' => Before
    <3>1. CASE init = 1
      BY <3>1 DEF Before
    <3>2. CASE init # 1
      BY <2>1, <3>2 DEF Before, ThreadInv, ThreadTypes
    <3> QED
      BY <3>1, <3>2
  <2>3. \A d \in Dirs : pc'[d] # "none" => pc[d] # "none" \/ d <= dirs
    BY <2>1 DEF ThreadInv, ThreadTypes
  <2>4. pc'[1] = pc[1] \/ (pc'[1] = "created" /\ pc[1] = "none")
    <3>1. init = 1 => pc[1] = "none"
      BY <2>1, FirstDir DEF ThreadInv, ThreadAt, Unstarted
    <3> QED
      BY <2>1, <3>1, FirstDir DEF ThreadInv, ThreadTypes
  <2> QED
    BY <1>1, <2>2, <2>3, <2>4, WholeFrame DEF InTransaction, InSong
<1> QED
  BY <1>2, <1>3, <1>4

LEMMA WholeQuiet ==
  ASSUME ThreadInv, DbInv, WholeInv, NEW d \in Dirs,
         ReadDir(d) \/ NotConnected(d) \/ ReadTags(d) \/ SkipFile(d) \/ Progress(d)
  PROVE  WholeInv' /\ CommitsLinked
<1>1. UNCHANGED <<dirs, db, cleared, init>>
  BY DEF ReadDir, NotConnected, ReadTags, SkipFile, Progress, shared, server
<1>2. PICK at : pc' = [pc EXCEPT ![d] = at] /\ pc[d] # "none"
                /\ \/ pc[d] = "created" /\ at \in {"begin", "none"}
                   \/ pc[d] \in {"loop", "progress"} /\ at \in {"none", "lock", "progress", "loop"}
  BY DEF ReadDir, NotConnected, ReadTags, SkipFile, Progress, Goto
<1>3. \A e \in Dirs : pc'[e] = IF e = d THEN at ELSE pc[e]
  BY <1>2 DEF ThreadInv, ThreadTypes
<1>4. \A e \in Dirs : e # d => song'[e] = song[e]
  BY DEF ReadDir, NotConnected, ReadTags, SkipFile, Progress, DbInv
<1>5. Before' => Before
  BY <1>1, <1>2, <1>3, FirstDir DEF Before
<1>6. /\ pc'[1] \in InTransaction => pc[1] \in InTransaction
      /\ pc[1] \in InTransaction => \/ pc'[1] = pc[1] /\ song'[1] = song[1]
                                    \/ pc[1] \notin HasSource /\ pc'[1] \notin HasSource
  BY <1>2, <1>3, <1>4, FirstDir DEF InTransaction, InSong, HasSource
<1> QED
  BY <1>1, <1>2, <1>3, <1>5, <1>6, WholeFrame DEF WholeInv

\* The thread that acts is the only one, when there is one directory.
LEMMA OnlyThread ==
  ASSUME WholeInv, dirs = 1, NEW d \in Dirs, pc[d] # "none"
  PROVE  d = 1 /\ (ThreadInv => init \notin {0, 1})
<1>1. d = 1
  BY FirstDir DEF WholeInv
<1>2. ThreadInv => init \notin {0, 1}
  BY <1>1, FirstDir DEF ThreadInv, ThreadAt, Unstarted
<1> QED
  BY <1>1, <1>2

\* The end of a transaction keeps what is in it only if nothing failed.
LEMMA EndOpen ==
  ASSUME NEW d, GoodDb(d), NEW s \in EndTransaction(d)
  PROVE  /\ s.db.tries = d.tries /\ s.db.current = d.current
         /\ s.db.committed = d.committed \/ (s.db.committed = d.rows /\ d.errnum = "ok")
         /\ s.db.rows = s.db.committed \/ ~d.current
<1>1. CASE ~d.current
  BY <1>1 DEF EndTransaction
<1>2. CASE d.current
  <2>1. PICK up \in BOOLEAN, kept \in {d.committed} \cup {r \in {d.rows} : d.errnum = "ok"} :
          s.db = [d EXCEPT !.open = FALSE, !.errnum = "ok", !.rows = kept, !.committed = kept,
                           !.up = up]
    <3> DEFINE Ended(kept, up) == [d EXCEPT !.open = FALSE, !.errnum = "ok", !.rows = kept,
                                            !.committed = kept, !.up = up]
    <3> DEFINE committed == Ended(d.rows, TRUE)
               rolledBack == Ended(d.committed, TRUE)
               lost == Ended(d.committed, FALSE)
               unanswered == Ended(d.rows, FALSE)
    <3>1. CASE d.errnum = "ok"
      <4>1. \/ s = [db |-> committed, status |-> "ok"]
            \/ s = [db |-> lost, status |-> "lost"]
            \/ s = [db |-> unanswered, status |-> "lost"]
        BY <1>2, <3>1 DEF EndTransaction
      <4>2. s.db = committed \/ s.db = lost \/ s.db = unanswered
        <5> HIDE DEF committed, lost, unanswered
        <5> QED
          BY <4>1
      <4>3. CASE s.db = committed
        BY <3>1, <4>3
      <4>4. CASE s.db = lost
        BY <4>4
      <4>5. CASE s.db = unanswered
        BY <3>1, <4>5
      <4> QED
        BY <4>2, <4>3, <4>4, <4>5
    <3>2. CASE d.errnum # "ok"
      <4>1. \/ s = [db |-> rolledBack, status |-> "ok"]
            \/ s = [db |-> lost, status |-> "lost"]
        BY <1>2, <3>2 DEF EndTransaction
      <4>2. s.db = rolledBack \/ s.db = lost
        <5> HIDE DEF rolledBack, lost
        <5> QED
          BY <4>1
      <4>3. CASE s.db = rolledBack
        BY <4>3
      <4>4. CASE s.db = lost
        BY <4>4
      <4> QED
        BY <4>2, <4>3, <4>4
    <3> QED
      BY <3>1, <3>2
  <2> QED
    BY <2>1 DEF GoodDb, Databases
<1> QED
  BY <1>1, <1>2 DEF GoodDb, Databases

LEMMA WholeBegin ==
  ASSUME ThreadInv, DbInv, WholeInv, NEW d \in Dirs, Begin(d)
  PROVE  WholeInv' /\ CommitsLinked
<1>1. PICK s \in StartTransaction(db) :
        db' = s.db /\ Goto(d, IF s.status = "ok" THEN "loop" ELSE "none")
  BY DEF Begin
<1>2. UNCHANGED <<dirs, init, cleared, song>> /\ pc[d] = "begin"
  BY DEF Begin, server
<1>3. pc' = [pc EXCEPT ![d] = IF s.status = "ok" THEN "loop" ELSE "none"]
  BY <1>1 DEF Goto
<1>4. \A e \in Dirs : pc'[e] # "none" => e <= dirs'
  BY <1>2, <1>3 DEF WholeInv, ThreadInv, ThreadTypes
<1>5. ASSUME dirs = 1, ~db'.tries
      PROVE  /\ db'.current /\ db'.open /\ Alone
             /\ s.status = "ok" => db'.committed = db.rows /\ db'.rows = db.rows
             /\ db'.committed = db.committed
  <2>1. db.tries = db'.tries
    <3>1. PICK e \in IF db.open THEN {q.db : q \in EndTransaction(db)} ELSE {db} :
            \E r \in Select(e) :
              s = [db |-> [r.db EXCEPT !.open = TRUE, !.current = TRUE, !.errnum = r.status],
                   status |-> r.status]
      BY <1>1 DEF StartTransaction
    <3>2. GoodDb(e) /\ e.tries = db.tries
      <4>1. CASE ~db.open
        BY <3>1, <4>1 DEF DbInv
      <4>2. CASE db.open
        <5>1. PICK q \in EndTransaction(db) : e = q.db
          BY <3>1, <4>2
        <5>2. q.db.tries = db.tries
          BY <5>1, EndOpen DEF DbInv
        <5> QED
          BY <5>1, <5>2, EndGood DEF DbInv, GoodResult
      <4> QED
        BY <4>1, <4>2
    <3>3. PICK r \in Select(e) :
            s = [db |-> [r.db EXCEPT !.open = TRUE, !.current = TRUE, !.errnum = r.status],
                 status |-> r.status]
      BY <3>1
    <3>4. r.db.tries = e.tries /\ GoodDb(r.db)
      BY <3>2, StatementOpen, SelectGood DEF Select, GoodResult
    <3> QED
      BY <1>1, <3>2, <3>3, <3>4 DEF GoodDb, Databases
  <2>2. Alone /\ ~db.open /\ db.committed = db.rows
    <3>1. Alone
      BY <1>5, <2>1 DEF Alone
    <3> QED
      BY <1>2, <1>5, <3>1, OnlyThread DEF WholeInv, WholeAlone, Before
  <2>3. PICK r \in Select(db) :
          s = [db |-> [r.db EXCEPT !.open = TRUE, !.current = TRUE, !.errnum = r.status],
               status |-> r.status]
    BY <1>1, <2>2 DEF StartTransaction
  <2>4. /\ r.db.rows \in Olds(db) \cup {db.rows}
        /\ r.db.committed \in Olds(db)
    BY <2>3, StatementRows DEF Select, DbInv, Olds
  <2>5. GoodDb(r.db) /\ r.db.rows = db.rows /\ r.db.committed = db.committed
    BY <2>2, <2>3, <2>4, SelectGood DEF DbInv, GoodResult, Olds
  <2> QED
    BY <1>1, <2>2, <2>3, <2>5 DEF GoodDb, Databases
<1>6. CommitsLinked
  BY <1>5 DEF CommitsLinked
<1>7. ASSUME Alone' PROVE WholeAlone'
  <2>1. dirs = 1 /\ ~db'.tries
    BY <1>2, <1>7 DEF Alone
  <2>2. d = 1 /\ init' \notin {0, 1} /\ cleared' = {}
    BY <1>2, <1>5, <2>1, OnlyThread DEF WholeInv, WholeAlone, Before
  <2>3. pc'[1] = IF s.status = "ok" THEN "loop" ELSE "none"
    BY <1>3, <2>2 DEF ThreadInv, ThreadTypes
  <2>4. s.status = "ok" => Pending(1)'
    BY <1>5, <2>1, <2>3 DEF Pending, HasSource
  <2> QED
    BY <1>5, <2>1, <2>2, <2>3, <2>4 DEF WholeAlone, Before, InTransaction, InSong
<1> QED
  BY <1>4, <1>6, <1>7 DEF WholeInv

LEMMA WholeEnd ==
  ASSUME ThreadInv, DbInv, WholeInv, NEW d \in Dirs, End(d)
  PROVE  WholeInv' /\ CommitsLinked
<1>1. PICK errnum \in IF transaction \in cleared THEN Status ELSE {db.errnum} :
        \E s \in EndTransaction([db EXCEPT !.errnum = errnum]) : db' = s.db
  BY DEF End
<1> DEFINE e == [db EXCEPT !.errnum = errnum]
<1>2. PICK s \in EndTransaction(e) : db' = s.db
  BY <1>1
<1>3. errnum \in Status
  BY <1>1 DEF DbInv, GoodDb, Databases
<1>4. /\ GoodDb(e) /\ e.rows = db.rows /\ e.committed = db.committed /\ e.current = db.current
      /\ e.tries = db.tries /\ e.errnum = errnum
  BY <1>3 DEF DbInv, GoodDb, Databases
<1> HIDE DEF e
<1>5. /\ db'.tries = db.tries /\ db'.current = db.current
      /\ db'.committed = db.committed \/ (db'.committed = db.rows /\ errnum = "ok")
  BY <1>2, <1>4, EndOpen
<1>6. /\ UNCHANGED <<dirs, init>> /\ pc' = [pc EXCEPT ![d] = "none"] /\ pc[d] = "loop"
  BY DEF End, Goto, server
<1>7. \A c \in Dirs : pc'[c] # "none" => c <= dirs'
  BY <1>6 DEF WholeInv, ThreadInv, ThreadTypes
<1>8. ASSUME dirs = 1, ~db'.tries PROVE d = 1 /\ WholeAlone /\ init \notin {0, 1}
  BY <1>5, <1>6, <1>8, OnlyThread DEF WholeInv, Alone
<1>9. CommitsLinked
  <2> SUFFICES ASSUME dirs = 1, ~db'.tries,
                      NEW i \in (DOMAIN db'.committed.sources) \ (DOMAIN db.committed.sources)
               PROVE  \E l \in Range(db'.committed.links) : l.sources = i
    BY DEF CommitsLinked
  <2>1. db'.committed = db.rows /\ errnum = "ok"
    BY <1>5
  <2>2. Pending(1) /\ cleared = {} /\ pc[1] = "loop"
    BY <1>6, <1>8 DEF WholeAlone, InTransaction
  <2>3. db.errnum = "ok"
    BY <1>1, <2>1, <2>2
  <2> QED
    BY <2>1, <2>2, <2>3 DEF Pending, Linked, HasSource
<1>10. ASSUME Alone' PROVE WholeAlone'
  <2>1. d = 1 /\ WholeAlone /\ init' \notin {0, 1}
    BY <1>6, <1>8, <1>10 DEF Alone
  <2>2. pc'[1] = "none"
    BY <1>6, <2>1 DEF ThreadInv, ThreadTypes
  <2> QED
    BY <1>5, <2>1, <2>2 DEF WholeAlone, Before, InTransaction, InSong
<1> QED
  BY <1>7, <1>9, <1>10 DEF WholeInv

\* A step of a song, when it is known that it keeps the transaction and what is pending.
LEMMA WholeSong ==
  ASSUME ThreadInv, DbInv, WholeInv, NEW d \in Dirs, pc[d] \in InTransaction,
         NEW at \in InTransaction, pc' = [pc EXCEPT ![d] = at],
         UNCHANGED <<dirs, init, cleared>>,
         ~db'.tries => ~db.tries,
         ~db'.tries /\ db.open /\ Pending(d) => Kept(db, db') /\ Pending(d)'
  PROVE  WholeInv' /\ CommitsLinked
<1>1. \A c \in Dirs : pc'[c] # "none" => c <= dirs'
  <2>1. pc[d] # "none"
    BY DEF InTransaction, InSong
  <2> QED
    BY <2>1 DEF WholeInv, ThreadInv, ThreadTypes
<1>2. ASSUME dirs = 1, ~db'.tries
      PROVE  /\ d = 1 /\ WholeAlone /\ init \notin {0, 1} /\ Kept(db, db')
             /\ Pending(d)' /\ cleared = {}
  <2>1. pc[d] # "none"
    BY DEF InTransaction, InSong
  <2>2. d = 1 /\ WholeAlone /\ init \notin {0, 1}
    BY <1>2, <2>1, OnlyThread DEF WholeInv, Alone
  <2> QED
    BY <1>2, <2>2 DEF WholeAlone
<1>3. CommitsLinked
  BY <1>2 DEF CommitsLinked, Kept
<1>4. ASSUME Alone' PROVE WholeAlone'
  <2>1. /\ d = 1 /\ WholeAlone /\ init' \notin {0, 1} /\ Kept(db, db')
        /\ Pending(d)' /\ cleared' = {}
    BY <1>2, <1>4 DEF Alone
  <2>2. pc'[1] = at /\ pc'[1] \notin {"created", "begin"}
    BY <2>1 DEF ThreadInv, ThreadTypes, InTransaction, InSong
  <2> QED
    BY <2>1, <2>2 DEF WholeAlone, Before, Kept
<1> QED
  BY <1>1, <1>3, <1>4 DEF WholeInv

LEMMA WholeSelect ==
  ASSUME ThreadInv, DbInv, WholeInv, NEW d \in Dirs, SelectMtime(d) \/ Update(d)
  PROVE  WholeInv' /\ CommitsLinked
<1>1. PICK rows : /\ DOMAIN rows.sources = DOMAIN db.rows.sources /\ rows.links = db.rows.links
                  /\ \E s \in Statement(db, rows) : db' = s.db
  <2>1. CASE SelectMtime(d)
    BY <2>1 DEF SelectMtime, Select
  <2>2. CASE Update(d)
    <3>1. PICK rows \in {db.rows} \cup
                        {[db.rows EXCEPT !.sources[i] = Source(d)] : i \in SourceIds(d)} :
            \E s \in Statement(db, rows) : db' = s.db
      BY <2>2 DEF Update
    <3>2. DOMAIN rows.sources = DOMAIN db.rows.sources /\ rows.links = db.rows.links
      BY <3>1, SMTT(20) DEF DbInv, GoodDb, GoodRows, Rows
    <3> QED
      BY <3>1, <3>2
  <2> QED
    BY <2>1, <2>2
<1>2. PICK s \in Statement(db, rows) : db' = s.db
  BY <1>1
<1>3. /\ db'.tries = db.tries /\ (db.open => Remembers(db, s))
      /\ s.status = "ok" => db'.rows = rows
  BY <1>2, StatementOpen DEF DbInv
<1>4. /\ pc[d] \in InTransaction \ HasSource
      /\ \E at \in InTransaction \ HasSource : pc' = [pc EXCEPT ![d] = at]
  BY DEF SelectMtime, Update, Return, Goto, InTransaction, InSong, HasSource
<1>5. PICK at \in InTransaction \ HasSource : pc' = [pc EXCEPT ![d] = at]
  BY <1>4
<1>6. ASSUME db.open, Pending(d) PROVE Kept(db, db') /\ Pending(d)'
  <2>1. Remembers(db, s)
    BY <1>3, <1>6
  <2>2. pc'[d] \notin HasSource
    BY <1>5 DEF ThreadInv, ThreadTypes
  <2> QED
    BY <1>1, <1>2, <1>3, <1>4, <1>6, <2>1, <2>2 DEF Remembers, Kept, Pending, Linked, HasSource
<1>7. UNCHANGED <<dirs, init, cleared>>
  BY DEF SelectMtime, Update, server, shared
<1> QED
  BY <1>3, <1>4, <1>5, <1>6, <1>7, WholeSong

LEMMA WholeAddSource ==
  ASSUME ThreadInv, DbInv, WholeInv, NEW d \in Dirs, AddSource(d)
  PROVE  WholeInv' /\ CommitsLinked
<1>1. PICK s \in insert_db(db, "sources", Source(d)) : Continue(d, s, "sources", "artist")
  BY DEF AddSource
<1>2. GoodRow("sources", Source(d)) /\ pc[d] = "source"
  BY SourceGood DEF AddSource, HasTags, InSong
<1>3. db' = s.db /\ UNCHANGED <<dirs, init, cleared>>
  BY <1>1 DEF Continue, server, shared
<1>4. /\ ~db'.tries => ~db.tries
      /\ ~db'.tries => /\ db.open => Remembers(db, s)
                       /\ s.status = "ok" => /\ db'.rows = Added(db.rows, "sources", Source(d))
                                             /\ s.id = Len(db'.rows["sources"])
  BY <1>1, <1>2, <1>3, insert_dbOpen DEF DbInv
<1>5. PICK at \in {"artist", "progress"} :
        /\ pc' = [pc EXCEPT ![d] = at]
        /\ at = "artist" => s.status = "ok" /\ song' = [song EXCEPT ![d]["sources"] = s.id]
        /\ at = "progress" => s.status # "ok"
  BY <1>1 DEF Continue, Return, Goto
<1>6. ASSUME ~db'.tries, db.open, Pending(d) PROVE Kept(db, db') /\ Pending(d)'
  <2>1. Kept(db, db') /\ (s.status = "ok" <=> db'.errnum = "ok") /\ (s.status = "ok" => db.errnum = "ok")
    BY <1>3, <1>4, <1>6 DEF Remembers
  <2>2. pc'[d] = at
    BY <1>5 DEF ThreadInv, ThreadTypes
  <2>3. CASE at = "progress"
    BY <1>5, <2>1, <2>2, <2>3 DEF Pending, HasSource
  <2>4. CASE at = "artist"
    <3> DEFINE n == Len(db.rows["sources"]) + 1
    <3>1. /\ DOMAIN db'.rows["sources"] = DOMAIN db.rows["sources"] \cup {n}
          /\ Len(db'.rows["sources"]) = n /\ n \in Nat \ {0}
          /\ db'.rows["links"] = db.rows["links"]
      <4>1. GoodRows(db.rows) /\ "links" \in Tables \ {"sources"}
        BY DEF DbInv, GoodDb, Tables
      <4> QED
        BY <1>2, <1>4, <1>5, <1>6, <2>4, <4>1, AddedRows
    <3> HIDE DEF n
    <3>2. song'[d].sources = n
      BY <1>4, <1>5, <1>6, <2>4, <3>1 DEF DbInv, Songs
    <3>3. ASSUME NEW i \in (DOMAIN db'.rows.sources) \ (DOMAIN db'.committed.sources)
          PROVE  Linked(i)' \/ i = n
      <4>1. db.errnum = "ok" /\ db'.committed = db.committed
        BY <1>5, <2>1, <2>4 DEF Kept
      <4> QED
        BY <1>2, <1>6, <3>1, <3>3, <4>1 DEF Pending, HasSource, Linked
    <3> QED
      BY <2>1, <2>2, <2>4, <3>1, <3>2, <3>3 DEF Pending, HasSource, Linked
  <2> QED
    BY <1>5, <2>1, <2>3, <2>4
<1>7. pc[d] \in InTransaction /\ at \in InTransaction
  BY <1>2, <1>5 DEF InTransaction, InSong
<1> QED
  BY <1>3, <1>4, <1>5, <1>6, <1>7, WholeSong

\* A step that finds or adds an artist, an album or a song.
LEMMA WholeContinue ==
  ASSUME ThreadInv, DbInv, WholeInv, NEW d \in Dirs, NEW t \in {"artists", "albums", "songs"},
         NEW at, <<pc[d], t, at>> \in {<<"artist", "artists", "album">>, <<"album", "albums", "song">>,
                                       <<"song", "songs", "link">>},
         NEW row \in Names, NEW found \in SUBSET (Nat \ {0}),
         NEW s \in FindOrAdd(t, found, row), Continue(d, s, t, at)
  PROVE  WholeInv' /\ CommitsLinked
<1>1. db' = s.db /\ UNCHANGED <<dirs, init, cleared>>
  BY DEF Continue, server, shared
<1>2. ~db'.tries => /\ ~db.tries
                    /\ db.open => Remembers(db, s)
                    /\ s.status = "ok" => /\ s.id # 0
                                          /\ db'.rows.sources = db.rows.sources
                                          /\ db'.rows.links = db.rows.links
  BY <1>1, FindOrAddOpen DEF DbInv
<1>3. PICK to \in {at, "progress"} :
        /\ pc' = [pc EXCEPT ![d] = to]
        /\ to # "progress" => s.status = "ok" /\ song' = [song EXCEPT ![d][t] = s.id]
        /\ to = "progress" => s.status # "ok"
  BY DEF Continue, Return, Goto
<1>4. ASSUME ~db'.tries, db.open, Pending(d) PROVE Kept(db, db') /\ Pending(d)'
  <2>1. Kept(db, db') /\ (s.status = "ok" <=> db'.errnum = "ok") /\ (s.status = "ok" => db.errnum = "ok")
    BY <1>1, <1>2, <1>4 DEF Remembers
  <2>2. pc'[d] = to
    BY <1>3 DEF ThreadInv, ThreadTypes
  <2>3. CASE to = "progress"
    BY <1>3, <2>1, <2>2, <2>3 DEF Pending, HasSource
  <2>4. CASE to # "progress"
    <3>1. /\ s.id # 0 /\ db'.rows.sources = db.rows.sources /\ db'.rows.links = db.rows.links
          /\ db.errnum = "ok" /\ db'.committed = db.committed
      BY <1>2, <1>3, <1>4, <2>1, <2>4 DEF Kept
    <3>2. /\ song'[d][t] = s.id
          /\ \A u \in Ids \ {t} : song'[d][u] = song[d][u]
      BY <1>3, <2>4 DEF DbInv, Songs, Ids
    <3>3. song'[d].sources = song[d].sources
      BY <3>2 DEF Ids
    <3>4. \A i \in (DOMAIN db'.rows.sources) \ (DOMAIN db'.committed.sources) :
            Linked(i)' \/ i = song'[d].sources
      BY <1>4, <3>1, <3>3 DEF Pending, Linked
    <3>5. /\ pc'[d] \in HasSource => song'[d].sources # 0
          /\ pc'[d] \in {"album", "song", "link"} => song'[d].artists # 0
          /\ pc'[d] \in {"song", "link"} => song'[d].albums # 0
          /\ pc'[d] = "link" => song'[d].songs # 0
      <4>1. CASE t = "artists"
        BY <1>3, <1>4, <2>2, <2>4, <3>1, <3>2, <4>1 DEF Pending, HasSource, Ids
      <4>2. CASE t = "albums"
        BY <1>3, <1>4, <2>2, <2>4, <3>1, <3>2, <4>2 DEF Pending, HasSource, Ids
      <4>3. CASE t = "songs"
        BY <1>3, <1>4, <2>2, <2>4, <3>1, <3>2, <4>3 DEF Pending, HasSource, Ids
      <4> QED
        BY <4>1, <4>2, <4>3
    <3>6. pc'[d] \in HasSource
      BY <1>3, <2>2, <2>4 DEF HasSource
    <3> QED
      BY <2>1, <3>4, <3>5, <3>6 DEF Pending, Linked
  <2> QED
    BY <2>1, <2>3, <2>4
<1>5. pc[d] \in InTransaction /\ to \in InTransaction
  BY <1>3 DEF InTransaction, InSong
<1> QED
  BY <1>1, <1>2, <1>3, <1>4, <1>5, WholeSong

LEMMA WholeFind ==
  ASSUME ThreadInv, DbInv, WholeInv, NEW d \in Dirs, FindArtist(d) \/ FindAlbum(d) \/ FindSong(d)
  PROVE  WholeInv' /\ CommitsLinked
<1>1. /\ tags(d).artist \in Names /\ tags(d).album \in Names /\ tags(d).title \in Names
  BY NamesGood DEF FindArtist, FindAlbum, FindSong, HasTags, InSong
<1>2. /\ DOMAIN db.rows.artists \subseteq Nat \ {0} /\ DOMAIN db.rows.albums \subseteq Nat \ {0}
      /\ \A l \in Range(db.rows.links) : l.songs \in Nat \ {0}
  <2>1. /\ db.rows.artists \in Seq(Names) /\ db.rows.albums \in Seq(Names)
        /\ db.rows.songs \in Seq(Names)
    BY DEF DbInv, GoodDb, GoodRows, Rows
  <2>2. /\ DOMAIN db.rows.artists \subseteq Nat \ {0} /\ DOMAIN db.rows.albums \subseteq Nat \ {0}
        /\ DOMAIN db.rows.songs \subseteq Nat \ {0}
    BY <2>1, LenProperties
  <2>3. \A l \in Range(db.rows.links) : l.songs \in DOMAIN db.rows.songs
    BY DEF DbInv, GoodDb, GoodRows, Range, Allowed, Ids
  <2> QED
    BY <2>2, <2>3
<1>3. CASE FindArtist(d)
  <2> DEFINE found == {i \in DOMAIN db.rows.artists : db.rows.artists[i] = tags(d).artist}
  <2>1. PICK s \in FindOrAdd("artists", found, tags(d).artist) : Continue(d, s, "artists", "album")
    BY <1>3 DEF FindArtist
  <2>2. /\ found \in SUBSET (Nat \ {0}) /\ pc[d] = "artist"
        /\ "artists" \in {"artists", "albums", "songs"}
        /\ <<pc[d], "artists", "album">> \in {<<"artist", "artists", "album">>,
                                <<"album", "albums", "song">>, <<"song", "songs", "link">>}
    BY <1>2, <1>3 DEF FindArtist
  <2> HIDE DEF found
  <2> QED
    BY <1>1, <2>1, <2>2, WholeContinue
<1>4. CASE FindAlbum(d)
  <2> DEFINE found == {i \in DOMAIN db.rows.albums : db.rows.albums[i] = tags(d).album}
  <2>1. PICK s \in FindOrAdd("albums", found, tags(d).album) : Continue(d, s, "albums", "song")
    BY <1>4 DEF FindAlbum
  <2>2. /\ found \in SUBSET (Nat \ {0}) /\ pc[d] = "album"
        /\ "albums" \in {"artists", "albums", "songs"}
        /\ <<pc[d], "albums", "song">> \in {<<"artist", "artists", "album">>,
                                <<"album", "albums", "song">>, <<"song", "songs", "link">>}
    BY <1>2, <1>4 DEF FindAlbum
  <2> HIDE DEF found
  <2> QED
    BY <1>1, <2>1, <2>2, WholeContinue
<1>5. CASE FindSong(d)
  <2> DEFINE found == {l.songs : l \in {k \in Range(db.rows.links) :
                         /\ k.artists = song[d].artists /\ k.albums = song[d].albums
                         /\ db.rows.songs[k.songs] = tags(d).title}}
  <2>1. PICK s \in FindOrAdd("songs", found, tags(d).title) : Continue(d, s, "songs", "link")
    BY <1>5 DEF FindSong
  <2>2. /\ found \in SUBSET (Nat \ {0}) /\ pc[d] = "song"
        /\ "songs" \in {"artists", "albums", "songs"}
        /\ <<pc[d], "songs", "link">> \in {<<"artist", "artists", "album">>,
                                <<"album", "albums", "song">>, <<"song", "songs", "link">>}
    BY <1>2, <1>5 DEF FindSong
  <2> HIDE DEF found
  <2> QED
    BY <1>1, <2>1, <2>2, WholeContinue
<1> QED
  BY <1>3, <1>4, <1>5

LEMMA WholeAddLink ==
  ASSUME ThreadInv, DbInv, WholeInv, NEW d \in Dirs, AddLink(d)
  PROVE  WholeInv' /\ CommitsLinked
<1> DEFINE link == [artists |-> song[d].artists, albums |-> song[d].albums,
                    songs |-> song[d].songs, sources |-> song[d].sources]
<1>1. GoodRow("links", link)
  BY DEF GoodRow, LinkRows, DbInv, Songs
<1>2. /\ UNCHANGED <<dirs, init, cleared>> /\ pc' = [pc EXCEPT ![d] = "progress"]
      /\ pc[d] = "link"
      /\ IF 0 \in Range(link) THEN UNCHANGED db
         ELSE \E s \in insert_db(db, "links", link) : db' = s.db
  BY DEF AddLink, Return, Goto, server, shared
<1>3. 0 \in Range(link) => 0 \in {song[d].artists, song[d].albums, song[d].songs, song[d].sources}
  BY DEF Range
<1>4. link.sources = song[d].sources
  OBVIOUS
<1> HIDE DEF link
<1>5. ~db'.tries => ~db.tries
  BY <1>1, <1>2, insert_dbOpen DEF DbInv
<1>6. ASSUME ~db'.tries, db.open, Pending(d) PROVE Kept(db, db') /\ Pending(d)'
  <2>1. 0 \notin Range(link)
    BY <1>2, <1>3, <1>6 DEF Pending, HasSource
  <2>2. PICK s \in insert_db(db, "links", link) : db' = s.db
    BY <1>2, <2>1
  <2>3. Remembers(db, s) /\ (s.status = "ok" => db'.rows = Added(db.rows, "links", link))
    BY <1>1, <1>6, <2>2, insert_dbOpen DEF DbInv
  <2>4. pc'[d] = "progress"
    BY <1>2 DEF ThreadInv, ThreadTypes
  <2>5. CASE s.status # "ok"
    BY <2>2, <2>3, <2>4, <2>5 DEF Remembers, Pending, HasSource
  <2>6. CASE s.status = "ok"
    <3>1. /\ db.errnum = "ok" /\ db'.committed = db.committed
      BY <2>2, <2>3, <2>6 DEF Remembers, Kept
    <3>2. /\ db'.rows["sources"] = db.rows["sources"]
          /\ \E n \in DOMAIN db'.rows["links"] : db'.rows["links"][n] = link
          /\ \A i \in DOMAIN db.rows["links"] :
               i \in DOMAIN db'.rows["links"] /\ db'.rows["links"][i] = db.rows["links"][i]
      <4>1. GoodRows(db.rows) /\ "sources" \in Tables \ {"links"}
        BY DEF DbInv, GoodDb, Tables
      <4> QED
        BY <1>1, <2>3, <2>6, <4>1, AddedRows
    <3>3. Range(db.rows.links) \cup {link} \subseteq Range(db'.rows.links)
      BY <3>2 DEF Range
    <3>4. ASSUME NEW i \in (DOMAIN db'.rows.sources) \ (DOMAIN db'.committed.sources)
          PROVE  Linked(i)'
      BY <1>4, <1>6, <3>1, <3>2, <3>3 DEF Pending, Linked
    <3> QED
      BY <2>2, <2>3, <2>4, <3>4 DEF Remembers, Pending, HasSource
  <2> QED
    BY <2>2, <2>3, <2>5, <2>6 DEF Remembers
<1>7. pc[d] \in InTransaction /\ "progress" \in InTransaction
  BY <1>2 DEF InTransaction, InSong
<1> QED
  BY <1>2, <1>5, <1>6, <1>7, WholeSong

LEMMA WholeNext == ThreadInv /\ DbInv /\ WholeInv /\ [Next]_vars => WholeInv' /\ CommitsLinked
<1>1. ASSUME ThreadInv, DbInv, WholeInv, UNCHANGED vars PROVE WholeInv' /\ CommitsLinked
  BY <1>1, WholeFrame DEF vars, server, shared, Before, WholeInv
<1>2. ASSUME ThreadInv, DbInv, WholeInv, NEW d \in Dirs, Thread(d) PROVE WholeInv' /\ CommitsLinked
  BY <1>2, WholeDie, WholeQuiet, WholeBegin, WholeEnd, WholeSelect, WholeAddSource, WholeFind,
     WholeAddLink
  DEF Thread, ReadDirFalls
<1>3. ASSUME ThreadInv, DbInv, WholeInv, Next PROVE WholeInv' /\ CommitsLinked
  BY <1>2, <1>3, WholeServer, WholeDie DEF Next, Stop
<1> QED
  BY <1>1, <1>3

LEMMA WholeInvariant == Spec => []WholeInv
  BY ThreadsInvariant, DbInvariant, WholeInit, WholeNext, PTL DEF Spec

\* With one directory, and as long as no insert met a lost connection, a file and its link
\* are committed together or not at all, whatever fails in between: a failed statement
\* spoils the transaction, and a row that is in a good one has its link at the end of it.
THEOREM FilesAreLinked == Spec => CommitsWhole
<1>1. ThreadInv /\ DbInv /\ WholeInv /\ [Next]_vars => [CommitsLinked]_vars
  BY WholeNext
<1>2. [][CommitsLinked]_vars => CommitsWhole
  BY PTL DEF CommitsLinked, CommitsWhole
<1> QED
  BY <1>1, <1>2, ThreadsInvariant, DbInvariant, WholeInvariant, PTL DEF Spec
=============================================================================
