------------------------------- MODULE Player -------------------------------
(***************************************************************************)
(* The player of the web client, data/www/javascript/ui/player.js and      *)
(* audio.js: it plays a song once it knows a source of it, asks the server *)
(* for sources, has songs transcoded that have none, and does the same for *)
(* the songs that come next.                                               *)
(*                                                                         *)
(* Every question to the server is a query of its own (MusicQuery with     *)
(* num_results = 0: one request, which is repeated if its answer does not  *)
(* parse), so queries are counted by song.  The playlist is loaded, shown  *)
(* whole and not shuffled: the index of a song is its row.                 *)
(***************************************************************************)
EXTENDS Integers, FiniteSets

CONSTANTS
  NumSongs,   \* songs of the playlist
  NumNext,    \* songs to decode ahead: 4 in the code
  Stored,     \* the songs the server has a source of from the start
  Nothing,    \* null
  MaxPlays    \* bound: the songs users and the end of songs may ask for

Songs == 0 .. NumSongs - 1

ASSUME SongsAssumption == NumSongs \in Nat \ {0} /\ NumNext \in Nat
ASSUME StoredAssumption == Stored \subseteq Songs
ASSUME NothingAssumption == Nothing \notin Songs

VARIABLES
  playing,        \* audio_obj.playing
  next_to_play,   \* audio_obj.next_to_play
  playing_index,  \* player.playing_index
  audio,          \* the song in audio_ele.src
  loading,        \* audio_ele has yet to fire "loadstart"
  sources,        \* the songs with a source
  fetching,       \* for each song, the sources queries in flight
  polling,        \* for each song, the transcode queries in flight
  timers,         \* for each song, the decoding jobs waiting for their timer
  lost,           \* the songs that a query was given up for
  plays           \* songs asked for so far

sound == <<playing, next_to_play, playing_index, audio, loading>>
player_vars == <<sound, sources, fetching, polling, timers, lost, plays>>

PlayerTypeOK ==
  /\ playing \in {0, 1}
  /\ next_to_play \in Songs \cup {Nothing}
  /\ playing_index \in Songs
  /\ audio \in Songs \cup {Nothing}
  /\ loading \in BOOLEAN
  /\ sources \subseteq Songs
  /\ fetching \in [Songs -> Nat] /\ polling \in [Songs -> Nat] /\ timers \in [Songs -> Nat]
  /\ lost \subseteq Songs
  /\ plays \in Nat

PlayerInit ==
  /\ playing = 0 /\ next_to_play = Nothing
  /\ playing_index = 0
  /\ audio = Nothing /\ loading = FALSE
  /\ sources = {}
  /\ fetching = [s \in Songs |-> 0]
  /\ polling = [s \in Songs |-> 0] /\ timers = [s \in Songs |-> 0]
  /\ lost = {}
  /\ plays = 0

-----------------------------------------------------------------------------

OneMore(queries, s) == [queries EXCEPT ![s] = @ + 1]
OneLess(queries, s) == [queries EXCEPT ![s] = @ - 1]

\* How often s is among the next songs after song i: the list is a ring, and may
\* be shorter than NumNext.
TimesNext(i, s) == Cardinality({k \in 1 .. NumNext : (i + k) % NumSongs = s})

\* decode_next_songs: find_playable_source for each of the next songs, where known
\* are the songs with a source and asked the sources queries in flight.
DecodeNext(i, known, asked) ==
  fetching' = [s \in Songs |-> asked[s] + IF s \in known THEN 0 ELSE TimesNext(i, s)]

\* play_song, when the song has a source.
StartSong(s, known, asked) ==
  /\ s \in known
  /\ playing' = 1 /\ next_to_play' = s
  /\ playing_index' = s
  /\ audio' = s /\ loading' = TRUE
  /\ DecodeNext(s, known, asked)

\* play_song, when a source has to be found first.
AwaitSong(s, known, asked) ==
  /\ s \notin known
  /\ playing' = 0 /\ next_to_play' = s
  /\ fetching' = OneMore(asked, s)
  /\ UNCHANGED <<playing_index, audio, loading>>

play_song(s, known, asked) == StartSong(s, known, asked) \/ AwaitSong(s, known, asked)

-----------------------------------------------------------------------------
(* What users, and songs that end, ask for *)

AskFor(s) ==
  /\ plays < MaxPlays
  /\ plays' = plays + 1
  /\ play_song(s, sources, fetching)
  /\ UNCHANGED <<sources, polling, timers, lost>>

\* A song of the list, or the play button the first time.
Click(s) == AskFor(s)

\* The button, or "ended" of the audio element.
NextSong == AskFor((playing_index + 1) % NumSongs)

\* Mutated: no wrapping around before the first song.
PreviousSong_NoWrap == AskFor(playing_index - 1)

\* The code adds the length because the remainder of a negative number is negative.
PreviousSong == AskFor((playing_index - 1 + NumSongs) % NumSongs)

\* "loadstart" of the audio element, which load() causes, later.
LoadStart ==
  /\ loading
  /\ loading' = FALSE
  /\ playing' = 1
  /\ UNCHANGED <<next_to_play, playing_index, audio, sources, fetching, polling, timers,
                 lost, plays>>

-----------------------------------------------------------------------------
(* Answers of the server *)

\* Mutated: the answer starts its song in any case.
SourcesFound_Always(s) ==
  /\ fetching[s] > 0
  /\ sources' = sources \cup {s}
  /\ play_song(s, sources', OneLess(fetching, s))
  /\ UNCHANGED <<polling, timers, lost, plays>>

\* sources_query_loaded with results.
SourcesFound(s) ==
  /\ fetching[s] > 0
  /\ sources' = sources \cup {s}
  /\ \/ playing = 0 /\ next_to_play # Nothing /\ play_song(s, sources', OneLess(fetching, s))
     \/ /\ playing = 1 \/ next_to_play = Nothing
        /\ fetching' = OneLess(fetching, s)
        /\ UNCHANGED sound
  /\ UNCHANGED <<polling, timers, lost, plays>>

\* Mutated: a song that is waited for is not transcoded.
NoSources_NotNext(s) ==
  /\ fetching[s] > 0 /\ s \notin Stored
  /\ fetching' = OneLess(fetching, s)
  /\ polling' = IF next_to_play = s THEN polling ELSE OneMore(polling, s)
  /\ UNCHANGED <<sound, sources, timers, lost, plays>>

\* sources_query_loaded without results: a decoding_job, which asks at once.
NoSources(s) ==
  /\ fetching[s] > 0 /\ s \notin Stored
  /\ fetching' = OneLess(fetching, s)
  /\ polling' = OneMore(polling, s)
  /\ UNCHANGED <<sound, sources, timers, lost, plays>>

\* update_decoding_status below 100: the job asks again after a while.
Progress(s) ==
  /\ polling[s] > 0
  /\ polling' = OneLess(polling, s)
  /\ timers' = OneMore(timers, s)
  /\ UNCHANGED <<sound, sources, fetching, lost, plays>>

\* Mutated: the timer of a job ends without another query.
Refresh_Once(s) ==
  /\ timers[s] > 0
  /\ timers' = OneLess(timers, s)
  /\ UNCHANGED <<sound, sources, fetching, polling, lost, plays>>

Refresh(s) ==
  /\ timers[s] > 0
  /\ timers' = OneLess(timers, s)
  /\ polling' = OneMore(polling, s)
  /\ UNCHANGED <<sound, sources, fetching, lost, plays>>

\* update_decoding_status at 100: the job is over and its song has a source.
Transcoded(s) ==
  /\ polling[s] > 0
  /\ polling' = OneLess(polling, s)
  /\ sources' = sources \cup {s}
  /\ \/ playing = 0 /\ next_to_play = s /\ play_song(s, sources', fetching)
     \/ (playing = 1 \/ next_to_play # s) /\ UNCHANGED <<sound, fetching>>
  /\ UNCHANGED <<timers, lost, plays>>

\* An answer music_query.process makes nothing of: another status than 200, or
\* none of the rows asked for.  The query is given up.
Useless(s) ==
  /\ \/ fetching[s] > 0 /\ fetching' = OneLess(fetching, s) /\ UNCHANGED polling
     \/ polling[s] > 0 /\ polling' = OneLess(polling, s) /\ UNCHANGED fetching
  /\ lost' = lost \cup {s}
  /\ UNCHANGED <<sound, sources, timers, plays>>

SourcesAnswer(s) == SourcesFound(s) \/ NoSources(s)
TranscodeAnswer(s) == Progress(s) \/ Transcoded(s)

PlayerNext ==
  \/ \E s \in Songs : Click(s)
  \/ NextSong \/ PreviousSong
  \/ LoadStart
  \/ \E s \in Songs : SourcesAnswer(s) \/ TranscodeAnswer(s) \/ Refresh(s) \/ Useless(s)

PlayerSpec == PlayerInit /\ [][PlayerNext]_player_vars

\* The server answers, timers fire, and a job is transcoded that is asked for again
\* and again.
PlayerFairSpec ==
  /\ PlayerSpec
  /\ \A s \in Songs :
       /\ WF_player_vars(SourcesAnswer(s))
       /\ WF_player_vars(TranscodeAnswer(s))
       /\ WF_player_vars(Refresh(s))
       /\ SF_player_vars(Transcoded(s))

-----------------------------------------------------------------------------
(* Properties *)

\* The song that is waited for is on its way: a query for its sources, a decoding
\* job or the timer of one is outstanding, unless the server's answer to one was
\* of no use.
AwaitedIsOnItsWay ==
  playing = 0 /\ next_to_play # Nothing =>
    \/ fetching[next_to_play] + polling[next_to_play] + timers[next_to_play] > 0
    \/ next_to_play \in lost

\* Answers for songs fetched ahead do not cut off the song that plays: while one
\* plays, only a user, or its end, loads another into the audio element.
AnswersDoNotInterrupt ==
  [][playing = 1 /\ plays' = plays => audio' = audio /\ playing_index' = playing_index]_player_vars

\* What is asked for leads to a song that plays.
SomethingPlays ==
  next_to_play # Nothing ~> playing = 1 \/ lost # {}

=============================================================================
