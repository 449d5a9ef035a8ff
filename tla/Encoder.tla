------------------------------- MODULE Encoder -------------------------------
(***************************************************************************)
(* What an encoder thread does with one job: the decoders of               *)
(* codecs/flac/flac.c and codecs/mp3/mpg123.c fill the requests of         *)
(* ogg_encode (codecs/ogg/ogg_encode.c), which hands the samples to        *)
(* libvorbis, makes packets and pages of them, and writes the pages.       *)
(*                                                                         *)
(* A song is its samples 1 .. Length(song) of one channel, all channels    *)
(* being treated alike.  Two requests may have queued one job twice        *)
(* (module Transcoder), so several threads may write one output file; the  *)
(* input may be replaced between two openings.  libFLAC, libmpg123,        *)
(* libvorbis and libogg are modelled from how this code uses them.         *)
(***************************************************************************)
EXTENDS Integers, Sequences, SequencesExt, FiniteSetsExt

CONSTANTS
  Encoders,     \* the threads that were given the job
  Songs,        \* what the input file may be: [type, ends, total]
  FlacRequest,  \* 1024, the samples a flac file asks for at a time
  Mp3Request,   \* mpg123_safe_buffer in samples
  BlockSize,    \* the samples libvorbis makes a block of
  PagePackets,  \* the packets libogg makes a page of
  Every,        \* 40, the packets after which progress is told
  Faults        \* a subset of {"open", "decode", "format", "write"}

\* The samples at which the frames of a song end, and the number of samples its
\* header declares, which is 0 if it is not known.
ASSUME SongsAssumption ==
  \A s \in Songs :
    /\ s.type \in {"flac", "mp3"} /\ s.total \in Nat
    /\ s.ends \in Seq(Nat) /\ s.ends # << >>
    /\ \A i \in 1 .. Len(s.ends) : s.ends[i] > (IF i = 1 THEN 0 ELSE s.ends[i - 1])
ASSUME SizesAssumption ==
  {FlacRequest, Mp3Request, BlockSize, PagePackets, Every} \subseteq Nat \ {0}

VARIABLES
  at,       \* where in open_input_file, ogg_encode or close_input_file a thread is
  song,     \* the input file as it was when it was opened
  frames,   \* the library has decoded so many frames of a flac file,
  taken,    \* or so many samples of an mp3 file
  gone,     \* the library has given up before the end
  buf, seek, count, flac_eos,   \* flac->buf, buffer_sample_seek, _count, eos
  got,      \* buffer: the samples of the present request
  wrote,    \* all samples handed to libvorbis
  ended,    \* vorbis_analysis_wrote was called with 0
  blocked,  \* the samples in packets
  packets,  \* the packets not yet in a page
  last,     \* the packet that ends the stream was made
  packets_done, progress, eos,  \* of ogg_encode
  pages,    \* the pages written
  file,     \* the output file: who wrote each page of it last
  shared    \* the threads whose file another thread opened or was at meanwhile

decoder == <<song, frames, taken, gone, buf, seek, count, flac_eos>>
encoder == <<wrote, ended, blocked, packets, last>>
told == <<packets_done, progress>>
output == <<pages, file, shared>>
vars == <<at, decoder, got, encoder, told, eos, output>>

Length(s) == s.ends[Len(s.ends)]

\* The samples from a on, up to b.
Samples(a, b) == [i \in 1 .. (b - a) |-> a + i]

\* The samples before frame n + 1.
Before(s, n) == IF n = 0 THEN 0 ELSE s.ends[n]

Request(s) == IF s.type = "flac" THEN FlacRequest ELSE Mp3Request

Goto(e, label) == at' = [at EXCEPT ![e] = label]
Busy == {e \in Encoders : at[e] \notin {"open", "done", "failed"}}

Init ==
  /\ at = [e \in Encoders |-> "open"]
  /\ song \in [Encoders -> Songs]
  /\ frames = [e \in Encoders |-> 0]
  /\ taken = [e \in Encoders |-> 0]
  /\ gone = [e \in Encoders |-> FALSE]
  /\ buf = [e \in Encoders |-> << >>]
  /\ seek = [e \in Encoders |-> 0]
  /\ count = [e \in Encoders |-> 0]
  /\ flac_eos = [e \in Encoders |-> FALSE]
  /\ got = [e \in Encoders |-> << >>]
  /\ wrote = [e \in Encoders |-> << >>]
  /\ ended = [e \in Encoders |-> FALSE]
  /\ blocked = [e \in Encoders |-> 0]
  /\ packets = [e \in Encoders |-> 0]
  /\ last = [e \in Encoders |-> FALSE]
  /\ packets_done = [e \in Encoders |-> 0]
  /\ progress = [e \in Encoders |-> 0]
  /\ eos = [e \in Encoders |-> FALSE]
  /\ pages = [e \in Encoders |-> 0]
  /\ file = << >>
  /\ shared = {}

-----------------------------------------------------------------------------
(* read_flac_file, read_mp3_file *)

\* FLAC__stream_decoder_process_single hands the next frame to flac_write, which
\* makes the buffer anew; or it finds the end, or gives up.
NextFrame(e) ==
  LET a == Before(song[e], frames[e])
      b == Before(song[e], frames[e] + 1) IN
  /\ frames[e] < Len(song[e].ends)
  /\ frames' = [frames EXCEPT ![e] = @ + 1]
  /\ buf' = [buf EXCEPT ![e] = Samples(a, b)]
  /\ seek' = [seek EXCEPT ![e] = 0]
  /\ count' = [count EXCEPT ![e] = b - a]
  /\ UNCHANGED gone
GivesUp(e) ==
  /\ "decode" \in Faults
  /\ gone' = [gone EXCEPT ![e] = TRUE]
  /\ UNCHANGED <<frames, buf, seek, count>>

\* The first frame is decoded at once; whether that worked is not looked at.
OpenFlac(e) ==
  /\ song[e].type = "flac"
  /\ NextFrame(e) \/ GivesUp(e)

OpenMp3(e) ==
  /\ song[e].type = "mp3"
  /\ UNCHANGED <<frames, gone, buf, seek, count>>

\* The file is opened for reading and writing and created if need be, but not
\* truncated; then come the three header packets.
Open(e) ==
  /\ at[e] = "open"
  /\ OpenFlac(e) \/ OpenMp3(e)
  /\ packets' = [packets EXCEPT ![e] = 3]
  /\ shared' = shared \cup {x \in Encoders : at[x] # "open"} \cup (IF Busy = {} THEN {} ELSE {e})
  /\ Goto(e, "loop")
  /\ UNCHANGED <<song, taken, flac_eos, got, wrote, ended, blocked, last, told, eos, pages, file>>

\* One of the two files cannot be opened.
OpenFails(e) ==
  /\ at[e] = "open" /\ "open" \in Faults
  /\ Goto(e, "failed")
  /\ UNCHANGED <<decoder, got, encoder, told, eos, output>>

-----------------------------------------------------------------------------
(* process_flac_file, process_mp3_file *)

\* The head of the loop of ogg_encode, which asks for samples.
Ask(e) ==
  /\ at[e] = "loop" /\ ~eos[e]
  /\ got' = [got EXCEPT ![e] = << >>]
  /\ Goto(e, IF song[e].type = "flac" THEN "flac" ELSE "mp3")
  /\ UNCHANGED <<decoder, encoder, told, eos, output>>

Wanted(e) == Request(song[e]) - Len(got[e])

\* Mutated: what is left of the buffer is not moved forward.
FlacCopy_NoSeek(e) ==
  LET copy == Min({count[e], Wanted(e)}) IN
  /\ at[e] = "flac" /\ Wanted(e) > 0 /\ count[e] > 0
  /\ got' = [got EXCEPT ![e] = @ \o SubSeq(buf[e], seek[e] + 1, seek[e] + copy)]
  /\ count' = [count EXCEPT ![e] = @ - copy]
  /\ UNCHANGED <<at, song, frames, taken, gone, buf, seek, flac_eos, encoder, told, eos, output>>

\* Samples of the frame in the buffer, as many as are there or are asked for.
FlacCopy(e) ==
  LET copy == Min({count[e], Wanted(e)}) IN
  /\ at[e] = "flac" /\ Wanted(e) > 0 /\ count[e] > 0
  /\ got' = [got EXCEPT ![e] = @ \o SubSeq(buf[e], seek[e] + 1, seek[e] + copy)]
  /\ seek' = [seek EXCEPT ![e] = @ + copy]
  /\ count' = [count EXCEPT ![e] = @ - copy]
  /\ UNCHANGED <<at, song, frames, taken, gone, buf, flac_eos, encoder, told, eos, output>>

\* The buffer is empty: the next frame.  A decoder that has given up before says
\* that all is well, without a frame and not at the end, and is asked for ever.
FlacDecode(e) ==
  /\ at[e] = "flac" /\ Wanted(e) > 0 /\ count[e] = 0 /\ ~flac_eos[e] /\ ~gone[e]
  /\ \/ NextFrame(e) /\ UNCHANGED flac_eos
     \/ /\ GivesUp(e)
        /\ flac_eos' = [flac_eos EXCEPT ![e] = TRUE]
     \/ /\ frames[e] = Len(song[e].ends)
        /\ flac_eos' = [flac_eos EXCEPT ![e] = TRUE]
        /\ UNCHANGED <<frames, gone, buf, seek, count>>
  /\ UNCHANGED <<at, song, taken, got, encoder, told, eos, output>>

FlacReturn(e) ==
  /\ at[e] = "flac" /\ (Wanted(e) = 0 \/ (count[e] = 0 /\ flac_eos[e]))
  /\ Goto(e, "wrote")
  /\ UNCHANGED <<decoder, got, encoder, told, eos, output>>

\* A mutated form: the samples that come with the end of the file are dropped.
Mp3Read_DropsRest(e) ==
  LET left == Length(song[e]) - taken[e] IN
  /\ at[e] = "mp3"
  /\ taken' = [taken EXCEPT ![e] = @ + Min({left, Mp3Request})]
  /\ got' = [got EXCEPT ![e] =
       IF left < Mp3Request THEN << >> ELSE Samples(taken[e], taken[e] + Mp3Request)]
  /\ Goto(e, "wrote")
  /\ UNCHANGED <<song, frames, gone, buf, seek, count, flac_eos, encoder, told, eos, output>>

\* mpg123_read fills the buffer, up to the end of the file; another format or
\* another need counts as the end, with whatever was read; an error does not.
Mp3Read(e) ==
  LET left == Length(song[e]) - taken[e]
      done == Min({left, Mp3Request}) IN
  /\ at[e] = "mp3"
  /\ \/ /\ taken' = [taken EXCEPT ![e] = @ + done]
        /\ got' = [got EXCEPT ![e] = Samples(taken[e], taken[e] + done)]
        /\ UNCHANGED gone
     \/ /\ "format" \in Faults /\ left > 0
        /\ gone' = [gone EXCEPT ![e] = TRUE]
        /\ taken' = [taken EXCEPT ![e] = Length(song[e])]
        /\ UNCHANGED got
  /\ Goto(e, "wrote")
  /\ UNCHANGED <<song, frames, buf, seek, count, flac_eos, encoder, told, eos, output>>

-----------------------------------------------------------------------------
(* The rest of the loop of ogg_encode *)

\* What "%.2f" shows of a division by zero is left open.
Percent(s, n) == IF s.total = 0 THEN 0 ELSE (n * 100) \div s.total

\* The samples read are handed to libvorbis; progress is told every so often.
Wrote(e) ==
  /\ at[e] = "wrote" /\ got[e] # << >>
  /\ wrote' = [wrote EXCEPT ![e] = @ \o got[e]]
  /\ IF packets_done[e] >= Every
     THEN /\ progress' = [progress EXCEPT ![e] = Percent(song[e], Len(wrote'[e]))]
          /\ packets_done' = [packets_done EXCEPT ![e] = 0]
     ELSE UNCHANGED told
  /\ Goto(e, "blockout")
  /\ UNCHANGED <<decoder, got, ended, blocked, packets, last, eos, output>>

\* "Input file is done": nothing was read.
WroteEnd(e) ==
  /\ at[e] = "wrote" /\ got[e] = << >>
  /\ ended' = [ended EXCEPT ![e] = TRUE]
  /\ Goto(e, "blockout")
  /\ UNCHANGED <<decoder, got, wrote, blocked, packets, last, told, eos, output>>

Full(e) == Len(wrote[e]) - blocked[e] >= BlockSize

\* vorbis_analysis_blockout: a full block, and the rest once there is no more; the
\* packet of the rest ends the stream.
Blockout(e) ==
  /\ at[e] = "blockout"
  /\ \/ Full(e) /\ blocked' = [blocked EXCEPT ![e] = @ + BlockSize] /\ UNCHANGED last
     \/ /\ ~Full(e) /\ ended[e] /\ ~last[e]
        /\ blocked' = [blocked EXCEPT ![e] = Len(wrote[e])]
        /\ last' = [last EXCEPT ![e] = TRUE]
  /\ packets' = [packets EXCEPT ![e] = @ + 1]
  /\ packets_done' = [packets_done EXCEPT ![e] = @ + 1]
  /\ Goto(e, "pageout")
  /\ UNCHANGED <<decoder, got, wrote, ended, progress, eos, output>>

NoBlock(e) ==
  /\ at[e] = "blockout" /\ ~Full(e) /\ (~ended[e] \/ last[e])
  /\ Goto(e, "loop")
  /\ UNCHANGED <<decoder, got, encoder, told, eos, output>>

\* Mutated: the last packets are left when they do not fill a page.
HasPage_OnlyFull(e) == packets[e] >= PagePackets

\* ogg_stream_pageout: a page is full, or holds the last packet.
HasPage(e) == packets[e] >= PagePackets \/ (last[e] /\ packets[e] > 0)

\* The page goes to the place in the file this thread has come to.
WritePage(e, n) == file' = [i \in 1 .. Max({n, Len(file)}) |-> IF i = n THEN e ELSE file[i]]

Pageout(e) ==
  /\ at[e] = "pageout" /\ ~eos[e] /\ HasPage(e)
  /\ pages' = [pages EXCEPT ![e] = @ + 1]
  /\ WritePage(e, pages[e] + 1)
  /\ packets' = [packets EXCEPT ![e] = @ - Min({@, PagePackets})]
  /\ eos' = [eos EXCEPT ![e] = last[e] /\ packets[e] <= PagePackets]
  /\ UNCHANGED <<at, decoder, got, wrote, ended, blocked, last, told, shared>>

\* Head or body of the page cannot be written: ogg_encode returns at once.
PageFails(e) ==
  /\ at[e] = "pageout" /\ ~eos[e] /\ HasPage(e) /\ "write" \in Faults
  /\ WritePage(e, pages[e] + 1) \/ UNCHANGED file
  /\ Goto(e, "failed")
  /\ UNCHANGED <<decoder, got, encoder, told, eos, pages, shared>>

NoPage(e) ==
  /\ at[e] = "pageout" /\ (eos[e] \/ ~HasPage(e))
  /\ Goto(e, "blockout")
  /\ UNCHANGED <<decoder, got, encoder, told, eos, output>>

\* ogg_encode returns 0, and the input is closed.
Finish(e) ==
  /\ at[e] = "loop" /\ eos[e]
  /\ Goto(e, "done")
  /\ UNCHANGED <<decoder, got, encoder, told, eos, output>>

Step(e) ==
  \/ Open(e) \/ OpenFails(e)
  \/ Ask(e) \/ FlacCopy(e) \/ FlacDecode(e) \/ FlacReturn(e) \/ Mp3Read(e)
  \/ Wrote(e) \/ WroteEnd(e) \/ Blockout(e) \/ NoBlock(e)
  \/ Pageout(e) \/ PageFails(e) \/ NoPage(e) \/ Finish(e)

\* The decoder of a thread gave up at its first frame, and nobody looked.
Unopened(e) == at[e] = "flac" /\ gone[e] /\ frames[e] = 0

Stopped == \A e \in Encoders : at[e] \in {"done", "failed"} \/ Unopened(e)

Next == (\E e \in Encoders : Step(e)) \/ (Stopped /\ UNCHANGED vars)

Spec == Init /\ [][Next]_vars

\* The system runs every thread; libraries return.
FairSpec == Spec /\ \A e \in Encoders : WF_vars(Step(e))

-----------------------------------------------------------------------------
(* Properties *)

TypeOK ==
  /\ at \in [Encoders -> {"open", "loop", "flac", "mp3", "wrote", "blockout", "pageout",
                          "done", "failed"}]
  /\ song \in [Encoders -> Songs]
  /\ {frames, taken, seek, count, blocked, packets, packets_done, progress, pages}
       \subseteq [Encoders -> Nat]
  /\ {gone, flac_eos, ended, last, eos} \subseteq [Encoders -> BOOLEAN]
  /\ {buf, got, wrote} \subseteq [Encoders -> Seq(Nat)]
  /\ file \in Seq(Encoders)
  /\ shared \subseteq Encoders

\* However frames and requests overlap, libvorbis is handed the samples of the song
\* in order, none twice and none left out: what it has, with what this request has
\* read and is yet to hand over, is a beginning of the song.  No request is given
\* more than it has room for, and nothing is read behind the buffer of a frame.
InOrder ==
  \A e \in Encoders :
    LET read == IF at[e] \in {"flac", "wrote"} THEN wrote[e] \o got[e] ELSE wrote[e]
    IN /\ read = Samples(0, Len(read))
       /\ Len(got[e]) <= Request(song[e]) /\ seek[e] + count[e] <= Len(buf[e])

\* An encoder that ends well has handed over the whole song, unless its decoder gave
\* up; all of that is in pages, and if no other thread was at the file meanwhile
\* the file begins with them.
WholeSong ==
  \A e \in Encoders : at[e] = "done" =>
    /\ Len(wrote[e]) = Length(song[e]) \/ gone[e]
    /\ blocked[e] = Len(wrote[e]) /\ packets[e] = 0
    /\ e \in shared \/ \A i \in 1 .. pages[e] : file[i] = e

\* Every encoding comes to an end, good or bad, unless the decoder gives up at the
\* first frame.
EncodingEnds ==
  \A e \in Encoders : at[e] # "open" ~> at[e] \in {"done", "failed"} \/ Unopened(e)

=============================================================================
