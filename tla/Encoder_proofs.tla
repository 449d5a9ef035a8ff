--------------------------- MODULE Encoder_proofs ---------------------------
(***************************************************************************)
(* What holds of encodings for every number of threads, songs of any       *)
(* frames, and any sizes of requests, blocks and pages, proved with TLAPS. *)
(***************************************************************************)
EXTENDS Encoder, SequenceTheorems, TLAPS

(* Sequences of samples *)

\* s has the samples behind a, in their order.
Follows(s, a) == \A i \in 1 .. Len(s) : s[i] = a + i

LEMMA SamplesFacts ==
  ASSUME NEW a \in Nat, NEW b \in Nat, a <= b
  PROVE  /\ Samples(a, b) \in Seq(Nat)
         /\ Len(Samples(a, b)) = b - a
         /\ Follows(Samples(a, b), a)
<1>1. \A i \in 1 .. (b - a) : a + i \in Nat
  OBVIOUS
<1>2. b - a \in Nat
  OBVIOUS
<1>3. QED
  BY <1>1, <1>2 DEF Samples, Follows

LEMMA FollowsIsSamples ==
  ASSUME NEW s \in Seq(Nat), Follows(s, 0)
  PROVE  s = Samples(0, Len(s))
<1>1. Len(s) \in Nat
  BY LenProperties
<1>2. Samples(0, Len(s)) \in Seq(Nat) /\ Len(Samples(0, Len(s))) = Len(s)
      /\ Follows(Samples(0, Len(s)), 0)
  BY <1>1, SamplesFacts
<1>3. \A i \in 1 .. Len(s) : s[i] = Samples(0, Len(s))[i]
  BY <1>2 DEF Follows
<1>4. QED
  BY <1>2, <1>3, SeqEqual

LEMMA FollowsConcat ==
  ASSUME NEW s \in Seq(Nat), NEW t \in Seq(Nat), NEW a \in Nat,
         Follows(s, a), Follows(t, a + Len(s))
  PROVE  /\ s \o t \in Seq(Nat) /\ Len(s \o t) = Len(s) + Len(t)
         /\ Follows(s \o t, a)
<1>1. Len(s) \in Nat /\ Len(t) \in Nat
  BY LenProperties
<1>2. /\ s \o t \in Seq(Nat) /\ Len(s \o t) = Len(s) + Len(t)
      /\ \A i \in 1 .. Len(s) + Len(t) :
           (s \o t)[i] = IF i <= Len(s) THEN s[i] ELSE t[i - Len(s)]
  BY ConcatProperties
<1>3. \A i \in 1 .. Len(s) + Len(t) : (s \o t)[i] = a + i
  <2> TAKE i \in 1 .. Len(s) + Len(t)
  <2>1. CASE i <= Len(s)
    BY <1>1, <1>2, <2>1 DEF Follows
  <2>2. CASE i > Len(s)
    <3>1. i - Len(s) \in 1 .. Len(t)
      BY <1>1, <2>2
    <3>2. t[i - Len(s)] = (a + Len(s)) + (i - Len(s))
      BY <3>1 DEF Follows
    <3>3. QED
      BY <1>1, <1>2, <2>2, <3>2
  <2>3. QED
    BY <1>1, <2>1, <2>2
<1>4. QED
  BY <1>2, <1>3 DEF Follows

\* A part of it that begins behind k of its samples and has n.
LEMMA FollowsSubSeq ==
  ASSUME NEW s \in Seq(Nat), NEW a \in Nat, Follows(s, a),
         NEW k \in Nat, NEW n \in Nat, k + n <= Len(s)
  PROVE  /\ SubSeq(s, k + 1, k + n) \in Seq(Nat)
         /\ Len(SubSeq(s, k + 1, k + n)) = n
         /\ Follows(SubSeq(s, k + 1, k + n), a + k)
<1>1. Len(s) \in Nat
  BY LenProperties
<1>2. \A i \in k + 1 .. k + n : i \in 1 .. Len(s)
  BY <1>1
<1>3. \A i \in k + 1 .. k + n : s[i] \in Nat
  BY <1>2, ElementOfSeq
<1>4. k + 1 \in Int /\ k + n \in Int
  OBVIOUS
<1>5. /\ SubSeq(s, k + 1, k + n) \in Seq(Nat)
      /\ Len(SubSeq(s, k + 1, k + n)) = IF k + 1 <= k + n THEN (k + n) - (k + 1) + 1 ELSE 0
      /\ \A i \in 1 .. (k + n) - (k + 1) + 1 : SubSeq(s, k + 1, k + n)[i] = s[(k + 1) + i - 1]
  BY <1>3, <1>4, SubSeqProperties
<1>6. Len(SubSeq(s, k + 1, k + n)) = n /\ (k + n) - (k + 1) + 1 = n
  BY <1>5
<1>7. \A i \in 1 .. n : SubSeq(s, k + 1, k + n)[i] = (a + k) + i
  <2> TAKE i \in 1 .. n
  <2>1. SubSeq(s, k + 1, k + n)[i] = s[k + i] /\ k + i \in 1 .. Len(s)
    <3>1. (k + 1) + i - 1 = k + i
      OBVIOUS
    <3>2. QED
      BY <1>1, <1>5, <1>6, <3>1
  <2>2. QED
    BY <2>1 DEF Follows
<1>8. QED
  BY <1>5, <1>6, <1>7 DEF Follows

LEMMA MinFacts ==
  ASSUME NEW a \in Nat, NEW b \in Nat
  PROVE  Min({a, b}) = IF a <= b THEN a ELSE b
<1>1. (IF a <= b THEN a ELSE b) \in {a, b}
      /\ \A y \in {a, b} : (IF a <= b THEN a ELSE b) <= y
  OBVIOUS
<1>2. \A x \in {a, b} : (\A y \in {a, b} : x <= y) => x = IF a <= b THEN a ELSE b
  OBVIOUS
<1>3. QED
  BY <1>1, <1>2 DEF Min

LEMMA MaxFacts ==
  ASSUME NEW a \in Nat, NEW b \in Nat
  PROVE  Max({a, b}) = IF a >= b THEN a ELSE b
<1>1. (IF a >= b THEN a ELSE b) \in {a, b}
      /\ \A y \in {a, b} : (IF a >= b THEN a ELSE b) >= y
  OBVIOUS
<1>2. \A x \in {a, b} : (\A y \in {a, b} : x >= y) => x = IF a >= b THEN a ELSE b
  OBVIOUS
<1>3. QED
  BY <1>1, <1>2 DEF Max

LEMMA SongFacts ==
  ASSUME NEW s \in Songs
  PROVE  /\ s.type \in {"flac", "mp3"} /\ s.total \in Nat
         /\ Len(s.ends) \in Nat \ {0}
         /\ \A n \in 0 .. Len(s.ends) : Before(s, n) \in Nat
         /\ \A n \in 0 .. Len(s.ends) - 1 : Before(s, n) < Before(s, n + 1)
         /\ Length(s) = Before(s, Len(s.ends)) /\ Length(s) \in Nat
         /\ Before(s, 0) = 0
         /\ Request(s) \in Nat \ {0}
<1>1. /\ s.type \in {"flac", "mp3"} /\ s.total \in Nat
      /\ s.ends \in Seq(Nat) /\ s.ends # << >>
      /\ \A i \in 1 .. Len(s.ends) : s.ends[i] > (IF i = 1 THEN 0 ELSE s.ends[i - 1])
  BY SongsAssumption
<1>2. Len(s.ends) \in Nat \ {0}
  BY <1>1, EmptySeq
<1>3. \A n \in 1 .. Len(s.ends) : s.ends[n] \in Nat
  BY <1>1, ElementOfSeq
<1>4. \A n \in 0 .. Len(s.ends) : Before(s, n) \in Nat
  BY <1>2, <1>3 DEF Before
<1>5. ASSUME NEW n \in 0 .. Len(s.ends) - 1 PROVE Before(s, n) < Before(s, n + 1)
  <2>1. n + 1 \in 1 .. Len(s.ends) /\ n + 1 # 0 /\ (n + 1 = 1 <=> n = 0) /\ (n + 1) - 1 = n
    BY <1>2
  <2>2. s.ends[n + 1] > (IF n + 1 = 1 THEN 0 ELSE s.ends[(n + 1) - 1])
    BY <1>1, <2>1
  <2>3. QED
    BY <1>2, <1>3, <2>1, <2>2 DEF Before
<1>6. Length(s) = Before(s, Len(s.ends)) /\ Length(s) \in Nat /\ Before(s, 0) = 0
  BY <1>2, <1>3 DEF Length, Before
<1>7. Request(s) \in Nat \ {0}
  BY SizesAssumption DEF Request
<1>8. QED
  BY <1>1, <1>2, <1>4, <1>5, <1>6, <1>7

-----------------------------------------------------------------------------
(* The inductive invariant *)

InRequest == {"flac", "wrote"}

\* What this request has read and has yet to hand over.
Pending(e) == IF at[e] \in InRequest THEN Len(got[e]) ELSE 0

\* What is left of the buffer is the end of the last frame.
Frame(e) ==
  /\ frames[e] <= Len(song[e].ends) /\ taken[e] <= Length(song[e])
  /\ seek[e] + count[e] = Len(buf[e])
  /\ frames[e] = 0 => Len(buf[e]) = 0
  /\ frames[e] > 0 =>
       /\ Follows(buf[e], Before(song[e], frames[e] - 1))
       /\ Len(buf[e]) = Before(song[e], frames[e]) - Before(song[e], frames[e] - 1)
  /\ flac_eos[e] => gone[e] \/ frames[e] = Len(song[e].ends)

\* What was handed over, with what is pending, is what the decoder has come to.
Order(e) ==
  /\ at[e] = "open" => frames[e] = 0
  /\ at[e] = "flac" => song[e].type = "flac"
  /\ at[e] = "mp3" => song[e].type = "mp3" /\ got[e] = << >>
  /\ Len(got[e]) <= Request(song[e])
  /\ Follows(wrote[e], 0)
  /\ at[e] \in InRequest => Follows(got[e], Len(wrote[e]))
  /\ song[e].type = "flac" =>
       Len(wrote[e]) + Pending(e) + count[e] = Before(song[e], frames[e])
  /\ song[e].type = "mp3" =>
       /\ gone[e] \/ Len(wrote[e]) + Pending(e) = taken[e]
       /\ gone[e] => taken[e] = Length(song[e])

\* The decoder has no more samples.
Dry(e) == IF song[e].type = "flac" THEN count[e] = 0 /\ flac_eos[e]
          ELSE taken[e] = Length(song[e])

\* An empty request is the end of the song; the last packet is behind all samples, and
\* the last page behind the last packet.
Ending(e) ==
  /\ at[e] = "open" => ~ended[e]
  /\ at[e] = "wrote" /\ got[e] = << >> => Dry(e)
  /\ ended[e] => Dry(e) /\ got[e] = << >>
  /\ last[e] => ended[e] /\ blocked[e] = Len(wrote[e])
  /\ blocked[e] <= Len(wrote[e])
  /\ eos[e] => last[e] /\ packets[e] = 0
  /\ at[e] = "done" => eos[e]

\* A thread that shares its file with no other has all the pages it wrote.
Pages(e) ==
  /\ pages[e] <= Len(file) /\ (at[e] = "open" => pages[e] = 0)
  /\ at[e] \notin {"open", "failed"} /\ e \notin shared =>
       /\ \A x \in Encoders : x = e \/ at[x] \in {"open", "done", "failed"}
       /\ \A i \in 1 .. pages[e] : file[i] = e

EncoderInv == TypeOK /\ \A e \in Encoders : Frame(e) /\ Order(e) /\ Ending(e) /\ Pages(e)

LEMMA EncoderInit == Init => EncoderInv
<1> SUFFICES ASSUME Init PROVE EncoderInv
  OBVIOUS
<1> USE DEF Init
<1>1. TypeOK
  BY EmptySeq DEF TypeOK
<1>2. ASSUME NEW e \in Encoders PROVE Frame(e) /\ Order(e) /\ Ending(e) /\ Pages(e)
  <2>1. song[e] \in Songs /\ Len(got[e]) = 0 /\ Len(wrote[e]) = 0 /\ Len(buf[e]) = 0
    BY EmptySeq
  <2>2. Before(song[e], 0) = 0 /\ Length(song[e]) \in Nat
    BY <2>1, SongFacts
  <2>3. Frame(e)
    BY <2>1, <2>2, SongFacts DEF Frame
  <2>4. Order(e)
    BY <2>1, <2>2, SongFacts DEF Order, Pending, InRequest, Follows
  <2>5. Ending(e) /\ Pages(e)
    BY <2>1 DEF Ending, Pages
  <2>6. QED
    BY <2>3, <2>4, <2>5
<1>3. QED
  BY <1>1, <1>2 DEF EncoderInv

-----------------------------------------------------------------------------
(* What the steps have in common *)

\* The types of one thread's variables.
LEMMA ThreadTypes ==
  ASSUME TypeOK, NEW e \in Encoders
  PROVE  /\ song[e] \in Songs
         /\ buf[e] \in Seq(Nat) /\ got[e] \in Seq(Nat) /\ wrote[e] \in Seq(Nat)
         /\ Len(buf[e]) \in Nat /\ Len(got[e]) \in Nat /\ Len(wrote[e]) \in Nat
         /\ {frames[e], taken[e], seek[e], count[e], blocked[e], packets[e], pages[e]} \subseteq Nat
<1>1. buf[e] \in Seq(Nat) /\ got[e] \in Seq(Nat) /\ wrote[e] \in Seq(Nat)
  BY DEF TypeOK
<1>2. Len(buf[e]) \in Nat /\ Len(got[e]) \in Nat /\ Len(wrote[e]) \in Nat
  BY <1>1, LenProperties
<1>3. QED
  BY <1>1, <1>2 DEF TypeOK

LEMMA Functions ==
  ASSUME TypeOK
  PROVE  /\ frames \in [Encoders -> Nat] /\ taken \in [Encoders -> Nat] /\ seek \in [Encoders -> Nat]
         /\ count \in [Encoders -> Nat] /\ blocked \in [Encoders -> Nat] /\ packets \in [Encoders -> Nat]
         /\ packets_done \in [Encoders -> Nat] /\ progress \in [Encoders -> Nat]
         /\ pages \in [Encoders -> Nat]
         /\ gone \in [Encoders -> BOOLEAN] /\ flac_eos \in [Encoders -> BOOLEAN]
         /\ ended \in [Encoders -> BOOLEAN] /\ last \in [Encoders -> BOOLEAN]
         /\ eos \in [Encoders -> BOOLEAN]
         /\ buf \in [Encoders -> Seq(Nat)] /\ got \in [Encoders -> Seq(Nat)]
         /\ wrote \in [Encoders -> Seq(Nat)]
         /\ DOMAIN at = Encoders
BY DEF TypeOK

\* A frame is decoded into a buffer of its own.
LEMMA NextFrameFacts ==
  ASSUME TypeOK, NEW e \in Encoders, NextFrame(e)
  PROVE  /\ frames[e] < Len(song[e].ends)
         /\ frames' = [frames EXCEPT ![e] = frames[e] + 1]
         /\ \E new \in Seq(Nat) :
              /\ buf' = [buf EXCEPT ![e] = new]
              /\ Follows(new, Before(song[e], frames[e]))
              /\ Len(new) = Before(song[e], frames[e] + 1) - Before(song[e], frames[e])
              /\ count' = [count EXCEPT ![e] = Len(new)]
         /\ seek' = [seek EXCEPT ![e] = 0]
         /\ gone' = gone
<1>1. song[e] \in Songs /\ frames[e] \in Nat
  BY ThreadTypes
<1>2. frames[e] < Len(song[e].ends)
  BY DEF NextFrame
<1>3. PICK b \in Nat, c \in Nat :
        b = Before(song[e], frames[e]) /\ c = Before(song[e], frames[e] + 1) /\ b <= c
  <2>1. /\ frames[e] \in 0 .. Len(song[e].ends) - 1
        /\ frames[e] \in 0 .. Len(song[e].ends) /\ frames[e] + 1 \in 0 .. Len(song[e].ends)
    BY <1>1, <1>2, SongFacts
  <2>2. /\ Before(song[e], frames[e]) \in Nat /\ Before(song[e], frames[e] + 1) \in Nat
        /\ Before(song[e], frames[e]) < Before(song[e], frames[e] + 1)
    BY <1>1, <2>1, SongFacts
  <2>3. QED
    BY <2>2
<1>4. Samples(b, c) \in Seq(Nat) /\ Len(Samples(b, c)) = c - b /\ Follows(Samples(b, c), b)
  BY <1>3, SamplesFacts
<1>5. buf' = [buf EXCEPT ![e] = Samples(b, c)] /\ count' = [count EXCEPT ![e] = c - b]
      /\ seek' = [seek EXCEPT ![e] = 0] /\ gone' = gone
      /\ frames' = [frames EXCEPT ![e] = frames[e] + 1]
  BY <1>3 DEF NextFrame
<1>6. QED
  BY <1>2, <1>3, <1>4, <1>5

\* What is copied from the buffer follows what the request has.
LEMMA FlacCopyFacts ==
  ASSUME TypeOK, NEW e \in Encoders, Frame(e), Order(e), FlacCopy(e)
  PROVE  \E n \in Nat \ {0}, new \in Seq(Nat) :
           /\ Len(new) = Len(got[e]) + n
           /\ Follows(new, Len(wrote[e]))
           /\ Len(new) <= Request(song[e])
           /\ n <= count[e]
           /\ got' = [got EXCEPT ![e] = new]
           /\ seek' = [seek EXCEPT ![e] = seek[e] + n]
           /\ count' = [count EXCEPT ![e] = count[e] - n]
<1>1. /\ song[e] \in Songs /\ Len(buf[e]) \in Nat /\ Len(got[e]) \in Nat /\ Len(wrote[e]) \in Nat
      /\ buf[e] \in Seq(Nat) /\ got[e] \in Seq(Nat)
      /\ frames[e] \in Nat /\ seek[e] \in Nat /\ count[e] \in Nat
  BY ThreadTypes
<1>2. at[e] = "flac" /\ Wanted(e) > 0 /\ count[e] > 0 /\ Request(song[e]) \in Nat \ {0}
  BY <1>1, SongFacts DEF FlacCopy
<1>3. Wanted(e) = Request(song[e]) - Len(got[e]) /\ Wanted(e) \in Nat
  BY <1>1, <1>2 DEF Wanted
<1>4. PICK n \in Nat \ {0} : /\ n = Min({count[e], Wanted(e)})
                             /\ n <= count[e] /\ n <= Request(song[e]) - Len(got[e])
  <2>1. Min({count[e], Wanted(e)}) = IF count[e] <= Wanted(e) THEN count[e] ELSE Wanted(e)
    BY <1>1, <1>3, MinFacts
  <2>2. QED
    BY <1>1, <1>2, <1>3, <2>1
<1>5. PICK a \in Nat : /\ Follows(buf[e], a) /\ seek[e] + n <= Len(buf[e])
                       /\ a + seek[e] = Len(wrote[e]) + Len(got[e])
  <2>1. frames[e] > 0 /\ frames[e] <= Len(song[e].ends) /\ seek[e] + count[e] = Len(buf[e])
    BY <1>1, <1>2 DEF Frame
  <2>2. frames[e] - 1 \in 0 .. Len(song[e].ends) /\ frames[e] \in 0 .. Len(song[e].ends)
    BY <1>1, <2>1, SongFacts
  <2>3. PICK a \in Nat, c \in Nat : a = Before(song[e], frames[e] - 1) /\ c = Before(song[e], frames[e])
    BY <1>1, <2>2, SongFacts
  <2>4. Follows(buf[e], a) /\ Len(buf[e]) = c - a
    BY <2>1, <2>3 DEF Frame
  <2>5. Len(wrote[e]) + Len(got[e]) + count[e] = c
    BY <1>2, <2>3 DEF Order, Pending, InRequest
  <2>6. seek[e] + n <= Len(buf[e]) /\ a + seek[e] = Len(wrote[e]) + Len(got[e])
    <3>1. seek[e] + n <= Len(buf[e])
      BY <1>1, <1>4, <2>1
    <3>2. PICK w \in Nat, g \in Nat, k \in Nat, q \in Nat :
            w = Len(wrote[e]) /\ g = Len(got[e]) /\ k = seek[e] /\ q = count[e]
      BY <1>1
    <3>3. k + q = c - a /\ w + g + q = c
      BY <2>1, <2>4, <2>5, <3>2
    <3>4. a + k = w + g
      BY <3>3
    <3>5. QED
      BY <3>1, <3>2, <3>4
  <2>7. QED
    BY <2>4, <2>6
<1>6. PICK part \in Seq(Nat) : /\ part = SubSeq(buf[e], seek[e] + 1, seek[e] + n)
                               /\ Len(part) = n /\ Follows(part, a + seek[e])
  <2>1. n \in Nat
    OBVIOUS
  <2>2. /\ SubSeq(buf[e], seek[e] + 1, seek[e] + n) \in Seq(Nat)
        /\ Len(SubSeq(buf[e], seek[e] + 1, seek[e] + n)) = n
        /\ Follows(SubSeq(buf[e], seek[e] + 1, seek[e] + n), a + seek[e])
    BY <1>1, <1>5, <2>1, FollowsSubSeq
  <2>3. QED
    BY <2>2
<1>7. Follows(got[e], Len(wrote[e])) /\ Follows(part, Len(wrote[e]) + Len(got[e]))
  BY <1>2, <1>5, <1>6 DEF Order, InRequest
<1>8. /\ got[e] \o part \in Seq(Nat) /\ Len(got[e] \o part) = Len(got[e]) + n
      /\ Follows(got[e] \o part, Len(wrote[e]))
  <2>1. PICK w \in Nat : w = Len(wrote[e])
    BY <1>1
  <2>2. PICK s \in Seq(Nat) : s = got[e]
    BY <1>1
  <2>3. Follows(s, w) /\ Follows(part, w + Len(s))
    BY <1>7, <2>1, <2>2
  <2>4. s \o part \in Seq(Nat) /\ Len(s \o part) = Len(s) + Len(part) /\ Follows(s \o part, w)
    BY <2>3, FollowsConcat
  <2>5. QED
    BY <1>6, <2>1, <2>2, <2>4
<1>9. /\ got' = [got EXCEPT ![e] = got[e] \o part]
      /\ seek' = [seek EXCEPT ![e] = seek[e] + n]
      /\ count' = [count EXCEPT ![e] = count[e] - n]
  BY <1>4, <1>6 DEF FlacCopy
<1>10. Len(got[e]) + n <= Request(song[e])
  BY <1>1, <1>2, <1>4
<1>11. QED
  BY <1>4, <1>8, <1>9, <1>10

\* What an mp3 request is given follows what was handed over.
LEMMA Mp3ReadFacts ==
  ASSUME TypeOK, NEW e \in Encoders, Frame(e), Order(e), Mp3Read(e)
  PROVE  \/ \E n \in Nat, new \in Seq(Nat) :
              /\ Len(new) = n /\ n <= Request(song[e])
              /\ Follows(new, taken[e])
              /\ taken[e] + n <= Length(song[e])
              /\ n = 0 => taken[e] = Length(song[e])
              /\ got' = [got EXCEPT ![e] = new]
              /\ taken' = [taken EXCEPT ![e] = taken[e] + n]
              /\ gone' = gone
         \/ /\ gone' = [gone EXCEPT ![e] = TRUE]
            /\ taken' = [taken EXCEPT ![e] = Length(song[e])]
            /\ got' = got
<1>1. song[e] \in Songs /\ taken[e] \in Nat
  BY ThreadTypes
<1>2. Length(song[e]) \in Nat /\ Mp3Request \in Nat \ {0}
  BY <1>1, SongFacts, SizesAssumption
<1>3. PICK left \in Nat : left = Length(song[e]) - taken[e]
  BY <1>1, <1>2 DEF Frame
<1>4. PICK n \in Nat : /\ n = Min({left, Mp3Request})
                       /\ n <= left /\ n <= Mp3Request /\ (n = 0 => left = 0)
  <2>1. Min({left, Mp3Request}) = IF left <= Mp3Request THEN left ELSE Mp3Request
    BY <1>2, MinFacts
  <2>2. QED
    BY <1>2, <2>1
<1>5. Request(song[e]) = Mp3Request
  BY DEF Order, Mp3Read, Request
<1>6. CASE /\ taken' = [taken EXCEPT ![e] = @ + n]
           /\ got' = [got EXCEPT ![e] = Samples(taken[e], taken[e] + n)]
           /\ gone' = gone
  <2>1. PICK b \in Nat : b = taken[e] + n
    BY <1>1
  <2>2. PICK new \in Seq(Nat) : /\ new = Samples(taken[e], b)
                                /\ Len(new) = b - taken[e] /\ Follows(new, taken[e])
    <3>1. taken[e] <= b
      BY <1>1, <2>1
    <3>2. /\ Samples(taken[e], b) \in Seq(Nat) /\ Len(Samples(taken[e], b)) = b - taken[e]
          /\ Follows(Samples(taken[e], b), taken[e])
      BY <1>1, <2>1, <3>1, SamplesFacts
    <3>3. QED
      BY <3>2
  <2>3. Len(new) = n /\ taken[e] + n <= Length(song[e]) /\ (n = 0 => taken[e] = Length(song[e]))
    BY <1>1, <1>2, <1>3, <1>4, <2>1, <2>2
  <2>4. got' = [got EXCEPT ![e] = new] /\ taken' = [taken EXCEPT ![e] = taken[e] + n]
    BY <1>6, <2>1, <2>2
  <2>5. QED
    BY <1>4, <1>5, <1>6, <2>2, <2>3, <2>4
<1>7. QED
  BY <1>3, <1>4, <1>6 DEF Mp3Read

-----------------------------------------------------------------------------
(* Steps of a thread *)

\* What a step may do to the decoder.
LEMMA DecoderSteps ==
  ASSUME NEW e \in Encoders, Step(e)
  PROVE  /\ song' = song
         /\ \/ NextFrame(e) /\ UNCHANGED <<taken, flac_eos>>
            \/ GivesUp(e) /\ taken' = taken /\ (flac_eos' = flac_eos
                                                \/ flac_eos' = [flac_eos EXCEPT ![e] = TRUE])
            \/ /\ frames[e] = Len(song[e].ends) /\ flac_eos' = [flac_eos EXCEPT ![e] = TRUE]
               /\ UNCHANGED <<frames, taken, gone, buf, seek, count>>
            \/ FlacCopy(e) \/ Mp3Read(e)
            \/ UNCHANGED decoder
BY DEF Step, Open, OpenFlac, OpenMp3, OpenFails, Ask, FlacCopy, FlacDecode, FlacReturn, Mp3Read,
       Wrote, WroteEnd, Blockout, NoBlock, Pageout, PageFails, NoPage, Finish, decoder

LEMMA FrameStep ==
  ASSUME TypeOK, NEW e \in Encoders, Frame(e), Order(e), Step(e)
  PROVE  Frame(e)'
<1>1. /\ song[e] \in Songs /\ Len(buf[e]) \in Nat
      /\ frames[e] \in Nat /\ seek[e] \in Nat /\ count[e] \in Nat /\ taken[e] \in Nat
  BY ThreadTypes
<1>2. song' = song
  BY DecoderSteps
<1>3. CASE NextFrame(e) /\ UNCHANGED <<taken, flac_eos>>
  <2>1. PICK new \in Seq(Nat) :
          /\ buf' = [buf EXCEPT ![e] = new]
          /\ Follows(new, Before(song[e], frames[e]))
          /\ Len(new) = Before(song[e], frames[e] + 1) - Before(song[e], frames[e])
          /\ count' = [count EXCEPT ![e] = Len(new)]
    BY <1>3, NextFrameFacts
  <2>2. /\ frames[e] < Len(song[e].ends) /\ frames'[e] = frames[e] + 1
        /\ seek'[e] = 0 /\ gone' = gone /\ buf'[e] = new /\ count'[e] = Len(new)
    <3>1. /\ frames[e] < Len(song[e].ends) /\ frames' = [frames EXCEPT ![e] = frames[e] + 1]
          /\ seek' = [seek EXCEPT ![e] = 0] /\ gone' = gone
      BY <1>3, NextFrameFacts
    <3>2. QED
      BY <2>1, <3>1, Functions
  <2>3. Len(new) \in Nat /\ Len(song[e].ends) \in Nat
    BY <1>1, LenProperties, SongFacts
  <2>4. frames'[e] - 1 = frames[e] /\ frames'[e] # 0 /\ frames'[e] <= Len(song[e].ends)
        /\ seek'[e] + count'[e] = Len(buf'[e])
    BY <1>1, <2>2, <2>3
  <2>5. flac_eos'[e] => gone'[e]
    BY <1>1, <1>3, <2>2, <2>3 DEF Frame
  <2>6. taken'[e] <= Length(song'[e])
    BY <1>2, <1>3 DEF Frame
  <2>7. /\ Follows(buf'[e], Before(song'[e], frames'[e] - 1))
        /\ Len(buf'[e]) = Before(song'[e], frames'[e]) - Before(song'[e], frames'[e] - 1)
    BY <1>2, <2>1, <2>2, <2>4
  <2>8. QED
    BY <1>2, <2>4, <2>5, <2>6, <2>7 DEF Frame
<1>4. CASE GivesUp(e) /\ taken' = taken /\ (flac_eos' = flac_eos
                                             \/ flac_eos' = [flac_eos EXCEPT ![e] = TRUE])
  BY <1>2, <1>4 DEF GivesUp, Frame, TypeOK
<1>5. CASE /\ frames[e] = Len(song[e].ends) /\ flac_eos' = [flac_eos EXCEPT ![e] = TRUE]
           /\ UNCHANGED <<frames, taken, gone, buf, seek, count>>
  BY <1>2, <1>5 DEF Frame, TypeOK
<1>6. CASE FlacCopy(e)
  <2>1. PICK n \in Nat : /\ n <= count[e]
                         /\ seek' = [seek EXCEPT ![e] = seek[e] + n]
                         /\ count' = [count EXCEPT ![e] = count[e] - n]
    BY <1>6, FlacCopyFacts
  <2>2. PICK k \in Nat, q \in Nat : k = seek[e] /\ q = count[e]
    BY <1>1
  <2>3. seek'[e] = k + n /\ count'[e] = q - n
    BY <2>1, <2>2 DEF TypeOK
  <2>4. (k + n) + (q - n) = k + q
    OBVIOUS
  <2>5. seek'[e] + count'[e] = seek[e] + count[e]
    BY <2>2, <2>3, <2>4
  <2>6. UNCHANGED <<frames, taken, gone, buf, flac_eos>>
    BY <1>6 DEF FlacCopy
  <2>7. QED
    BY <1>2, <2>5, <2>6 DEF Frame
<1>7. CASE Mp3Read(e)
  <2>1. taken'[e] <= Length(song[e]) /\ (gone[e] => gone'[e])
    <3>1. Length(song[e]) \in Nat
      BY <1>1, SongFacts
    <3>2. CASE gone' = [gone EXCEPT ![e] = TRUE] /\ taken' = [taken EXCEPT ![e] = Length(song[e])]
      BY <3>1, <3>2, Functions
    <3>3. CASE \E n \in Nat : /\ taken[e] + n <= Length(song[e])
                              /\ taken' = [taken EXCEPT ![e] = taken[e] + n] /\ gone' = gone
      BY <3>3, Functions
    <3>4. QED
      BY <1>7, <3>2, <3>3, Mp3ReadFacts
  <2>2. UNCHANGED <<frames, buf, seek, count, flac_eos>>
    BY <1>7 DEF Mp3Read
  <2>3. QED
    BY <1>2, <2>1, <2>2 DEF Frame
<1>8. CASE UNCHANGED decoder
  BY <1>8 DEF decoder, Frame
<1>9. QED
  BY <1>3, <1>4, <1>5, <1>6, <1>7, <1>8, DecoderSteps

\* Reading and handing over keep the order.
LEMMA OrderStep ==
  ASSUME TypeOK, NEW e \in Encoders, Frame(e), Order(e), Step(e)
  PROVE  Order(e)'
<1>1. /\ song[e] \in Songs /\ got[e] \in Seq(Nat) /\ wrote[e] \in Seq(Nat)
      /\ frames[e] \in Nat /\ taken[e] \in Nat
  BY ThreadTypes
<1>2. song' = song
  BY DecoderSteps
<1>3. PICK w \in Nat, g \in Nat, q \in Nat : w = Len(wrote[e]) /\ g = Len(got[e]) /\ q = count[e]
  BY ThreadTypes
<1>4. Follows(<< >>, w) /\ Len(<< >>) = 0 /\ << >> \in Seq(Nat) /\ 0 <= Request(song[e])
  BY <1>1, SongFacts, EmptySeq DEF Follows
<1>5. at \in [Encoders -> {"open", "loop", "flac", "mp3", "wrote", "blockout", "pageout",
                           "done", "failed"}]
  BY DEF TypeOK
<1> USE DEF Goto
<1>6. ASSUME NextFrame(e), song[e].type = "flac", Pending(e) = Pending(e)', count[e] = 0,
             UNCHANGED <<wrote, got>>
      PROVE  Len(wrote'[e]) + Pending(e)' + count'[e] = Before(song'[e], frames'[e])
  <2>1. PICK new \in Seq(Nat) :
          /\ Len(new) = Before(song[e], frames[e] + 1) - Before(song[e], frames[e])
          /\ count' = [count EXCEPT ![e] = Len(new)]
    BY <1>6, NextFrameFacts
  <2>2. frames[e] < Len(song[e].ends) /\ frames'[e] = frames[e] + 1 /\ count'[e] = Len(new)
    BY <1>6, <2>1, NextFrameFacts, Functions
  <2>3. frames[e] \in 0 .. Len(song[e].ends) /\ frames[e] + 1 \in 0 .. Len(song[e].ends)
    BY <1>1, <2>2, SongFacts
  <2>4. PICK b \in Nat, c \in Nat : b = Before(song[e], frames[e]) /\ c = Before(song[e], frames[e] + 1)
    BY <1>1, <2>3, SongFacts
  <2>5. PICK p \in Nat : p = Pending(e)
    BY <1>3 DEF Pending
  <2>6. w + p + 0 = b
    BY <1>3, <1>6, <2>4, <2>5 DEF Order
  <2>7. w + p + (c - b) = c
    BY <2>6
  <2>8. count'[e] = c - b
    BY <2>1, <2>2, <2>4
  <2>9. QED
    BY <1>2, <1>3, <1>6, <2>2, <2>4, <2>5, <2>7, <2>8
<1>7. CASE Open(e)
  <2>1. at'[e] = "loop" /\ at[e] = "open" /\ UNCHANGED <<taken, wrote, got>>
    BY <1>5, <1>7 DEF Open
  <2>2. Pending(e) = 0 /\ Pending(e)' = 0
    BY <2>1 DEF Pending, InRequest
  <2>3. song[e].type = "flac" => Len(wrote'[e]) + Pending(e)' + count'[e] = Before(song'[e], frames'[e])
    <3>1. CASE NextFrame(e)
      <4>1. count[e] = 0
        <5>1. PICK k \in Nat : k = seek[e]
          BY ThreadTypes
        <5>2. k + q = 0
          BY <1>3, <2>1, <5>1 DEF Frame, Order
        <5>3. QED
          BY <1>3, <5>2
      <4>2. QED
        BY <1>6, <2>1, <2>2, <3>1, <4>1
    <3>2. CASE ~NextFrame(e)
      <4>1. UNCHANGED <<frames, count>>
        BY <1>7, <3>2 DEF Open, OpenFlac, OpenMp3, GivesUp
      <4>2. QED
        BY <1>2, <2>1, <2>2, <4>1 DEF Order
    <3>3. QED
      BY <3>1, <3>2
  <2>4. song[e].type = "mp3" => gone' = gone
    BY <1>7 DEF Open, OpenFlac, OpenMp3
  <2>5. QED
    BY <1>2, <2>1, <2>2, <2>3, <2>4 DEF Order, InRequest
<1>8. CASE Ask(e)
  <2>1. /\ got' = [got EXCEPT ![e] = << >>] /\ at[e] = "loop"
        /\ at'[e] = IF song[e].type = "flac" THEN "flac" ELSE "mp3"
        /\ UNCHANGED <<frames, taken, gone, count, wrote>>
    BY <1>5, <1>8 DEF Ask, decoder, encoder
  <2>2. got'[e] = << >> /\ Len(got'[e]) = 0
    BY <1>4, <2>1, Functions
  <2>3. Pending(e) = 0 /\ Pending(e)' = 0
    BY <2>1, <2>2 DEF Pending, InRequest
  <2>4. song[e].type \in {"flac", "mp3"}
    BY <1>1, SongFacts
  <2>5. Follows(got'[e], Len(wrote'[e]))
    BY <1>3, <1>4, <2>1, <2>2
  <2>6. Len(got'[e]) <= Request(song'[e])
    BY <1>2, <1>4, <2>2
  <2>7. QED
    BY <1>2, <2>1, <2>2, <2>3, <2>4, <2>5, <2>6 DEF Order
<1>9. CASE FlacCopy(e)
  <2>1. PICK n \in Nat, new \in Seq(Nat) :
          /\ Len(new) = Len(got[e]) + n
          /\ Follows(new, Len(wrote[e]))
          /\ Len(new) <= Request(song[e])
          /\ n <= count[e]
          /\ got' = [got EXCEPT ![e] = new]
          /\ count' = [count EXCEPT ![e] = count[e] - n]
    BY <1>9, FlacCopyFacts
  <2>2. got'[e] = new /\ count'[e] = q - n
    BY <1>3, <2>1, Functions
  <2>3. at[e] = "flac" /\ UNCHANGED <<at, frames, taken, gone, wrote>>
    BY <1>9 DEF FlacCopy, encoder
  <2>4. Pending(e) = g /\ Pending(e)' = g + n
    BY <1>3, <2>1, <2>2, <2>3 DEF Pending, InRequest
  <2>5. w + (g + n) + (q - n) = w + g + q
    OBVIOUS
  <2>6. Len(wrote'[e]) + Pending(e)' + count'[e] = Len(wrote[e]) + Pending(e) + count[e]
    BY <1>3, <2>2, <2>3, <2>4, <2>5
  <2>7. QED
    BY <1>2, <2>1, <2>2, <2>3, <2>6 DEF Order
<1>10. CASE FlacDecode(e)
  <2>1. at[e] = "flac" /\ count[e] = 0 /\ UNCHANGED <<at, taken, wrote, got>>
    BY <1>10 DEF FlacDecode, encoder
  <2>2. Pending(e) = Pending(e)' /\ song[e].type = "flac"
    BY <2>1 DEF Pending, InRequest, Order
  <2>3. Len(wrote'[e]) + Pending(e)' + count'[e] = Before(song'[e], frames'[e])
    <3>1. CASE NextFrame(e)
      BY <1>6, <2>1, <2>2, <3>1
    <3>2. CASE ~NextFrame(e)
      <4>1. UNCHANGED <<frames, count>>
        BY <1>10, <3>2 DEF FlacDecode, GivesUp
      <4>2. QED
        BY <1>2, <2>1, <2>2, <4>1 DEF Order
    <3>3. QED
      BY <3>1, <3>2
  <2>4. QED
    BY <1>2, <2>1, <2>2, <2>3 DEF Order
<1>11. CASE FlacReturn(e)
  <2>1. at[e] = "flac" /\ at'[e] = "wrote" /\ UNCHANGED <<frames, taken, gone, count, wrote, got>>
    BY <1>5, <1>11 DEF FlacReturn, decoder, encoder
  <2>2. Pending(e) = Pending(e)'
    BY <2>1 DEF Pending, InRequest
  <2>3. QED
    BY <1>2, <2>1, <2>2 DEF Order, InRequest
<1>12. CASE Mp3Read(e)
  <2>1. at[e] = "mp3" /\ at'[e] = "wrote" /\ UNCHANGED <<frames, count, wrote>>
    BY <1>5, <1>12 DEF Mp3Read, encoder
  <2>2. song[e].type = "mp3" /\ got[e] = << >> /\ Pending(e) = 0 /\ Pending(e)' = Len(got'[e])
    BY <2>1 DEF Order, Pending, InRequest
  <2>3. PICK l \in Nat, d \in Nat : l = Length(song[e]) /\ d = taken[e]
    BY <1>1, SongFacts
  <2>4. (gone[e] \/ w = d) /\ (gone[e] => d = l)
    BY <1>3, <2>2, <2>3 DEF Order
  <2>5. CASE gone' = [gone EXCEPT ![e] = TRUE] /\ taken' = [taken EXCEPT ![e] = Length(song[e])]
             /\ got' = got
    <3>1. gone'[e] /\ taken'[e] = Length(song'[e]) /\ got'[e] = << >>
      BY <1>2, <2>2, <2>5, Functions
    <3>2. Follows(got'[e], Len(wrote'[e])) /\ Len(got'[e]) <= Request(song'[e])
      BY <1>2, <1>3, <1>4, <2>1, <3>1
    <3>3. QED
      BY <1>2, <2>1, <2>2, <3>1, <3>2 DEF Order
  <2>6. CASE \E n \in Nat, new \in Seq(Nat) :
              /\ Len(new) = n /\ n <= Request(song[e])
              /\ Follows(new, taken[e])
              /\ taken[e] + n <= Length(song[e])
              /\ n = 0 => taken[e] = Length(song[e])
              /\ got' = [got EXCEPT ![e] = new]
              /\ taken' = [taken EXCEPT ![e] = taken[e] + n]
              /\ gone' = gone
    <3>1. PICK n \in Nat, new \in Seq(Nat) :
              /\ Len(new) = n /\ n <= Request(song[e])
              /\ Follows(new, d)
              /\ d + n <= l
              /\ got' = [got EXCEPT ![e] = new]
              /\ taken' = [taken EXCEPT ![e] = d + n]
              /\ gone' = gone
      BY <2>3, <2>6
    <3>2. got'[e] = new /\ taken'[e] = d + n
      BY <3>1, Functions
    <3>3. CASE gone[e]
      <4>1. n = 0 /\ d + n = l
        BY <2>4, <3>1, <3>3
      <4>2. Follows(new, w)
        BY <3>1, <4>1 DEF Follows
      <4>3. QED
        BY <1>2, <1>3, <2>1, <2>2, <2>3, <3>1, <3>2, <3>3, <4>1, <4>2 DEF Order
    <3>4. CASE ~gone[e]
      <4>1. w = d
        BY <2>4, <3>4
      <4>2. Len(wrote'[e]) + Pending(e)' = taken'[e]
        BY <1>3, <2>1, <2>2, <3>1, <3>2, <4>1
      <4>3. QED
        BY <1>2, <1>3, <2>1, <2>2, <3>1, <3>2, <3>4, <4>1, <4>2 DEF Order
    <3>5. QED
      BY <3>3, <3>4
  <2>7. QED
    BY <1>12, <2>5, <2>6, Mp3ReadFacts
<1>13. CASE Wrote(e)
  <2>1. /\ at[e] = "wrote" /\ at'[e] = "blockout" /\ UNCHANGED <<frames, taken, gone, count, got>>
        /\ wrote' = [wrote EXCEPT ![e] = wrote[e] \o got[e]]
    BY <1>5, <1>13 DEF Wrote, decoder
  <2>2. PICK s \in Seq(Nat), t \in Seq(Nat) : s = wrote[e] /\ t = got[e]
    BY <1>1
  <2>3. Follows(s, 0) /\ Follows(t, 0 + Len(s))
    <3>1. Follows(s, 0) /\ Follows(t, Len(s)) /\ Len(s) = w
      BY <1>3, <2>1, <2>2 DEF Order, InRequest
    <3>2. 0 + w = w
      OBVIOUS
    <3>3. QED
      BY <3>1, <3>2
  <2>4. Len(s \o t) = Len(s) + Len(t) /\ Follows(s \o t, 0)
    BY <2>3, FollowsConcat
  <2>5. Len(wrote'[e]) = w + g /\ Follows(wrote'[e], 0)
    BY <1>3, <2>1, <2>2, <2>4, Functions
  <2>6. Pending(e) = g /\ Pending(e)' = 0
    BY <1>3, <2>1 DEF Pending, InRequest
  <2>7. (w + g) + 0 = w + g
    OBVIOUS
  <2>8. Len(wrote'[e]) + Pending(e)' = Len(wrote[e]) + Pending(e)
    BY <1>3, <2>5, <2>6, <2>7
  <2>9. QED
    BY <1>2, <2>1, <2>5, <2>8 DEF Order, InRequest
<1>14. CASE WroteEnd(e)
  <2>1. /\ at[e] = "wrote" /\ at'[e] = "blockout" /\ got[e] = << >>
        /\ UNCHANGED <<frames, taken, gone, count, got, wrote>>
    BY <1>5, <1>14 DEF WroteEnd, decoder
  <2>2. Pending(e) = 0 /\ Pending(e)' = 0
    BY <1>4, <2>1 DEF Pending, InRequest
  <2>3. QED
    BY <1>2, <2>1, <2>2 DEF Order, InRequest
<1>15. CASE OpenFails(e) \/ Blockout(e) \/ NoBlock(e) \/ Pageout(e) \/ PageFails(e) \/ NoPage(e) \/ Finish(e)
  <2>1. /\ at[e] \notin InRequest /\ at'[e] \notin InRequest \cup {"open", "mp3"}
        /\ UNCHANGED <<frames, taken, gone, count, got, wrote>>
    BY <1>5, <1>15 DEF OpenFails, Blockout, NoBlock, Pageout, PageFails, NoPage, Finish, InRequest,
       decoder, encoder
  <2>2. Pending(e) = 0 /\ Pending(e)' = 0
    BY <2>1 DEF Pending
  <2>3. QED
    BY <1>2, <2>1, <2>2 DEF Order, InRequest
<1>16. QED
  BY <1>7, <1>8, <1>9, <1>10, <1>11, <1>12, <1>13, <1>14, <1>15 DEF Step

\* The end of the song, of the stream and of the file follow one another.
LEMMA EndingStep ==
  ASSUME TypeOK, NEW e \in Encoders, Frame(e), Order(e), Ending(e), Step(e)
  PROVE  Ending(e)'
<1>1. /\ song[e] \in Songs /\ song' = song
      /\ got[e] \in Seq(Nat) /\ wrote[e] \in Seq(Nat) /\ Request(song[e]) \in Nat \ {0}
  BY ThreadTypes, DecoderSteps, SongFacts
<1>2. PICK w \in Nat, b \in Nat, k \in Nat : w = Len(wrote[e]) /\ b = blocked[e] /\ k = packets[e]
  BY ThreadTypes
<1>3. at \in [Encoders -> {"open", "loop", "flac", "mp3", "wrote", "blockout", "pageout",
                           "done", "failed"}]
  BY DEF TypeOK
<1>4. BlockSize \in Nat \ {0} /\ PagePackets \in Nat \ {0}
  BY SizesAssumption
<1>5. ~(eos[e] /\ ~last[e]) /\ ~(last[e] /\ ~ended[e]) /\ ~(ended[e] /\ at[e] = "open")
  BY DEF Ending
<1> USE DEF Goto
<1>6. CASE Open(e)
  <2>1. at[e] = "open" /\ at'[e] = "loop" /\ UNCHANGED <<ended, last, eos, blocked, wrote>>
    BY <1>3, <1>6 DEF Open
  <2>2. QED
    BY <1>5, <2>1 DEF Ending
<1>7. CASE Ask(e)
  <2>1. at'[e] \notin {"open", "wrote", "done"} /\ got'[e] = << >>
    BY <1>3, <1>7, Functions DEF Ask
  <2>2. UNCHANGED <<decoder, wrote, blocked, packets, ended, last, eos>>
    BY <1>7 DEF Ask, encoder
  <2>3. QED
    BY <2>1, <2>2 DEF Ending, Dry, decoder
<1>8. CASE FlacCopy(e)
  <2>1. at[e] = "flac" /\ count[e] > 0 /\ UNCHANGED <<at, song, wrote, blocked, packets, ended, last, eos>>
    BY <1>8 DEF FlacCopy, encoder
  <2>2. ~ended[e]
    <3>1. count[e] # 0
      BY <2>1
    <3>2. QED
      BY <2>1, <3>1 DEF Ending, Dry, Order
  <2>3. QED
    BY <2>1, <2>2 DEF Ending
<1>9. CASE FlacDecode(e)
  <2>1. at[e] = "flac" /\ ~flac_eos[e] /\ UNCHANGED <<at, song, got, wrote, blocked, packets, ended, last, eos>>
    BY <1>9 DEF FlacDecode, encoder
  <2>2. ~ended[e]
    BY <2>1 DEF Ending, Dry, Order
  <2>3. QED
    BY <2>1, <2>2 DEF Ending
<1>10. CASE FlacReturn(e)
  <2>1. at[e] = "flac" /\ at'[e] = "wrote" /\ UNCHANGED <<decoder, got, wrote, blocked, packets, ended, last, eos>>
    BY <1>3, <1>10 DEF FlacReturn, encoder
  <2>2. got[e] = << >> => count[e] = 0 /\ flac_eos[e]
    <3>1. got[e] = << >> => Wanted(e) = Request(song[e])
      BY <1>1, EmptySeq DEF Wanted
    <3>2. QED
      BY <1>1, <1>10, <3>1 DEF FlacReturn
  <2>3. song[e].type = "flac"
    BY <2>1 DEF Order
  <2>4. QED
    BY <2>1, <2>2, <2>3 DEF Ending, Dry, decoder
<1>11. CASE Mp3Read(e)
  <2>1. at[e] = "mp3" /\ at'[e] = "wrote" /\ UNCHANGED <<wrote, blocked, packets, ended, last, eos>>
    BY <1>3, <1>11 DEF Mp3Read, encoder
  <2>2. song[e].type = "mp3" /\ got[e] = << >>
    BY <2>1 DEF Order
  <2>3. /\ got'[e] = << >> => taken'[e] = Length(song[e])
        /\ ended[e] => got'[e] = << >>
    <3>1. CASE taken' = [taken EXCEPT ![e] = Length(song[e])] /\ got' = got
      BY <2>2, <3>1, Functions
    <3>2. CASE \E n \in Nat, new \in Seq(Nat) :
              /\ Len(new) = n
              /\ taken[e] + n <= Length(song[e])
              /\ n = 0 => taken[e] = Length(song[e])
              /\ got' = [got EXCEPT ![e] = new]
              /\ taken' = [taken EXCEPT ![e] = taken[e] + n]
      <4>1. PICK n \in Nat, new \in Seq(Nat) :
              /\ Len(new) = n
              /\ taken[e] + n <= Length(song[e])
              /\ n = 0 => taken[e] = Length(song[e])
              /\ got' = [got EXCEPT ![e] = new]
              /\ taken' = [taken EXCEPT ![e] = taken[e] + n]
        BY <3>2
      <4>2. PICK l \in Nat, d \in Nat : l = Length(song[e]) /\ d = taken[e]
        BY <1>1, SongFacts, ThreadTypes
      <4>3. got'[e] = new /\ taken'[e] = d + n
        BY <4>1, <4>2, Functions
      <4>4. new = << >> <=> n = 0
        BY <4>1, EmptySeq
      <4>5. n = 0 => d + n = l
        BY <4>1, <4>2
      <4>6. ended[e] => d = l
        BY <2>2, <4>2 DEF Ending, Dry
      <4>7. ended[e] => n = 0
        BY <4>1, <4>2, <4>6
      <4>8. QED
        BY <4>2, <4>3, <4>4, <4>5, <4>7
    <3>3. QED
      BY <1>11, <3>1, <3>2, Mp3ReadFacts
  <2>4. QED
    BY <1>1, <2>1, <2>2, <2>3 DEF Ending, Dry
<1>12. CASE Wrote(e)
  <2>1. /\ at'[e] = "blockout" /\ got[e] # << >> /\ UNCHANGED <<decoder, got, blocked, packets, ended, last, eos>>
        /\ wrote' = [wrote EXCEPT ![e] = wrote[e] \o got[e]]
    BY <1>3, <1>12 DEF Wrote
  <2>2. ~ended[e]
    BY <2>1 DEF Ending
  <2>3. PICK g \in Nat : Len(wrote'[e]) = w + g
    <3>1. Len(wrote[e] \o got[e]) = Len(wrote[e]) + Len(got[e])
      BY <1>1, ConcatProperties
    <3>2. QED
      BY <1>2, <2>1, <3>1, Functions, ThreadTypes
  <2>4. blocked'[e] <= Len(wrote'[e])
    <3>1. b <= w
      BY <1>2 DEF Ending
    <3>2. QED
      BY <1>2, <2>1, <2>3, <3>1
  <2>5. QED
    BY <1>5, <2>1, <2>2, <2>4 DEF Ending
<1>13. CASE WroteEnd(e)
  <2>1. /\ at[e] = "wrote" /\ at'[e] = "blockout" /\ got[e] = << >>
        /\ UNCHANGED <<decoder, got, wrote, blocked, packets, last, eos>>
        /\ ended'[e]
    BY <1>3, <1>13, Functions DEF WroteEnd
  <2>2. Dry(e)' /\ got'[e] = << >>
    BY <2>1 DEF Ending, Dry, decoder
  <2>3. QED
    BY <2>1, <2>2 DEF Ending
<1>14. CASE Blockout(e)
  <2>1. /\ at'[e] = "pageout" /\ UNCHANGED <<decoder, got, wrote, ended, eos>>
        /\ Full(e) \/ ~last[e]
    BY <1>3, <1>14 DEF Blockout
  <2>2. Full(e) <=> w - b >= BlockSize
    BY <1>2 DEF Full
  <2>3. ~last[e]
    <3>1. last[e] => w - b = 0
      BY <1>2 DEF Ending
    <3>2. QED
      BY <1>4, <2>1, <2>2, <3>1
  <2>4. CASE Full(e) /\ blocked' = [blocked EXCEPT ![e] = blocked[e] + BlockSize] /\ last' = last
    <3>1. blocked'[e] = b + BlockSize
      BY <1>2, <2>4, Functions
    <3>2. b + BlockSize <= w
      BY <1>4, <2>2, <2>4
    <3>3. QED
      BY <1>2, <1>5, <2>1, <2>3, <2>4, <3>1, <3>2 DEF Ending, Dry, decoder
  <2>5. CASE ended[e] /\ blocked' = [blocked EXCEPT ![e] = Len(wrote[e])] /\ last' = [last EXCEPT ![e] = TRUE]
    <3>1. blocked'[e] = Len(wrote'[e])
      BY <1>2, <2>1, <2>5, Functions
    <3>2. blocked'[e] <= Len(wrote'[e])
      BY <1>2, <2>1, <3>1
    <3>3. QED
      BY <1>5, <2>1, <2>3, <2>5, <3>1, <3>2 DEF Ending, Dry, decoder
  <2>6. QED
    BY <1>14, <2>4, <2>5 DEF Blockout
<1>15. CASE Pageout(e)
  <2>1. /\ at[e] = "pageout" /\ UNCHANGED <<at, decoder, got, wrote, ended, blocked, last>>
        /\ packets' = [packets EXCEPT ![e] = packets[e] - Min({packets[e], PagePackets})]
        /\ eos' = [eos EXCEPT ![e] = last[e] /\ packets[e] <= PagePackets]
    BY <1>15 DEF Pageout
  <2>2. eos'[e] => last[e] /\ packets'[e] = 0
    <3>1. Min({k, PagePackets}) = IF k <= PagePackets THEN k ELSE PagePackets
      BY <1>4, MinFacts
    <3>2. packets'[e] = k - Min({k, PagePackets}) /\ (eos'[e] => last[e] /\ k <= PagePackets)
      BY <1>2, <2>1, Functions
    <3>3. QED
      BY <3>1, <3>2
  <2>3. QED
    BY <2>1, <2>2 DEF Ending, Dry, decoder
<1>16. CASE OpenFails(e) \/ NoBlock(e) \/ PageFails(e) \/ NoPage(e) \/ Finish(e)
  <2>1. /\ at'[e] \notin {"open", "wrote"} /\ (at'[e] = "done" => eos[e])
        /\ UNCHANGED <<decoder, got, wrote, ended, blocked, packets, last, eos>>
    BY <1>3, <1>16 DEF OpenFails, NoBlock, PageFails, NoPage, Finish, encoder
  <2>2. QED
    BY <2>1 DEF Ending, Dry, decoder
<1>17. QED
  BY <1>6, <1>7, <1>8, <1>9, <1>10, <1>11, <1>12, <1>13, <1>14, <1>15, <1>16 DEF Step

\* A page is written where a file has one or ends.
LEMMA WritePageFacts ==
  ASSUME TypeOK, NEW e \in Encoders, NEW n \in Nat, n <= Len(file), WritePage(e, n + 1)
  PROVE  /\ file' \in Seq(Encoders) /\ n + 1 <= Len(file') /\ Len(file) <= Len(file')
         /\ file'[n + 1] = e
         /\ \A i \in 1 .. Len(file) : i # n + 1 => file'[i] = file[i]
<1>1. PICK l \in Nat : l = Len(file)
  BY LenProperties DEF TypeOK
<1>2. \A i \in 1 .. l : file[i] \in Encoders
  BY <1>1, ElementOfSeq DEF TypeOK
<1>3. PICK m \in Nat : m = Max({n + 1, l}) /\ n + 1 <= m /\ l <= m /\ (m = l \/ (m = l + 1 /\ n = l))
  <2>1. Max({n + 1, l}) = IF n + 1 >= l THEN n + 1 ELSE l
    BY MaxFacts
  <2>2. n <= l
    BY <1>1
  <2>3. QED
    BY <2>1, <2>2
<1>4. file' = [i \in 1 .. m |-> IF i = n + 1 THEN e ELSE file[i]]
  BY <1>1, <1>3 DEF WritePage
<1>5. \A i \in 1 .. m : (IF i = n + 1 THEN e ELSE file[i]) \in Encoders
  <2> TAKE i \in 1 .. m
  <2>1. i = n + 1 \/ i \in 1 .. l
    BY <1>3
  <2>2. QED
    BY <1>2, <2>1
<1>6. file' \in Seq(Encoders) /\ Len(file') = m
  BY <1>4, <1>5
<1>7. n + 1 \in 1 .. m /\ \A i \in 1 .. l : i \in 1 .. m
  <2>1. n + 1 <= m /\ l <= m
    BY <1>3
  <2>2. QED
    BY <2>1
<1>8. file'[n + 1] = e /\ \A i \in 1 .. l : i # n + 1 => file'[i] = file[i]
  BY <1>4, <1>7
<1>9. QED
  BY <1>1, <1>3, <1>6, <1>8

\* What happens to the file, and to who has it.
LEMMA PagesStep ==
  ASSUME TypeOK, \A y \in Encoders : Pages(y), NEW e \in Encoders, Step(e), NEW x \in Encoders
  PROVE  Pages(x)'
<1>1. /\ at \in [Encoders -> {"open", "loop", "flac", "mp3", "wrote", "blockout", "pageout",
                              "done", "failed"}]
      /\ pages[x] \in Nat /\ pages[e] \in Nat /\ Len(file) \in Nat
  BY LenProperties DEF TypeOK
<1>2. Pages(x) /\ Pages(e)
  OBVIOUS
<1> USE DEF Goto
<1>3. CASE Open(e)
  <2>1. /\ at[e] = "open" /\ at' = [at EXCEPT ![e] = "loop"] /\ UNCHANGED <<pages, file>>
        /\ shared' = shared \cup {y \in Encoders : at[y] # "open"} \cup (IF Busy = {} THEN {} ELSE {e})
    BY <1>3 DEF Open
  <2>2. CASE x = e
    <3>1. x \notin shared' => Busy = {}
      BY <2>1, <2>2
    <3>2. x \notin shared' => \A y \in Encoders : y = x \/ at'[y] \in {"open", "done", "failed"}
      BY <1>1, <2>1, <2>2, <3>1 DEF Busy
    <3>3. pages'[x] = 0 /\ at'[x] = "loop"
      BY <1>1, <1>2, <2>1, <2>2 DEF Pages
    <3>4. pages'[x] <= Len(file') /\ \A i \in 1 .. pages'[x] : file'[i] = x
      BY <1>1, <1>2, <2>1, <3>3 DEF Pages
    <3>5. QED
      BY <3>2, <3>3, <3>4 DEF Pages
  <2>3. CASE x # e
    <3>1. at'[x] = at[x] /\ (at[x] # "open" => x \in shared')
      BY <1>1, <2>1, <2>3
    <3>2. QED
      BY <1>2, <2>1, <3>1 DEF Pages
  <2>4. QED
    BY <2>2, <2>3
<1>4. CASE OpenFails(e)
  <2>1. at' = [at EXCEPT ![e] = "failed"] /\ UNCHANGED <<pages, file, shared>>
    BY <1>4 DEF OpenFails, output
  <2>2. QED
    BY <1>1, <1>2, <2>1 DEF Pages
<1>5. CASE Pageout(e) \/ PageFails(e)
  <2>1. /\ at[e] = "pageout" /\ shared' = shared
        /\ \A y \in Encoders : at'[y] = at[y] \/ (y = e /\ at'[y] = "failed")
    BY <1>1, <1>5 DEF Pageout, PageFails
  <2>2. \/ pages' = [pages EXCEPT ![e] = pages[e] + 1] /\ WritePage(e, pages[e] + 1)
        \/ pages' = pages /\ (WritePage(e, pages[e] + 1) \/ file' = file)
    BY <1>5 DEF Pageout, PageFails
  <2>3. PICK n \in Nat, p \in Nat, l \in Nat : n = pages[e] /\ p = pages[x] /\ l = Len(file)
    BY <1>1
  <2>4. n <= l /\ p <= l
    BY <1>2, <2>3 DEF Pages
  <2>5. WritePage(e, n + 1) =>
          /\ file' \in Seq(Encoders) /\ n + 1 <= Len(file') /\ l <= Len(file')
          /\ file'[n + 1] = e /\ \A i \in 1 .. l : i # n + 1 => file'[i] = file[i]
    BY <2>3, <2>4, WritePageFacts
  <2>6. Len(file') \in Nat
    BY <1>1, <2>2, <2>3, <2>5, LenProperties
  <2>7. pages'[x] <= Len(file')
    <3>1. pages'[x] = p \/ (x = e /\ pages'[x] = n + 1 /\ WritePage(e, n + 1))
      BY <2>2, <2>3, Functions
    <3>2. l <= Len(file')
      BY <2>2, <2>3, <2>5
    <3>3. QED
      BY <2>4, <2>5, <2>6, <3>1, <3>2
  <2>8. CASE x = e
    <3>1. \A i \in 1 .. n : i \in 1 .. l /\ i # n + 1
      BY <2>4
    <3>2. x \notin shared => \A i \in 1 .. n : file'[i] = x
      <4>1. x \notin shared => \A i \in 1 .. n : file[i] = x
        BY <1>2, <2>1, <2>3, <2>8 DEF Pages
      <4>2. QED
        BY <2>2, <2>3, <2>5, <3>1, <4>1
    <3>3. x \notin shared => \A i \in 1 .. pages'[x] : file'[i] = x
      <4>1. pages'[x] = n \/ (pages'[x] = n + 1 /\ file'[n + 1] = x)
        BY <2>2, <2>3, <2>5, <2>8, Functions
      <4>2. \A i \in 1 .. n + 1 : i \in 1 .. n \/ i = n + 1
        OBVIOUS
      <4>3. QED
        BY <3>2, <4>1, <4>2
    <3>4. x \notin shared => \A y \in Encoders : y = x \/ at'[y] \in {"open", "done", "failed"}
      BY <1>2, <2>1, <2>8 DEF Pages
    <3>5. at'[x] # "open"
      BY <2>1, <2>8
    <3>6. QED
      BY <2>1, <2>7, <3>3, <3>4, <3>5 DEF Pages
  <2>9. CASE x # e
    <3>1. at'[x] = at[x] /\ pages'[x] = pages[x]
      BY <2>1, <2>2, <2>9, Functions
    <3>2. at[x] \in {"open", "failed"} \/ x \in shared
      BY <1>2, <2>1, <2>9 DEF Pages
    <3>3. QED
      BY <1>2, <2>1, <2>7, <3>1, <3>2 DEF Pages
  <2>10. QED
    BY <2>8, <2>9
<1>6. CASE ~(Open(e) \/ OpenFails(e) \/ Pageout(e) \/ PageFails(e))
  <2>1. /\ UNCHANGED <<pages, file, shared>> /\ at[e] \notin {"open", "done", "failed"}
        /\ at' = at \/ \E label : label \notin {"open", "failed"} /\ at' = [at EXCEPT ![e] = label]
    BY <1>6 DEF Step, Ask, FlacCopy, FlacDecode, FlacReturn, Mp3Read, Wrote, WroteEnd, Blockout, NoBlock,
       NoPage, Finish, output
  <2>2. QED
    BY <1>1, <1>2, <2>1 DEF Pages
<1>7. QED
  BY <1>3, <1>4, <1>5, <1>6

\* A step of one thread leaves what another one has alone.
LEMMA OthersKeep ==
  ASSUME TypeOK, NEW e \in Encoders, Step(e), NEW x \in Encoders, x # e
  PROVE  /\ at'[x] = at[x] /\ song'[x] = song[x] /\ frames'[x] = frames[x] /\ taken'[x] = taken[x]
         /\ gone'[x] = gone[x] /\ buf'[x] = buf[x] /\ seek'[x] = seek[x] /\ count'[x] = count[x]
         /\ flac_eos'[x] = flac_eos[x] /\ got'[x] = got[x] /\ wrote'[x] = wrote[x]
         /\ ended'[x] = ended[x] /\ blocked'[x] = blocked[x] /\ packets'[x] = packets[x]
         /\ last'[x] = last[x] /\ eos'[x] = eos[x]
<1>1. at'[x] = at[x] /\ got'[x] = got[x] /\ wrote'[x] = wrote[x]
  BY Functions DEF Step, Open, OpenFails, Ask, FlacCopy, FlacDecode, FlacReturn, Mp3Read, Goto,
     Wrote, WroteEnd, Blockout, NoBlock, Pageout, PageFails, NoPage, Finish, encoder
<1>2. /\ ended'[x] = ended[x] /\ blocked'[x] = blocked[x] /\ packets'[x] = packets[x]
      /\ last'[x] = last[x] /\ eos'[x] = eos[x]
  BY Functions DEF Step, Open, OpenFails, Ask, FlacCopy, FlacDecode, FlacReturn, Mp3Read,
     Wrote, WroteEnd, Blockout, NoBlock, Pageout, PageFails, NoPage, Finish, encoder
<1>3. /\ song'[x] = song[x] /\ frames'[x] = frames[x] /\ taken'[x] = taken[x]
      /\ gone'[x] = gone[x] /\ buf'[x] = buf[x] /\ seek'[x] = seek[x] /\ count'[x] = count[x]
      /\ flac_eos'[x] = flac_eos[x]
  <2>1. song' = song
    BY DecoderSteps
  <2>2. CASE NextFrame(e) /\ UNCHANGED <<taken, flac_eos>>
    BY <2>1, <2>2, Functions DEF NextFrame
  <2>3. CASE GivesUp(e) /\ taken' = taken /\ (flac_eos' = flac_eos
                                              \/ flac_eos' = [flac_eos EXCEPT ![e] = TRUE])
    BY <2>1, <2>3, Functions DEF GivesUp
  <2>4. CASE FlacCopy(e)
    BY <2>1, <2>4, Functions DEF FlacCopy
  <2>5. CASE Mp3Read(e)
    BY <2>1, <2>5, Functions DEF Mp3Read
  <2>6. CASE \/ /\ flac_eos' = [flac_eos EXCEPT ![e] = TRUE]
                /\ UNCHANGED <<frames, taken, gone, buf, seek, count>>
             \/ UNCHANGED decoder
    BY <2>1, <2>6, Functions DEF decoder
  <2>7. QED
    BY <2>2, <2>3, <2>4, <2>5, <2>6, DecoderSteps
<1>4. QED
  BY <1>1, <1>2, <1>3

LEMMA OthersHold ==
  ASSUME TypeOK, NEW e \in Encoders, Step(e), NEW x \in Encoders, x # e,
         Frame(x), Order(x), Ending(x)
  PROVE  Frame(x)' /\ Order(x)' /\ Ending(x)'
<1>1. Frame(x)'
  BY OthersKeep DEF Frame
<1>2. Order(x)'
  BY OthersKeep DEF Order, Pending
<1>3. Ending(x)'
  BY OthersKeep DEF Ending, Dry
<1>4. QED
  BY <1>1, <1>2, <1>3

-----------------------------------------------------------------------------
(* Types *)

LEMMA PercentType ==
  ASSUME NEW s \in Songs, NEW n \in Nat
  PROVE  Percent(s, n) \in Nat
<1>1. PICK t \in Nat, m \in Nat : t = s.total /\ m = n * 100
  BY SongFacts
<1>2. t # 0 => m \div t \in Nat
  OBVIOUS
<1>3. QED
  BY <1>1, <1>2 DEF Percent

LEMMA DecoderTypes ==
  ASSUME TypeOK, NEW e \in Encoders, Frame(e), Order(e), Step(e)
  PROVE  /\ song' \in [Encoders -> Songs]
         /\ frames' \in [Encoders -> Nat] /\ taken' \in [Encoders -> Nat]
         /\ seek' \in [Encoders -> Nat] /\ count' \in [Encoders -> Nat]
         /\ gone' \in [Encoders -> BOOLEAN] /\ flac_eos' \in [Encoders -> BOOLEAN]
         /\ buf' \in [Encoders -> Seq(Nat)]
<1>1. song' \in [Encoders -> Songs]
  BY DecoderSteps DEF TypeOK
<1>2. /\ song[e] \in Songs /\ Length(song[e]) \in Nat
      /\ frames[e] \in Nat /\ seek[e] \in Nat /\ count[e] \in Nat /\ taken[e] \in Nat
  BY ThreadTypes, SongFacts
<1>3. CASE NextFrame(e) /\ UNCHANGED <<taken, flac_eos>>
  <2>1. PICK new \in Seq(Nat) : /\ buf' = [buf EXCEPT ![e] = new]
                                /\ count' = [count EXCEPT ![e] = Len(new)]
    BY <1>3, NextFrameFacts
  <2>2. /\ frames' = [frames EXCEPT ![e] = frames[e] + 1]
        /\ seek' = [seek EXCEPT ![e] = 0] /\ gone' = gone
    BY <1>3, NextFrameFacts
  <2>3. Len(new) \in Nat /\ frames[e] + 1 \in Nat
    BY <1>2, LenProperties
  <2>4. buf' \in [Encoders -> Seq(Nat)] /\ count' \in [Encoders -> Nat]
    BY <2>1, <2>3, Functions
  <2>5. frames' \in [Encoders -> Nat] /\ seek' \in [Encoders -> Nat]
    BY <2>2, <2>3, Functions
  <2>6. QED
    BY <1>1, <1>3, <2>2, <2>4, <2>5, Functions
<1>4. CASE FlacCopy(e)
  <2>1. PICK n \in Nat \ {0} : /\ n <= count[e]
                               /\ seek' = [seek EXCEPT ![e] = seek[e] + n]
                               /\ count' = [count EXCEPT ![e] = count[e] - n]
    BY <1>4, FlacCopyFacts
  <2>2. seek[e] + n \in Nat /\ count[e] - n \in Nat
    BY <1>2, <2>1
  <2>3. seek' \in [Encoders -> Nat] /\ count' \in [Encoders -> Nat]
    BY <2>1, <2>2, Functions
  <2>4. UNCHANGED <<frames, taken, gone, flac_eos, buf>>
    BY <1>4 DEF FlacCopy
  <2>5. QED
    BY <1>1, <2>3, <2>4, Functions
<1>5. CASE Mp3Read(e)
  <2>1. \/ /\ gone' = [gone EXCEPT ![e] = TRUE]
           /\ taken' = [taken EXCEPT ![e] = Length(song[e])]
        \/ \E n \in Nat : taken' = [taken EXCEPT ![e] = taken[e] + n] /\ gone' = gone
    BY <1>5, Mp3ReadFacts
  <2>2. taken' \in [Encoders -> Nat] /\ gone' \in [Encoders -> BOOLEAN]
    <3>1. CASE /\ gone' = [gone EXCEPT ![e] = TRUE]
               /\ taken' = [taken EXCEPT ![e] = Length(song[e])]
      BY <1>2, <3>1, Functions
    <3>2. CASE \E n \in Nat : taken' = [taken EXCEPT ![e] = taken[e] + n] /\ gone' = gone
      <4>1. PICK n \in Nat : taken' = [taken EXCEPT ![e] = taken[e] + n] /\ gone' = gone
        BY <3>2
      <4>2. taken[e] + n \in Nat
        BY <1>2
      <4>3. QED
        BY <4>1, <4>2, Functions
    <3>3. QED
      BY <2>1, <3>1, <3>2
  <2>3. UNCHANGED <<frames, seek, count, flac_eos, buf>>
    BY <1>5 DEF Mp3Read
  <2>4. QED
    BY <1>1, <2>2, <2>3, Functions
<1>6. CASE GivesUp(e) /\ taken' = taken /\ (flac_eos' = flac_eos
                                            \/ flac_eos' = [flac_eos EXCEPT ![e] = TRUE])
  BY <1>1, <1>6, Functions DEF GivesUp
<1>7. CASE \/ /\ flac_eos' = [flac_eos EXCEPT ![e] = TRUE]
              /\ UNCHANGED <<frames, taken, gone, buf, seek, count>>
           \/ UNCHANGED decoder
  BY <1>1, <1>7, Functions DEF decoder
<1>8. QED
  BY <1>3, <1>4, <1>5, <1>6, <1>7, DecoderSteps

LEMMA EncoderTypesStep ==
  ASSUME TypeOK, NEW e \in Encoders, Frame(e), Order(e), Step(e)
  PROVE  /\ at' \in [Encoders -> {"open", "loop", "flac", "mp3", "wrote", "blockout", "pageout",
                                  "done", "failed"}]
         /\ blocked' \in [Encoders -> Nat] /\ packets' \in [Encoders -> Nat]
         /\ packets_done' \in [Encoders -> Nat] /\ progress' \in [Encoders -> Nat]
         /\ ended' \in [Encoders -> BOOLEAN] /\ last' \in [Encoders -> BOOLEAN]
         /\ eos' \in [Encoders -> BOOLEAN]
         /\ got' \in [Encoders -> Seq(Nat)] /\ wrote' \in [Encoders -> Seq(Nat)]
<1>1. at' \in [Encoders -> {"open", "loop", "flac", "mp3", "wrote", "blockout", "pageout",
                            "done", "failed"}]
  BY DEF TypeOK, Step, Open, OpenFails, Ask, FlacCopy, FlacDecode, FlacReturn, Mp3Read, Goto,
     Wrote, WroteEnd, Blockout, NoBlock, Pageout, PageFails, NoPage, Finish
<1>2. /\ ended' \in [Encoders -> BOOLEAN] /\ last' \in [Encoders -> BOOLEAN]
      /\ eos' \in [Encoders -> BOOLEAN]
  <2>1. /\ ended' = ended \/ ended' = [ended EXCEPT ![e] = TRUE]
        /\ last' = last \/ last' = [last EXCEPT ![e] = TRUE]
        /\ eos' = eos \/ \E done \in BOOLEAN : eos' = [eos EXCEPT ![e] = done]
    BY DEF Step, Open, OpenFails, Ask, FlacCopy, FlacDecode, FlacReturn, Mp3Read,
       Wrote, WroteEnd, Blockout, NoBlock, Pageout, PageFails, NoPage, Finish, encoder
  <2>2. QED
    BY <2>1, Functions
<1>3. got' \in [Encoders -> Seq(Nat)]
  <2>1. CASE FlacCopy(e)
    BY <2>1, FlacCopyFacts, Functions
  <2>2. CASE Mp3Read(e)
    BY <2>2, Mp3ReadFacts, Functions
  <2>3. CASE Ask(e)
    BY <2>3, Functions, EmptySeq DEF Ask
  <2>4. CASE ~FlacCopy(e) /\ ~Mp3Read(e) /\ ~Ask(e)
    BY <2>4, Functions DEF Step, Open, OpenFails, FlacDecode, FlacReturn, Wrote, WroteEnd, Blockout,
       NoBlock, Pageout, PageFails, NoPage, Finish
  <2>5. QED
    BY <2>1, <2>2, <2>3, <2>4
<1>4. wrote' \in [Encoders -> Seq(Nat)] /\ progress' \in [Encoders -> Nat]
  <2>1. CASE Wrote(e)
    <3>1. wrote[e] \o got[e] \in Seq(Nat) /\ song[e] \in Songs
      BY ThreadTypes, ConcatProperties
    <3>2. wrote' = [wrote EXCEPT ![e] = wrote[e] \o got[e]]
      BY <2>1 DEF Wrote
    <3>3. wrote'[e] \in Seq(Nat) /\ wrote' \in [Encoders -> Seq(Nat)]
      BY <3>1, <3>2, Functions
    <3>4. Percent(song[e], Len(wrote'[e])) \in Nat
      BY <3>1, <3>3, LenProperties, PercentType
    <3>5. progress' = progress \/ progress' = [progress EXCEPT ![e] = Percent(song[e], Len(wrote'[e]))]
      BY <2>1 DEF Wrote, told
    <3>6. progress' \in [Encoders -> Nat]
      BY <3>4, <3>5, Functions
    <3>7. QED
      BY <3>3, <3>6
  <2>2. CASE ~Wrote(e)
    BY <2>2, Functions DEF Step, Open, OpenFails, Ask, FlacCopy, FlacDecode, FlacReturn, Mp3Read,
       WroteEnd, Blockout, NoBlock, Pageout, PageFails, NoPage, Finish, encoder, told
  <2>3. QED
    BY <2>1, <2>2
<1>5. /\ blocked' \in [Encoders -> Nat] /\ packets' \in [Encoders -> Nat]
      /\ packets_done' \in [Encoders -> Nat]
  <2>1. /\ blocked[e] \in Nat /\ packets[e] \in Nat /\ packets_done[e] \in Nat
        /\ Len(wrote[e]) \in Nat /\ BlockSize \in Nat /\ PagePackets \in Nat
    BY ThreadTypes, Functions, SizesAssumption
  <2>2. CASE Blockout(e)
    <3>1. blocked[e] + BlockSize \in Nat /\ packets[e] + 1 \in Nat /\ packets_done[e] + 1 \in Nat
      BY <2>1
    <3>2. /\ packets' = [packets EXCEPT ![e] = packets[e] + 1]
          /\ packets_done' = [packets_done EXCEPT ![e] = packets_done[e] + 1]
          /\ \/ blocked' = [blocked EXCEPT ![e] = blocked[e] + BlockSize]
             \/ blocked' = [blocked EXCEPT ![e] = Len(wrote[e])]
      BY <2>2 DEF Blockout
    <3>3. packets' \in [Encoders -> Nat] /\ packets_done' \in [Encoders -> Nat]
      BY <3>1, <3>2, Functions
    <3>4. blocked' \in [Encoders -> Nat]
      BY <2>1, <3>1, <3>2, Functions
    <3>5. QED
      BY <3>3, <3>4
  <2>3. CASE Pageout(e)
    <3>1. Min({packets[e], PagePackets}) = IF packets[e] <= PagePackets THEN packets[e] ELSE PagePackets
      BY <2>1, MinFacts
    <3>2. packets[e] - Min({packets[e], PagePackets}) \in Nat
      BY <2>1, <3>1
    <3>3. QED
      BY <2>3, <3>2, Functions DEF Pageout, told
  <2>4. CASE ~Blockout(e) /\ ~Pageout(e)
    <3>1. /\ blocked' = blocked
          /\ packets' = packets \/ packets' = [packets EXCEPT ![e] = 3]
          /\ packets_done' = packets_done \/ packets_done' = [packets_done EXCEPT ![e] = 0]
      BY <2>4 DEF Step, Open, OpenFails, Ask, FlacCopy, FlacDecode, FlacReturn, Mp3Read,
         Wrote, WroteEnd, NoBlock, PageFails, NoPage, Finish, encoder, told
    <3>2. blocked' \in [Encoders -> Nat]
      BY <3>1, Functions
    <3>3. packets' \in [Encoders -> Nat]
      <4>1. CASE packets' = packets
        BY <4>1, Functions
      <4>2. CASE packets' = [packets EXCEPT ![e] = 3]
        BY <4>2, Functions
      <4>3. QED
        BY <3>1, <4>1, <4>2
    <3>4. packets_done' \in [Encoders -> Nat]
      <4>1. CASE packets_done' = packets_done
        BY <4>1, Functions
      <4>2. CASE packets_done' = [packets_done EXCEPT ![e] = 0]
        BY <4>2, Functions
      <4>3. QED
        BY <3>1, <4>1, <4>2
    <3>5. QED
      BY <3>2, <3>3, <3>4
  <2>5. QED
    BY <2>2, <2>3, <2>4
<1>6. QED
  BY <1>1, <1>2, <1>3, <1>4, <1>5

LEMMA OutputTypes ==
  ASSUME TypeOK, NEW e \in Encoders, Pages(e), Step(e)
  PROVE  /\ pages' \in [Encoders -> Nat] /\ file' \in Seq(Encoders) /\ shared' \subseteq Encoders
<1>1. pages[e] \in Nat /\ pages[e] <= Len(file) /\ file \in Seq(Encoders) /\ shared \subseteq Encoders
  BY DEF TypeOK, Pages
<1>2. WritePage(e, pages[e] + 1) => file' \in Seq(Encoders)
  BY <1>1, WritePageFacts
<1>3. CASE Open(e)
  BY <1>1, <1>3, Functions DEF Open
<1>4. CASE Pageout(e) \/ PageFails(e)
  <2>1. /\ shared' = shared
        /\ pages' = pages \/ pages' = [pages EXCEPT ![e] = pages[e] + 1]
        /\ WritePage(e, pages[e] + 1) \/ file' = file
    BY <1>4 DEF Pageout, PageFails
  <2>2. pages[e] + 1 \in Nat
    BY <1>1
  <2>3. pages' \in [Encoders -> Nat]
    BY <2>1, <2>2, Functions
  <2>4. QED
    BY <1>1, <1>2, <2>1, <2>3
<1>5. CASE ~Open(e) /\ ~Pageout(e) /\ ~PageFails(e)
  BY <1>1, <1>5, Functions DEF Step, OpenFails, Ask, FlacCopy, FlacDecode, FlacReturn, Mp3Read,
     Wrote, WroteEnd, Blockout, NoBlock, NoPage, Finish, output
<1>6. QED
  BY <1>3, <1>4, <1>5

-----------------------------------------------------------------------------
(* What a reader should know of the encoders *)

LEMMA EncoderNext == EncoderInv /\ [Next]_vars => EncoderInv'
<1> SUFFICES ASSUME EncoderInv, [Next]_vars PROVE EncoderInv'
  OBVIOUS
<1>1. CASE \E e \in Encoders : Step(e)
  <2>1. PICK e \in Encoders : Step(e)
    BY <1>1
  <2>2. TypeOK /\ \A x \in Encoders : Frame(x) /\ Order(x) /\ Ending(x) /\ Pages(x)
    BY DEF EncoderInv
  <2>3. TypeOK'
    BY <2>1, <2>2, DecoderTypes, EncoderTypesStep, OutputTypes DEF TypeOK
  <2>4. Frame(e)' /\ Order(e)' /\ Ending(e)'
    BY <2>1, <2>2, FrameStep, OrderStep, EndingStep
  <2>5. ASSUME NEW x \in Encoders PROVE Frame(x)' /\ Order(x)' /\ Ending(x)'
    BY <2>1, <2>2, <2>4, OthersHold
  <2>6. ASSUME NEW x \in Encoders PROVE Pages(x)'
    BY <2>1, <2>2, PagesStep
  <2>7. QED
    BY <2>3, <2>5, <2>6 DEF EncoderInv
<1>2. CASE UNCHANGED vars
  <2>1. UNCHANGED <<at, decoder, got, encoder, told, eos, output>>
    BY <1>2 DEF vars
  <2>2. TypeOK'
    BY <2>1 DEF EncoderInv, TypeOK, decoder, encoder, told, output
  <2>3. ASSUME NEW e \in Encoders PROVE Frame(e)' /\ Order(e)' /\ Ending(e)' /\ Pages(e)'
    BY <2>1 DEF EncoderInv, Frame, Order, Pending, Ending, Dry, Pages, decoder, encoder, output
  <2>4. QED
    BY <2>2, <2>3 DEF EncoderInv
<1>3. QED
  BY <1>1, <1>2 DEF Next

\* What is left of the frame in the buffer, what the request has, what libvorbis has and
\* what the decoder has come to fit together in every state, and so do the ends of the
\* song, of the stream and of the file.
THEOREM EncoderInvariant == Spec => []EncoderInv
BY EncoderInit, EncoderNext, PTL DEF Spec

\* However the frames of a flac file and the requests of ogg_encode overlap, whatever
\* their sizes, and wherever a decoder gives up, libvorbis is handed a beginning of the
\* song, in order, and no more is read from the buffer than flac_write put there.
THEOREM SamplesInOrder == Spec => []InOrder
<1>1. ASSUME EncoderInv, NEW e \in Encoders
      PROVE  LET read == IF at[e] \in {"flac", "wrote"} THEN wrote[e] \o got[e] ELSE wrote[e]
             IN /\ read = Samples(0, Len(read))
                /\ Len(got[e]) <= Request(song[e]) /\ seek[e] + count[e] <= Len(buf[e])
  <2>1. TypeOK /\ Frame(e) /\ Order(e)
    BY <1>1 DEF EncoderInv
  <2>2. PICK s \in Seq(Nat), t \in Seq(Nat) : s = wrote[e] /\ t = got[e]
    BY <2>1, ThreadTypes
  <2>3. Follows(s, 0) /\ s = Samples(0, Len(s))
    BY <2>1, <2>2, FollowsIsSamples DEF Order
  <2>4. at[e] \in {"flac", "wrote"} => s \o t = Samples(0, Len(s \o t))
    <3>1. 0 + Len(s) = Len(s)
      BY LenProperties
    <3>2. at[e] \in {"flac", "wrote"} => Follows(t, 0 + Len(s))
      BY <2>1, <2>2, <3>1 DEF Order, InRequest
    <3>3. at[e] \in {"flac", "wrote"} => s \o t \in Seq(Nat) /\ Follows(s \o t, 0)
      BY <2>3, <3>2, FollowsConcat
    <3>4. QED
      BY <3>3, FollowsIsSamples
  <2>5. Len(got[e]) <= Request(song[e]) /\ seek[e] + count[e] <= Len(buf[e])
    BY <2>1, ThreadTypes DEF Order, Frame
  <2>6. QED
    BY <2>2, <2>3, <2>4, <2>5
<1>2. EncoderInv => InOrder
  BY <1>1 DEF InOrder
<1>3. QED
  BY <1>2, EncoderInvariant, PTL

\* ogg_encode returns success only when the whole song is in pages, unless its decoder
\* gave up, and then they are in the file if no other thread was at it meanwhile.
THEOREM WholeSongWritten == Spec => []WholeSong
<1>1. ASSUME EncoderInv, NEW e \in Encoders, at[e] = "done"
      PROVE  /\ Len(wrote[e]) = Length(song[e]) \/ gone[e]
             /\ blocked[e] = Len(wrote[e]) /\ packets[e] = 0
             /\ e \in shared \/ \A i \in 1 .. pages[e] : file[i] = e
  <2>1. TypeOK /\ Frame(e) /\ Order(e) /\ Ending(e) /\ Pages(e)
    BY <1>1 DEF EncoderInv
  <2>2. blocked[e] = Len(wrote[e]) /\ packets[e] = 0 /\ Dry(e)
    BY <1>1, <2>1 DEF Ending
  <2>3. e \in shared \/ \A i \in 1 .. pages[e] : file[i] = e
    BY <1>1, <2>1 DEF Pages
  <2>4. song[e] \in Songs /\ Length(song[e]) = Before(song[e], Len(song[e].ends))
        /\ song[e].type \in {"flac", "mp3"}
    BY <2>1, ThreadTypes, SongFacts
  <2>5. PICK w \in Nat, c \in Nat, d \in Nat : w = Len(wrote[e]) /\ c = count[e] /\ d = taken[e]
    BY <2>1, ThreadTypes
  <2>6. Pending(e) = 0
    BY <1>1 DEF Pending, InRequest
  <2>7. CASE song[e].type = "flac"
    <3>1. c = 0 /\ (gone[e] \/ frames[e] = Len(song[e].ends))
      BY <2>1, <2>2, <2>5, <2>7 DEF Dry, Frame
    <3>2. w + 0 + 0 = Before(song[e], frames[e])
      BY <2>1, <2>5, <2>6, <2>7, <3>1 DEF Order
    <3>3. w = w + 0 + 0
      OBVIOUS
    <3>4. QED
      BY <2>2, <2>3, <2>4, <2>5, <3>1, <3>2, <3>3
  <2>8. CASE song[e].type = "mp3"
    <3>1. d = Length(song[e]) /\ (gone[e] \/ w + 0 = d)
      BY <2>1, <2>2, <2>5, <2>6, <2>8 DEF Dry, Order
    <3>2. w + 0 = w
      OBVIOUS
    <3>3. QED
      BY <2>2, <2>3, <2>5, <3>1, <3>2
  <2>9. QED
    BY <2>4, <2>7, <2>8
<1>2. EncoderInv => WholeSong
  BY <1>1 DEF WholeSong
<1>3. QED
  BY <1>2, EncoderInvariant, PTL

=============================================================================
