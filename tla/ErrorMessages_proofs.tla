------------------------ MODULE ErrorMessages_proofs ------------------------
(***************************************************************************)
(* What holds of the error log for every limit, every finite set of adders *)
(* and every set of readers, proved with TLAPS.                            *)
(***************************************************************************)
EXTENDS ErrorMessages, FiniteSetTheorems, TLAPS

(* The inductive invariant *)

\* The threads between the check and the claim.
Claimers == {t \in Adders : pc[t] = "claim"}

\* Once the log is full, those that may still claim fit below the bound.
Room ==
  num_errors >= Limit =>
    num_errors + Cardinality(Claimers) <= Limit + Cardinality(Adders) - 1

\* A thread that writes an entry is the only one, and has written so much of it.
Writing ==
  \A t \in Adders :
    /\ pc[t] # "idle" => adds[t] \in 1 .. MaxAdds
    /\ pc[t] \in {"header", "message"} =>
         /\ error_num[t] < num_errors
         /\ message[error_num[t]] = Empty
         /\ \A u \in Adders : pc[u] \in {"header", "message"} /\ error_num[u] = error_num[t]
                                => u = t
    /\ pc[t] = "header" => header[error_num[t]] = Empty
    /\ pc[t] = "message" => header[error_num[t]] = Text(t)

\* Nobody has touched the entries that are still to be claimed.
Untouched == \A i \in Entries : i >= num_errors => header[i] = Empty /\ message[i] = Empty

\* A reader is at an entry that was claimed.
Reading ==
  \A r \in Readers :
    /\ Len(new[r]) <= num_errors
    /\ pc[r] = "message" => Len(new[r]) >= 1

LogInv ==
  /\ TypeOK
  /\ Room
  /\ Writing
  /\ Untouched
  /\ Reading
  /\ NothingLost
  /\ CopyAgrees

-----------------------------------------------------------------------------
LEMMA CountFacts ==
  /\ Cardinality(Adders) \in Nat
  /\ IsFiniteSet(Claimers)
  /\ Cardinality(Claimers) \in Nat
  /\ Cardinality(Claimers) <= Cardinality(Adders)
<1>1. Claimers \in SUBSET Adders
  BY DEF Claimers
<1>2. IsFiniteSet(Claimers) /\ Cardinality(Claimers) <= Cardinality(Adders)
  BY <1>1, ThreadsAssumption, FS_Subset
<1>3. QED
  BY <1>2, ThreadsAssumption, FS_CardinalityType

\* The bound on the log follows from Room.
LEMMA RoomBounds ==
  ASSUME num_errors \in Nat, Room
  PROVE  OverrunBounded
BY CountFacts, LimitAssumption DEF Room, OverrunBounded

LEMMA LogInit == Init => LogInv
<1> SUFFICES ASSUME Init PROVE LogInv
  OBVIOUS
<1> USE DEF Init
<1>1. 0 \in Entries
  BY CountFacts, LimitAssumption DEF Entries
<1>2. TypeOK
  BY <1>1, MaxAddsAssumption DEF TypeOK
<1>3. Room
  BY CountFacts, LimitAssumption DEF Room
<1>4. Writing /\ Untouched /\ Reading /\ NothingLost /\ CopyAgrees
  BY DEF Writing, Untouched, Reading, NothingLost, CopyAgrees
<1>5. QED
  BY <1>2, <1>3, <1>4 DEF LogInv

\* A step that touches neither table, counters nor copies keeps what is said of
\* the copies.
LEMMA CopiesFrame ==
  ASSUME CopyAgrees, Reading, UNCHANGED <<table, new>>,
         \A r \in Readers : pc'[r] = pc[r]
  PROVE  CopyAgrees' /\ Reading'
BY DEF CopyAgrees, Reading, table

LEMMA CheckInv ==
  ASSUME LogInv, NEW t \in Adders, Check(t)
  PROVE  LogInv'
<1> USE DEF Check, Goto, table, LogInv
<1>1. \A r \in Readers : r # t /\ pc'[r] = pc[r]
  BY ThreadsAssumption DEF TypeOK
<1>2. TypeOK'
  <2>1. adds[t] + 1 \in 0 .. MaxAdds
    BY MaxAddsAssumption DEF TypeOK
  <2>2. adds' \in [Adders -> 0 .. MaxAdds]
    BY <2>1 DEF TypeOK
  <2>3. pc' \in [Adders \cup Readers -> {"idle", "claim", "header", "message"}]
    BY DEF TypeOK
  <2>4. QED
    BY <2>2, <2>3 DEF TypeOK
<1>3. Room'
  <2>1. CASE num_errors >= Limit
    <3>1. Claimers' = Claimers
      BY <2>1 DEF Claimers
    <3>2. QED
      BY <2>1, <3>1 DEF Room
  <2>2. CASE ~(num_errors >= Limit)
    BY <2>2 DEF Room
  <2>3. QED
    BY <2>1, <2>2
<1>4. Writing'
  BY MaxAddsAssumption DEF TypeOK, Writing, Text
<1>5. Untouched' /\ NothingLost'
  BY DEF Untouched, NothingLost
<1>6. CopyAgrees' /\ Reading'
  BY <1>1, CopiesFrame
<1>7. QED
  BY <1>2, <1>3, <1>4, <1>5, <1>6

LEMMA ClaimInv ==
  ASSUME LogInv, NEW t \in Adders, Claim(t)
  PROVE  LogInv'
<1> USE DEF Claim, Goto, LogInv
<1>1. \A r \in Readers : r # t /\ pc'[r] = pc[r]
  BY ThreadsAssumption DEF TypeOK
<1>2. num_errors \in Nat /\ num_errors \in Entries
  BY RoomBounds, CountFacts, LimitAssumption DEF TypeOK, OverrunBounded, Entries
<1>3. TypeOK'
  BY <1>2 DEF TypeOK
<1>4. Room'
  <2>1. t \in Claimers /\ Claimers' = Claimers \ {t}
    BY DEF TypeOK, Claimers
  <2>2. Cardinality(Claimers') = Cardinality(Claimers) - 1
    BY <2>1, CountFacts, FS_RemoveElement
  <2>3. QED
    BY <1>2, <2>2, CountFacts, LimitAssumption DEF Room
<1>5. Writing'
  <2> SUFFICES ASSUME NEW u \in Adders
               PROVE  /\ pc'[u] # "idle" => adds'[u] \in 1 .. MaxAdds
                      /\ pc'[u] \in {"header", "message"} =>
                           /\ error_num'[u] < num_errors'
                           /\ message'[error_num'[u]] = Empty
                           /\ \A v \in Adders :
                                pc'[v] \in {"header", "message"} /\ error_num'[v] = error_num'[u]
                                  => v = u
                      /\ pc'[u] = "header" => header'[error_num'[u]] = Empty
                      /\ pc'[u] = "message" => header'[error_num'[u]] = Text(u)'
    BY DEF Writing
  <2>1. message[num_errors] = Empty /\ header[num_errors] = Empty
    BY <1>2 DEF Untouched
  <2>2. CASE u = t
    BY <1>2, <2>1, <2>2 DEF TypeOK, Writing, Entries
  <2>3. CASE u # t
    BY <1>2, <2>1, <2>3 DEF TypeOK, Writing, Text, Entries
  <2>4. QED
    BY <2>2, <2>3
<1>6. Untouched'
  BY <1>2 DEF Untouched, Entries
<1>7. NothingLost'
  BY <1>2 DEF NothingLost
<1>8. CopyAgrees' /\ Reading'
  BY <1>1, <1>2 DEF CopyAgrees, Reading, TypeOK
<1>9. QED
  BY <1>3, <1>4, <1>5, <1>6, <1>7, <1>8

LEMMA WriteHeaderInv ==
  ASSUME LogInv, NEW t \in Adders, WriteHeader(t)
  PROVE  LogInv'
<1> USE DEF WriteHeader, Goto, LogInv
<1> DEFINE e == error_num[t]
<1>1. \A r \in Readers : r # t /\ pc'[r] = pc[r]
  BY ThreadsAssumption DEF TypeOK
<1>2. e \in Entries /\ e < num_errors /\ header[e] = Empty /\ message[e] = Empty
  BY DEF TypeOK, Writing
<1>3. Text(t) \in Texts /\ Text(t) # Empty
  BY EmptyAssumption DEF Writing, Text, Texts
<1>4. TypeOK'
  BY <1>2, <1>3 DEF TypeOK
<1>5. Room'
  <2>1. Claimers' = Claimers
    BY DEF TypeOK, Claimers
  <2>2. QED
    BY <2>1 DEF Room
<1>6. Writing'
  BY <1>2 DEF TypeOK, Writing, Text
<1>7. Untouched'
  BY <1>2 DEF TypeOK, Untouched, Entries
<1>8. NothingLost'
  <2> SUFFICES ASSUME NEW x \in added
               PROVE  \E i \in 0 .. num_errors - 1 : header'[i] = x /\ message'[i] = x
    BY DEF NothingLost
  <2>1. PICK i \in 0 .. num_errors - 1 : header[i] = x /\ message[i] = x
    BY DEF NothingLost
  <2>2. i # e
    BY <2>1, <1>2, EmptyAssumption DEF TypeOK
  <2>3. QED
    BY <2>1, <2>2 DEF TypeOK
<1>9. CopyAgrees' /\ Reading'
  <2>1. \A i : header[i] # Empty => header'[i] = header[i]
    BY <1>2 DEF TypeOK
  <2>2. QED
    BY <1>1, <2>1 DEF CopyAgrees, Reading
<1>10. QED
  BY <1>4, <1>5, <1>6, <1>7, <1>8, <1>9

LEMMA WriteMessageInv ==
  ASSUME LogInv, NEW t \in Adders, WriteMessage(t)
  PROVE  LogInv'
<1> USE DEF WriteMessage, Goto, LogInv
<1> DEFINE e == error_num[t]
<1>1. \A r \in Readers : r # t /\ pc'[r] = pc[r]
  BY ThreadsAssumption DEF TypeOK
<1>2. e \in Entries /\ e < num_errors /\ header[e] = Text(t) /\ message[e] = Empty
  BY DEF TypeOK, Writing
<1>3. Text(t) \in Texts /\ Text(t) # Empty
  BY EmptyAssumption DEF Writing, Text, Texts
<1>4. TypeOK'
  BY <1>2, <1>3 DEF TypeOK
<1>5. Room'
  <2>1. Claimers' = Claimers
    BY DEF TypeOK, Claimers
  <2>2. QED
    BY <2>1 DEF Room
<1>6. Writing'
  BY <1>2 DEF TypeOK, Writing, Text
<1>7. Untouched'
  BY <1>2 DEF TypeOK, Untouched, Entries
<1>8. NothingLost'
  <2> SUFFICES ASSUME NEW x \in added'
               PROVE  \E i \in 0 .. num_errors - 1 : header[i] = x /\ message'[i] = x
    BY DEF NothingLost
  <2>1. CASE x = Text(t)
    <3>1. e \in 0 .. num_errors - 1
      BY <1>2 DEF TypeOK, Entries
    <3>2. QED
      BY <1>2, <2>1, <3>1 DEF TypeOK
  <2>2. CASE x \in added
    <3>1. PICK i \in 0 .. num_errors - 1 : header[i] = x /\ message[i] = x
      BY <2>2 DEF NothingLost
    <3>2. i # e
      BY <2>2, <3>1, <1>2, EmptyAssumption DEF TypeOK
    <3>3. QED
      BY <3>1, <3>2 DEF TypeOK
  <2>3. QED
    BY <2>1, <2>2
<1>9. CopyAgrees' /\ Reading'
  <2>1. \A i : message[i] # Empty => message'[i] = message[i]
    BY <1>2 DEF TypeOK
  <2>2. QED
    BY <1>1, <2>1 DEF CopyAgrees, Reading
<1>10. QED
  BY <1>4, <1>5, <1>6, <1>7, <1>8, <1>9

\* A step of a reader leaves the adders and the table as they are.
LEMMA ReaderFrame ==
  ASSUME LogInv, NEW r \in Readers, NEW label \in {"idle", "header", "message"},
         Goto(r, label), UNCHANGED <<table, error_num, adds, added>>,
         new' \in [Readers -> Seq(Copies)]
  PROVE  /\ TypeOK' /\ Room' /\ Writing' /\ Untouched' /\ NothingLost'
         /\ pc' = [pc EXCEPT ![r] = label]
<1> USE DEF Goto, table, LogInv
<1>1. \A t \in Adders : t # r /\ pc'[t] = pc[t]
  BY ThreadsAssumption DEF TypeOK
<1>2. TypeOK'
  BY DEF TypeOK
<1>3. Room'
  <2>1. Claimers' = Claimers
    BY <1>1 DEF Claimers
  <2>2. QED
    BY <2>1 DEF Room
<1>4. Writing'
  BY <1>1 DEF Writing, Text
<1>5. Untouched' /\ NothingLost'
  BY DEF Untouched, NothingLost
<1>6. QED
  BY <1>2, <1>3, <1>4, <1>5

LEMMA BeginInv ==
  ASSUME LogInv, NEW r \in Readers, Begin(r)
  PROVE  LogInv'
<1> USE DEF Begin, LogInv
<1>1. new' \in [Readers -> Seq(Copies)]
  BY DEF TypeOK
<1>2. /\ TypeOK' /\ Room' /\ Writing' /\ Untouched' /\ NothingLost'
      /\ pc' = [pc EXCEPT ![r] = "header"]
  BY <1>1, ReaderFrame
<1>3. CopyAgrees' /\ Reading'
  BY <1>2 DEF CopyAgrees, Reading, TypeOK, table
<1>4. QED
  BY <1>2, <1>3

\* What a read returns is the entry, or a torn part of it.
LEMMA SeenFacts ==
  ASSUME NEW field, NEW label, NEW i, NEW v \in Seen(field, label, i)
  PROVE  v \in {field[i], Torn}
BY DEF Seen

LEMMA CopyHeaderInv ==
  ASSUME LogInv, NEW r \in Readers, CopyHeader(r)
  PROVE  LogInv'
<1> USE DEF LogInv
<1> DEFINE n == Len(new[r])
<1>1. PICK h \in Seen(header, "header", n) :
        new' = [new EXCEPT ![r] = Append(@, [header |-> h, message |-> Empty])]
  BY DEF CopyHeader
<1>2. new[r] \in Seq(Copies) /\ n \in Nat /\ n < num_errors
  BY DEF CopyHeader, TypeOK
<1>3. n \in Entries
  BY <1>2, RoomBounds, CountFacts, LimitAssumption DEF TypeOK, OverrunBounded, Entries
<1>4. h \in {header[n], Torn} /\ h \in Texts \cup {Empty, Torn}
  BY <1>1, <1>3, SeenFacts DEF TypeOK
<1> DEFINE c == [header |-> h, message |-> Empty]
<1>5. c \in Copies
  BY <1>4 DEF Copies
<1>6. /\ new'[r] = Append(new[r], c)
      /\ new'[r] \in Seq(Copies)
      /\ Len(new'[r]) = n + 1
      /\ new'[r][n + 1] = c
      /\ \A i \in 1 .. n : new'[r][i] = new[r][i]
  BY <1>1, <1>2, <1>5 DEF TypeOK
<1>7. \A q \in Readers : q # r => new'[q] = new[q]
  BY <1>1 DEF TypeOK
<1>8. new' \in [Readers -> Seq(Copies)]
  BY <1>1, <1>6 DEF TypeOK
<1>9. /\ TypeOK' /\ Room' /\ Writing' /\ Untouched' /\ NothingLost'
      /\ pc' = [pc EXCEPT ![r] = "message"]
  BY <1>8, ReaderFrame DEF CopyHeader
<1>10. UNCHANGED table
  BY DEF CopyHeader
<1>11. Reading'
  BY <1>2, <1>6, <1>7, <1>9, <1>10 DEF Reading, TypeOK, table
<1>12. CopyAgrees'
  <2> SUFFICES ASSUME NEW q \in Readers, NEW i \in 1 .. Len(new'[q])
               PROVE  /\ new'[q][i].header \in {header[i - 1], Empty, Torn}
                      /\ new'[q][i].message \in {message[i - 1], Empty, Torn}
    BY <1>10 DEF CopyAgrees, table
  <2>1. CASE q # r
    BY <1>7, <2>1 DEF CopyAgrees
  <2>2. CASE q = r /\ i = n + 1
    <3>1. i - 1 = n
      BY <1>2, <2>2
    <3>2. QED
      BY <1>4, <1>6, <2>2, <3>1
  <2>3. CASE q = r /\ i \in 1 .. n
    BY <1>6, <2>3 DEF CopyAgrees
  <2>4. QED
    BY <1>2, <1>6, <2>1, <2>2, <2>3
<1>13. QED
  BY <1>9, <1>11, <1>12

LEMMA CopyMessageInv ==
  ASSUME LogInv, NEW r \in Readers, CopyMessage(r)
  PROVE  LogInv'
<1> USE DEF LogInv
<1> DEFINE n == Len(new[r])
<1>1. PICK m \in Seen(message, "message", n - 1) :
        new' = [new EXCEPT ![r][n].message = m]
  BY DEF CopyMessage
<1>2. new[r] \in Seq(Copies) /\ n \in Nat /\ n >= 1 /\ n <= num_errors
  BY DEF CopyMessage, TypeOK, Reading
<1>3. n - 1 \in Entries
  BY <1>2, RoomBounds, CountFacts, LimitAssumption DEF TypeOK, OverrunBounded, Entries
<1>4. m \in {message[n - 1], Torn} /\ m \in Texts \cup {Empty, Torn}
  BY <1>1, <1>3, SeenFacts DEF TypeOK
<1> DEFINE c == [new[r][n] EXCEPT !.message = m]
<1>5. n \in 1 .. n /\ new[r][n] \in Copies
  BY <1>2
<1>6. c \in Copies /\ c.header = new[r][n].header /\ c.message = m
  BY <1>4, <1>5 DEF Copies
<1>7. new'[r] = [new[r] EXCEPT ![n] = c]
  BY <1>1 DEF TypeOK
<1>8. /\ new'[r] \in Seq(Copies)
      /\ Len(new'[r]) = n
      /\ new'[r][n] = c
      /\ \A i \in 1 .. n : i # n => new'[r][i] = new[r][i]
  BY <1>2, <1>5, <1>6, <1>7
<1>9. \A q \in Readers : q # r => new'[q] = new[q]
  BY <1>1 DEF TypeOK
<1>10. new' \in [Readers -> Seq(Copies)]
  BY <1>1, <1>8 DEF TypeOK
<1>11. /\ TypeOK' /\ Room' /\ Writing' /\ Untouched' /\ NothingLost'
       /\ pc' = [pc EXCEPT ![r] = "header"]
  BY <1>10, ReaderFrame DEF CopyMessage
<1>12. UNCHANGED table
  BY DEF CopyMessage
<1>13. Reading'
  BY <1>2, <1>8, <1>9, <1>11, <1>12 DEF Reading, TypeOK, table
<1>14. CopyAgrees'
  <2> SUFFICES ASSUME NEW q \in Readers, NEW i \in 1 .. Len(new'[q])
               PROVE  /\ new'[q][i].header \in {header[i - 1], Empty, Torn}
                      /\ new'[q][i].message \in {message[i - 1], Empty, Torn}
    BY <1>12 DEF CopyAgrees, table
  <2>1. CASE q # r
    BY <1>9, <2>1 DEF CopyAgrees
  <2>2. CASE q = r /\ i = n
    BY <1>4, <1>5, <1>6, <1>8, <2>2 DEF CopyAgrees
  <2>3. CASE q = r /\ i # n
    BY <1>8, <2>3 DEF CopyAgrees
  <2>4. QED
    BY <2>1, <2>2, <2>3
<1>15. QED
  BY <1>11, <1>13, <1>14

LEMMA EndInv ==
  ASSUME LogInv, NEW r \in Readers, End(r)
  PROVE  LogInv'
<1> USE DEF End, LogInv
<1>1. new' \in [Readers -> Seq(Copies)]
  BY DEF TypeOK
<1>2. /\ TypeOK' /\ Room' /\ Writing' /\ Untouched' /\ NothingLost'
      /\ pc' = [pc EXCEPT ![r] = "idle"]
  BY <1>1, ReaderFrame
<1>3. CopyAgrees' /\ Reading'
  BY <1>2 DEF CopyAgrees, Reading, TypeOK, table
<1>4. QED
  BY <1>2, <1>3

LEMMA LogStep == LogInv /\ [Next]_vars => LogInv'
<1> SUFFICES ASSUME LogInv, [Next]_vars PROVE LogInv'
  OBVIOUS
<1>1. ASSUME NEW t \in Adders, Check(t) \/ Claim(t) \/ WriteHeader(t) \/ WriteMessage(t)
      PROVE  LogInv'
  BY <1>1, CheckInv, ClaimInv, WriteHeaderInv, WriteMessageInv
<1>2. ASSUME NEW r \in Readers, Begin(r) \/ CopyHeader(r) \/ CopyMessage(r) \/ End(r)
      PROVE  LogInv'
  BY <1>2, BeginInv, CopyHeaderInv, CopyMessageInv, EndInv
<1>3. CASE UNCHANGED vars
  BY <1>3 DEF vars, table, LogInv, TypeOK, Room, Claimers, Writing, Text, Untouched,
              Reading, NothingLost, CopyAgrees
<1>4. QED
  BY <1>1, <1>2, <1>3 DEF Next

\* The inductive invariant holds in every reachable state.
THEOREM LogInvariant == Spec => []LogInv
  BY LogInit, LogStep, PTL DEF Spec

-----------------------------------------------------------------------------
(* What a reader should know of the log *)

\* Every field keeps its type, and every entry a thread is given lies less than
\* the number of threads behind the table.
THEOREM LogTypes == Spec => []TypeOK
<1>1. LogInv => TypeOK
  BY DEF LogInv
<1>2. QED
  BY <1>1, LogInvariant, PTL

\* However many errors are reported, num_errors passes its limit by fewer than
\* the number of reporting threads.
THEOREM LogOverrunBounded == Spec => []OverrunBounded
<1>1. LogInv => OverrunBounded
  BY RoomBounds DEF LogInv, TypeOK
<1>2. QED
  BY <1>1, LogInvariant, PTL

\* A report that found room stays in the log as it was written, although nobody
\* takes a lock.
THEOREM LogLosesNothing == Spec => []NothingLost
<1>1. LogInv => NothingLost
  BY DEF LogInv
<1>2. QED
  BY <1>1, LogInvariant, PTL

\* A copy made while others write agrees with the log but for entries that were
\* being written.
THEOREM LogCopiesAgree == Spec => []CopyAgrees
<1>1. LogInv => CopyAgrees
  BY DEF LogInv
<1>2. QED
  BY <1>1, LogInvariant, PTL
=============================================================================
