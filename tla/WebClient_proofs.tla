--------------------------- MODULE WebClient_proofs ---------------------------
(***************************************************************************)
(* What holds of the objects of the web client: of a query, for every page *)
(* size, every set of parameters and all answers; of a playlist, which has *)
(* two queries and one table; and of the player, for any number of songs.  *)
(* Proved with TLAPS.                                                      *)
(***************************************************************************)
EXTENDS Playlist, Player, SequenceTheorems, FiniteSetTheorems, TLAPS

-----------------------------------------------------------------------------
(* Rows *)

Row == UNION {Range(Answer[p]) : p \in Params}

LEMMA MinOfTwo ==
  ASSUME NEW a \in Int, NEW b \in Int
  PROVE  Min({a, b}) = IF a <= b THEN a ELSE b
  BY DEF Min

LEMMA AnswerRows == ASSUME NEW p \in Params PROVE Answer[p] \in Seq(Row)
<1>1. Answer[p] \in Seq(Range(Answer[p])) /\ Range(Answer[p]) \subseteq Row
  BY AnswerAssumption DEF Row
<1> QED
  BY <1>1, SeqMonotonic, Zenon

LEMMA Piece ==
  ASSUME NEW s \in Seq(Row), NEW m \in Nat, NEW n \in Int, n <= Len(s)
  PROVE  /\ SubSeq(s, m + 1, n) \in Seq(Row)
         /\ Len(SubSeq(s, m + 1, n)) = IF m < n THEN n - m ELSE 0
<1>1. \A i \in m + 1 .. n : s[i] \in Row
  <2>1. \A i \in m + 1 .. n : i \in 1 .. Len(s)
    OBVIOUS
  <2>2. \A i \in 1 .. Len(s) : s[i] \in Row
    BY LenProperties
  <2> QED
    BY <2>1, <2>2
<1>2. m + 1 \in Int
  OBVIOUS
<1>3. /\ SubSeq(s, m + 1, n) \in Seq(Row)
      /\ Len(SubSeq(s, m + 1, n)) = IF m + 1 <= n THEN n - (m + 1) + 1 ELSE 0
  BY ONLY <1>1, <1>2, SubSeqProperties, Zenon
<1> QED
  BY <1>3

\* Pages that end within the answer, and the last one.
LEMMA RowsInside ==
  ASSUME NEW s \in Seq(Row), NEW a \in Nat, NEW b \in Nat, a + b <= Len(s)
  PROVE  Rows(s, a, b) = SubSeq(s, a + 1, a + b) /\ Len(Rows(s, a, b)) = b
<1>1. Min({a + b, Len(s)}) = a + b
  BY MinOfTwo
<1>2. Rows(s, a, b) = SubSeq(s, a + 1, a + b)
  BY <1>1 DEF Rows
<1>3. a + b \in Int
  OBVIOUS
<1>4. Len(SubSeq(s, a + 1, a + b)) = IF a < a + b THEN a + b - a ELSE 0
  BY <1>3, Piece
<1> QED
  BY <1>2, <1>4

LEMMA RowsToEnd ==
  ASSUME NEW s \in Seq(Row), NEW a \in Nat, NEW b \in Nat, a + b > Len(s), a <= Len(s)
  PROVE  Rows(s, a, b) = SubSeq(s, a + 1, Len(s)) /\ Len(Rows(s, a, b)) = Len(s) - a
<1>1. Min({a + b, Len(s)}) = Len(s)
  BY MinOfTwo
<1>2. Rows(s, a, b) = SubSeq(s, a + 1, Len(s))
  BY <1>1 DEF Rows
<1>3. Len(s) \in Int
  OBVIOUS
<1>4. Len(SubSeq(s, a + 1, Len(s))) = IF a < Len(s) THEN Len(s) - a ELSE 0
  BY <1>3, Piece
<1> QED
  BY <1>2, <1>4

LEMMA RowsOf ==
  ASSUME NEW s \in Seq(Row), NEW a \in Nat, NEW b \in Nat
  PROVE  Rows(s, a, b) \in Seq(Row)
<1>1. Min({a + b, Len(s)}) \in Int /\ Min({a + b, Len(s)}) <= Len(s)
  BY MinOfTwo
<1> QED
  BY <1>1, Piece DEF Rows

\* Two adjacent pieces of a sequence make one.
LEMMA Adjacent ==
  ASSUME NEW s \in Seq(Row), NEW a \in Nat, NEW b \in Nat, a <= b, b <= Len(s)
  PROVE  SubSeq(s, 1, a) \o SubSeq(s, a + 1, b) = SubSeq(s, 1, b)
<1>1. 1 \in 1 .. Len(s) + 1 /\ a \in 1 - 1 .. Len(s) /\ b \in a .. Len(s)
  OBVIOUS
<1> QED
  BY ONLY <1>1, s \in Seq(Row), ConcatAdjacentSubSeq, Zenon

-----------------------------------------------------------------------------
(* Pages *)

Request == [params : Params, count : Nat]

LEMMA Pages ==
  ASSUME NEW c \in Nat
  PROVE  /\ c * PageSize \in Nat
         /\ (c + 1) * PageSize = c * PageSize + PageSize
  BY PageSizeAssumption

LEMMA NoPages == 0 * PageSize = 0
  BY PageSizeAssumption

LEMMA PageOf == ASSUME NEW q \in Request PROVE Page(q) \in Seq(Row)
<1>1. q.params \in Params /\ q.count \in Nat
  BY DEF Request
<1>2. Answer[q.params] \in Seq(Row) /\ q.count * PageSize \in Nat
  BY <1>1, AnswerRows, Pages
<1> QED
  BY <1>2, RowsOf, PageSizeAssumption DEF Page

\* A page that is not the last leads from the first c pages to the first c + 1, and
\* a last page leads to the whole answer.
LEMMA NextPage ==
  ASSUME NEW p \in Params, NEW c \in Nat, c * PageSize <= Len(Answer[p])
  PROVE  LET page == Page([params |-> p, count |-> c])
             before == Rows(Answer[p], 0, c * PageSize)
         IN  /\ ~LastPage(page) =>
                  /\ before \o page = Rows(Answer[p], 0, (c + 1) * PageSize)
                  /\ (c + 1) * PageSize <= Len(Answer[p])
             /\ LastPage(page) => before \o page = Answer[p]
<1> DEFINE answer == Answer[p]
           start == c * PageSize
           page == Page([params |-> p, count |-> c])
           before == Rows(answer, 0, start)
<1>1. answer \in Seq(Row) /\ Len(answer) \in Nat
  BY AnswerRows, LenProperties
<1>2. /\ start \in Nat /\ (c + 1) * PageSize = start + PageSize
      /\ start <= Len(answer) /\ PageSize \in Nat
  BY Pages, PageSizeAssumption
<1>3. before = SubSeq(answer, 1, start)
  <2>1. 0 \in Nat /\ 0 + start <= Len(answer)
    BY <1>1, <1>2
  <2>2. before = SubSeq(answer, 0 + 1, 0 + start)
    BY <1>1, <1>2, <2>1, RowsInside
  <2> QED
    BY <1>2, <2>2
<1>4. SubSeq(answer, 1, Len(answer)) = answer
  BY <1>1, SubSeqFull, Zenon
<1>p. PageSize # 0 => page = Rows(answer, start, PageSize)
  BY DEF Page
<1> HIDE DEF answer, start, before, page
<1>5. CASE PageSize = 0
  <2>1. page = answer /\ LastPage(page)
    BY <1>5 DEF Page, LastPage, answer, page
  <2>2. start = 0
    BY <1>5 DEF start
  <2>3. before = << >>
    BY <1>3, <2>2, SubSeqEmpty
  <2>4. << >> \o answer = answer
    BY <1>1, ConcatEmptySeq, Zenon
  <2> QED
    BY <2>1, <2>3, <2>4 DEF answer, start, before, page
<1>6. CASE PageSize # 0 /\ start + PageSize <= Len(answer)
  <2>1. page = SubSeq(answer, start + 1, start + PageSize) /\ Len(page) = PageSize
    <3>1. /\ Rows(answer, start, PageSize) = SubSeq(answer, start + 1, start + PageSize)
          /\ Len(Rows(answer, start, PageSize)) = PageSize
      BY ONLY <1>1, <1>2, <1>6, RowsInside
    <3> QED
      BY <1>6, <1>p, <3>1
  <2>2. ~LastPage(page)
    BY <1>2, <1>6, <2>1 DEF LastPage
  <2>3. before \o page = SubSeq(answer, 1, start + PageSize)
    <3>1. SubSeq(answer, 1, start) \o SubSeq(answer, start + 1, start + PageSize)
            = SubSeq(answer, 1, start + PageSize)
      <4>1. start + PageSize \in Nat /\ start <= start + PageSize
        BY <1>2
      <4> QED
        BY <1>1, <1>2, <1>6, <4>1, Adjacent
    <3> QED
      BY <1>3, <2>1, <3>1
  <2>4. Rows(answer, 0, start + PageSize) = SubSeq(answer, 0 + 1, 0 + (start + PageSize))
    <3>1. 0 \in Nat /\ start + PageSize \in Nat /\ 0 + (start + PageSize) <= Len(answer)
      BY <1>1, <1>2, <1>6
    <3> QED
      BY <1>1, <3>1, RowsInside
  <2>5. before \o page = Rows(answer, 0, (c + 1) * PageSize)
    BY <1>2, <2>3, <2>4
  <2> QED
    BY <1>2, <1>6, <2>2, <2>5 DEF answer, start, before, page
<1>7. CASE PageSize # 0 /\ start + PageSize > Len(answer)
  <2>1. page = SubSeq(answer, start + 1, Len(answer)) /\ Len(page) = Len(answer) - start
    BY <1>1, <1>2, <1>7, <1>p, RowsToEnd
  <2>2. LastPage(page)
    BY <1>1, <1>2, <1>7, <2>1 DEF LastPage
  <2>3. before \o page = answer
    <3>1. SubSeq(answer, 1, start) \o SubSeq(answer, start + 1, Len(answer))
            = SubSeq(answer, 1, Len(answer))
      <4>1. Len(answer) <= Len(answer)
        BY <1>1
      <4> QED
        BY ONLY <1>1, <1>2, <4>1, Adjacent
    <3> QED
      BY <1>3, <1>4, <2>1, <3>1
  <2> QED
    BY <2>2, <2>3 DEF answer, start, before, page
<1>8. PageSize = 0 \/ start + PageSize <= Len(answer) \/ start + PageSize > Len(answer)
  BY ONLY <1>1, <1>2
<1> QED
  BY <1>5, <1>6, <1>7, <1>8, Zenon

-----------------------------------------------------------------------------
(* The inductive invariant *)

\* A query that runs has asked for the page it counts, which begins within the answer.
Asked ==
  running = 1 =>
    /\ sent[newest] = [params |-> params, count |-> count]
    /\ count * PageSize <= Len(Answer[params])

\* A query that is over was ended by its newest request.
Ended ==
  running = 0 =>
    \/ reply = "missing"
    \/ reply = "rows" /\ LastPage(Page(sent[newest]))

QueryInv == TypeOK /\ newest > 0 /\ Asked /\ Ended /\ InOrder /\ AllRows

LEMMA PrefixGrows ==
  ASSUME NEW s \in Seq(Row), NEW t \in Seq(Row), NEW u \in Seq(Row), IsPrefix(s, t)
  PROVE  IsPrefix(s, t \o u)
<1>1. /\ Len(s) \in Nat /\ Len(t) \in Nat /\ Len(s) <= Len(t)
      /\ SubSeq(s, 1, Len(s)) = SubSeq(t, 1, Len(s))
  BY LenProperties DEF IsPrefix
<1>2. Len(t \o u) = Len(t) + Len(u) /\ Len(u) \in Nat
  BY ConcatProperties, LenProperties
<1>3. SubSeq(t \o u, 1, Len(s)) = SubSeq(t, 1, Len(s))
  <2>1. CASE Len(s) = 0
    BY <2>1, SubSeqEmpty
  <2>2. CASE Len(s) # 0
    <3>1. 1 \in 1 .. Len(t) /\ Len(s) \in 1 .. Len(t)
      BY <1>1, <2>2
    <3> QED
      BY ONLY <3>1, s \in Seq(Row), t \in Seq(Row), u \in Seq(Row), SubSeqOfConcat1, Zenon
  <2> QED
    BY <2>1, <2>2
<1> QED
  BY <1>1, <1>2, <1>3 DEF IsPrefix

LEMMA PrefixSelf == ASSUME NEW s \in Seq(Row) PROVE IsPrefix(s, s)
  BY LenProperties DEF IsPrefix

\* The parts of TypeOK the steps need.
LEMMA Types ==
  ASSUME TypeOK
  PROVE  /\ params \in Params /\ count \in Nat /\ results \in Seq(Row)
         /\ sent \in Seq(Request) /\ newest \in Nat /\ pending \subseteq 1 .. newest
         /\ newest > 0 => sent[newest] \in Request
<1>1. /\ params \in Params /\ count \in Nat /\ results \in Seq(Row)
      /\ sent \in Seq(Request) /\ pending \subseteq 1 .. newest
  BY DEF TypeOK, Row, Request
<1>2. newest \in Nat
  BY <1>1, LenProperties DEF newest
<1>3. \A i \in 1 .. newest : sent[i] \in Request
  BY <1>1, ElementOfSeq DEF newest
<1> QED
  BY <1>1, <1>2, <1>3

\* The types of the next state, part by part.
LEMMA NextTypes ==
  ASSUME params' \in Params, count' \in Nat, running' \in {0, 1}, results' \in Seq(Row),
         sent' \in Seq(Request), pending' \subseteq 1 .. newest', reply' \in Replies,
         reply' = "none" <=> newest' \in pending'
  PROVE  TypeOK'
  BY DEF TypeOK, Row, Request

\* The steps of load: one more request, which is the newest.
LEMMA LoadTypes ==
  ASSUME TypeOK, NEW p \in Params, NEW c \in Nat, load(p, c)
  PROVE  /\ sent' \in Seq(Request) /\ newest' = newest + 1
         /\ sent'[newest'] = [params |-> p, count |-> c]
         /\ running' = 1 /\ reply' = "none"
<1>1. sent \in Seq(Request) /\ [params |-> p, count |-> c] \in Request
  BY Types DEF Request
<1> QED
  BY <1>1, AppendProperties DEF load, newest

-----------------------------------------------------------------------------
(* The steps *)

LEMMA QueryInit == Init => QueryInv
<1> SUFFICES ASSUME NEW p \in Params, InitWith(p)
             PROVE  QueryInv
  BY DEF Init
<1>1. Len(Answer[p]) \in Nat /\ Answer[p] \in Seq(Row)
  BY AnswerRows, LenProperties
<1>2. newest = 1 /\ sent[newest] = [params |-> p, count |-> 0] /\ sent \in Seq(Request)
  BY DEF InitWith, newest, Request
<1>3. TypeOK
  BY <1>2 DEF InitWith, TypeOK, Request, Replies
<1>4. Asked
  BY <1>1, <1>2, NoPages DEF InitWith, Asked
<1>5. InOrder
  <2>1. Rows(Answer[p], 0, 0) = SubSeq(Answer[p], 0 + 1, 0 + 0)
    BY <1>1, RowsInside
  <2>2. SubSeq(Answer[p], 0 + 1, 0 + 0) = << >>
    BY SubSeqEmpty
  <2> QED
    BY <2>1, <2>2, NoPages DEF InitWith, InOrder
<1> QED
  BY <1>2, <1>3, <1>4, <1>5 DEF InitWith, QueryInv, Ended, AllRows

LEMMA AskStep ==
  ASSUME QueryInv, NEW p \in Params, Ask(p)
  PROVE  QueryInv'
<1>1. /\ params' = p /\ count' = 0 /\ results' = << >> /\ load(p, 0)
      /\ pending' = pending \cup {newest + 1}
  BY DEF Ask
<1>2. /\ sent' \in Seq(Request) /\ newest' = newest + 1
      /\ sent'[newest'] = [params |-> p, count |-> 0]
      /\ running' = 1 /\ reply' = "none"
  BY <1>1, LoadTypes DEF QueryInv
<1>3. Len(Answer[p]) \in Nat /\ Answer[p] \in Seq(Row)
  BY AnswerRows, LenProperties
<1>4. TypeOK'
  <2>1. pending' \subseteq 1 .. newest' /\ newest' \in pending'
    <3>1. pending \subseteq 1 .. newest /\ newest \in Nat
      BY Types DEF QueryInv
    <3> QED
      BY <1>1, <1>2, <3>1
  <2>2. count' \in Nat /\ results' \in Seq(Row)
    BY <1>1, EmptySeq, Zenon
  <2> QED
    BY <1>1, <1>2, <2>1, <2>2, NextTypes DEF Replies
<1>5. Asked'
  BY <1>1, <1>2, <1>3, NoPages DEF Asked
<1>6. InOrder'
  <2>1. Rows(Answer[p], 0, 0) = SubSeq(Answer[p], 0 + 1, 0 + 0)
    BY <1>3, RowsInside
  <2>2. SubSeq(Answer[p], 0 + 1, 0 + 0) = << >>
    BY SubSeqEmpty
  <2> QED
    BY <1>1, <2>1, <2>2, NoPages DEF InOrder
<1>7. newest' > 0
  BY <1>2, Types DEF QueryInv
<1> QED
  BY <1>2, <1>4, <1>5, <1>6, <1>7 DEF QueryInv, Ended, AllRows

LEMMA IgnoreStep ==
  ASSUME QueryInv, NEW x \in pending, NEW r \in Replies, Ignore(x, r)
  PROVE  QueryInv'
<1>1. newest' = newest
  BY DEF Ignore, newest
<1>2. x \in 1 .. newest /\ newest \in Nat
  BY Types DEF QueryInv
<1>3. TypeOK'
  BY <1>1, <1>2 DEF Ignore, Fires, Found, StillPending, QueryInv, TypeOK, Replies
<1>4. running = 1
  BY DEF Ignore, Fires, Found, QueryInv, TypeOK, Ended
<1> QED
  BY <1>1, <1>3, <1>4 DEF Ignore, QueryInv, Asked, Ended, InOrder, AllRows

LEMMA RetryStep ==
  ASSUME QueryInv, NEW x \in pending, NEW r \in Replies, Retry(x, r)
  PROVE  QueryInv'
<1>1. /\ params' = params /\ count' = count /\ results' = results /\ load(params, count)
      /\ pending' = StillPending(x, r) \cup {newest + 1}
      /\ StillPending(x, r) \subseteq pending
  BY DEF Retry, StillPending
<1>2. /\ sent' \in Seq(Request) /\ newest' = newest + 1
      /\ sent'[newest'] = [params |-> params, count |-> count]
      /\ running' = 1 /\ reply' = "none"
  BY <1>1, LoadTypes, Types DEF QueryInv
<1>3. TypeOK'
  <2>1. pending' \subseteq 1 .. newest' /\ newest' \in pending'
    <3>1. pending \subseteq 1 .. newest /\ newest \in Nat
      BY Types DEF QueryInv
    <3>2. /\ pending' = StillPending(x, r) \cup {newest + 1} /\ newest' = newest + 1
          /\ StillPending(x, r) \subseteq pending
      BY <1>1, <1>2
    <3>3. 1 .. newest \subseteq 1 .. newest' /\ newest + 1 \in 1 .. newest'
      BY ONLY <3>1, <3>2
    <3> QED
      BY ONLY <3>1, <3>2, <3>3, Zenon
  <2>2. params' \in Params /\ count' \in Nat /\ results' \in Seq(Row)
    BY <1>1, Types DEF QueryInv
  <2> QED
    BY <1>1, <1>2, <2>1, <2>2, NextTypes DEF Replies
<1>4. running = 1
  BY DEF Retry, Fires, Found, QueryInv, TypeOK, Ended
<1>5. newest' > 0
  BY <1>2, Types DEF QueryInv
<1> QED
  BY <1>1, <1>2, <1>3, <1>4, <1>5 DEF QueryInv, Asked, Ended, InOrder, AllRows

LEMMA MoreStep ==
  ASSUME QueryInv, NEW x \in pending, NEW r \in Replies, More(x, r)
  PROVE  QueryInv'
<1> DEFINE page == Page(sent[newest])
<1>1. /\ params' = params /\ count' = count + 1 /\ results' = results \o page
      /\ load(params, count + 1) /\ ~LastPage(page)
      /\ pending' = StillPending(x, r) \cup {newest + 1}
      /\ StillPending(x, r) \subseteq pending
  BY DEF More, StillPending
<1>2. running = 1
  BY DEF More, Fires, Found, QueryInv, TypeOK, Ended
<1>3. /\ params \in Params /\ count \in Nat /\ results \in Seq(Row)
      /\ newest \in Nat /\ sent[newest] \in Request
  BY Types DEF QueryInv
<1>4. /\ sent' \in Seq(Request) /\ newest' = newest + 1
      /\ sent'[newest'] = [params |-> params, count |-> count + 1]
      /\ running' = 1 /\ reply' = "none"
  BY <1>1, <1>3, LoadTypes, SMTT(20) DEF QueryInv
<1>5. /\ page = Page([params |-> params, count |-> count])
      /\ count * PageSize <= Len(Answer[params])
      /\ results = Rows(Answer[params], 0, count * PageSize)
  BY <1>2 DEF QueryInv, Asked, InOrder
<1>6. /\ results' = Rows(Answer[params], 0, (count + 1) * PageSize)
      /\ (count + 1) * PageSize <= Len(Answer[params])
  BY <1>1, <1>3, <1>5, NextPage
<1>7. results' \in Seq(Row)
  BY <1>1, <1>3, PageOf, ConcatProperties
<1>8. TypeOK'
  <2>1. pending' \subseteq 1 .. newest' /\ newest' \in pending'
    <3>1. pending \subseteq 1 .. newest /\ newest \in Nat
      BY Types DEF QueryInv
    <3>2. /\ pending' = StillPending(x, r) \cup {newest + 1} /\ newest' = newest + 1
          /\ StillPending(x, r) \subseteq pending
      BY <1>1, <1>4
    <3>3. 1 .. newest \subseteq 1 .. newest' /\ newest + 1 \in 1 .. newest'
      BY ONLY <3>1, <3>2
    <3> QED
      BY ONLY <3>1, <3>2, <3>3, Zenon
  <2>2. params' \in Params /\ count' \in Nat
    BY <1>1, <1>3
  <2> QED
    BY <1>1, <1>4, <1>7, <2>1, <2>2, NextTypes DEF Replies
<1> QED
  BY <1>1, <1>3, <1>4, <1>6, <1>8 DEF QueryInv, Asked, Ended, InOrder, AllRows

LEMMA FinishStep ==
  ASSUME QueryInv, NEW x \in pending, NEW r \in Replies, Finish(x, r)
  PROVE  QueryInv'
<1> DEFINE page == Page(sent[newest])
<1>1. /\ params' = params /\ count' = count /\ sent' = sent /\ newest' = newest
      /\ running' = 0 /\ reply' = Found(x, r) /\ pending' = StillPending(x, r)
      /\ \/ Found(x, r) = "rows" /\ LastPage(page) /\ results' = results \o page
         \/ Found(x, r) = "missing" /\ UNCHANGED results
  BY DEF Finish, newest
<1>2. /\ params \in Params /\ count \in Nat /\ results \in Seq(Row)
      /\ newest \in Nat /\ sent[newest] \in Request /\ page \in Seq(Row)
      /\ Answer[params] \in Seq(Row)
  BY Types, PageOf, AnswerRows DEF QueryInv
<1>3. results' \in Seq(Row)
  BY <1>1, <1>2, ConcatProperties
<1>4. reply' = "none" <=> newest' \in pending'
  BY <1>1 DEF Finish, Fires, Found, StillPending, QueryInv, TypeOK
<1>5. TypeOK'
  BY <1>1, <1>2, <1>3, <1>4 DEF Found, StillPending, QueryInv, TypeOK, Row, Replies
<1>6. Ended'
  BY <1>1 DEF Ended
<1>7. AllRows'
  <2> SUFFICES ASSUME Found(x, r) = "rows", LastPage(page), results' = results \o page
               PROVE  IsPrefix(Answer[params], results \o page)
    BY <1>1 DEF AllRows
  <2>1. CASE running = 1
    <3>1. /\ page = Page([params |-> params, count |-> count])
          /\ count * PageSize <= Len(Answer[params])
          /\ results = Rows(Answer[params], 0, count * PageSize)
      BY <2>1 DEF QueryInv, Asked, InOrder
    <3>2. results \o page = Answer[params]
      BY <1>2, <3>1, NextPage
    <3> QED
      BY <1>2, <3>2, PrefixSelf
  <2>2. CASE running = 0
    <3>1. reply = "rows"
      BY <2>2 DEF Found, QueryInv, TypeOK, Ended
    <3>2. IsPrefix(Answer[params], results)
      BY <2>2, <3>1 DEF QueryInv, AllRows
    <3> QED
      BY <1>2, <3>2, PrefixGrows
  <2> QED
    BY <2>1, <2>2 DEF QueryInv, TypeOK
<1> QED
  BY <1>1, <1>5, <1>6, <1>7 DEF QueryInv, Asked, InOrder

LEMMA QueryStep == QueryInv /\ [Next]_vars => QueryInv'
<1> SUFFICES ASSUME QueryInv, [Next]_vars
             PROVE  QueryInv'
  OBVIOUS
<1>1. ASSUME NEW p \in Params, Ask(p) PROVE QueryInv'
  BY <1>1, AskStep
<1>2. ASSUME NEW x \in pending, NEW r \in Replies, Process(x, r) PROVE QueryInv'
  BY <1>2, IgnoreStep, RetryStep, MoreStep, FinishStep DEF Process
<1>3. CASE UNCHANGED vars
  BY <1>3 DEF vars, newest, QueryInv, TypeOK, Asked, Ended, InOrder, AllRows
<1> QED
  BY <1>1, <1>2, <1>3 DEF Next, Quiet

-----------------------------------------------------------------------------
(* The theorems *)

\* The inductive invariant of a query, for every page size and all answers.
THEOREM QueryInvariant == Spec => []QueryInv
  BY QueryInit, QueryStep, PTL DEF Spec

\* Type correctness of a query.
THEOREM QueryTypes == Spec => []TypeOK
<1>1. QueryInv => TypeOK
  BY DEF QueryInv
<1> QED
  BY <1>1, QueryInvariant, PTL

\* The rows of a running query are the first pages of the answer it asked for, and a
\* query that rows have ended has the whole answer, whatever requests were abandoned.
THEOREM QueryHasFirstPages == Spec => []HasFirstPages
<1>1. QueryInv => HasFirstPages
  BY DEF QueryInv, HasFirstPages
<1> QED
  BY <1>1, QueryInvariant, PTL

-----------------------------------------------------------------------------
(* The two queries of a playlist (module Playlist) and the table they share *)

\* What the search query has sent and received.
SearchTyped ==
  /\ s_params \in Params
  /\ s_count \in Nat
  /\ s_results \in Seq(Row)
  /\ s_sent \in Seq(Request)
  /\ s_pending \subseteq 1 .. Len(s_sent)

\* What the types of the search query say besides SearchTyped: what it has of an answer.
SearchReplied ==
  /\ s_running \in {0, 1} /\ s_reply \in Replies
  /\ s_reply = "none" <=> Len(s_sent) \in s_pending

PlaylistInv == SearchTyped /\ SearchShowsResults

\* Rows that are all in the table are not added again, and those behind them are.
LEMMA OnlyNewRows ==
  ASSUME NEW old \in Seq(Row), NEW page \in Seq(Row)
  PROVE  old \o SubSeq(old \o page, Len(old) + 1, Len(old \o page)) = old \o page
<1> DEFINE all == old \o page
<1>1. all \in Seq(Row) /\ Len(all) = Len(old) + Len(page)
  BY ConcatProperties
<1>2. Len(old) \in Nat /\ Len(page) \in Nat
  BY LenProperties
<1>3. SubSeq(all, Len(old) + 1, Len(all)) = page
  <2>1. Len(SubSeq(all, Len(old) + 1, Len(all))) = Len(page)
    BY <1>1, <1>2
  <2>2. \A i \in 1 .. Len(page) : SubSeq(all, Len(old) + 1, Len(all))[i] = page[i]
    BY <1>1, <1>2
  <2> QED
    BY <2>1, <2>2, <1>1, <1>2
<1> QED
  BY <1>3, Zenon

LEMMA LoadTyped ==
  ASSUME SearchTyped, NEW p \in Params, NEW c \in Nat, search_query!load(p, c)
  PROVE  s_sent' \in Seq(Request) /\ Len(s_sent') = Len(s_sent) + 1
<1>1. [params |-> p, count |-> c] \in Request
  BY DEF Request
<1> QED
  BY <1>1, AppendProperties DEF SearchTyped, search_query!load

LEMMA SearchAsked ==
  ASSUME SearchTyped, NEW p \in Params, search_query!Ask(p)
  PROVE  SearchTyped' /\ s_params' = p /\ s_results' = << >>
<1>1. s_sent' \in Seq(Request) /\ Len(s_sent') = Len(s_sent) + 1
  BY LoadTyped DEF search_query!Ask
<1>2. s_pending' = s_pending \cup {Len(s_sent) + 1} /\ Len(s_sent) \in Nat
  BY LenProperties DEF SearchTyped, search_query!Ask, search_query!newest
<1>3. s_pending' \subseteq 1 .. Len(s_sent')
  <2>1. PICK n \in Nat : n = Len(s_sent)
    BY <1>2
  <2>2. s_pending \subseteq 1 .. n /\ s_pending' = s_pending \cup {n + 1} /\ Len(s_sent') = n + 1
    BY <1>1, <1>2, <2>1 DEF SearchTyped
  <2> QED
    BY ONLY <2>2
<1> QED
  BY <1>1, <1>3, EmptySeq DEF SearchTyped, search_query!Ask

LEMMA SearchParamsSet ==
  ASSUME SearchTyped, NEW p \in Params, search_query!SetParams(p)
  PROVE  SearchTyped' /\ s_params' = p /\ s_results' = s_results
  BY DEF SearchTyped, search_query!SetParams

\* An event of a request: the results stay, or grow by a page.
LEMMA SearchEvent ==
  ASSUME SearchTyped, NEW x \in s_pending, NEW r, search_query!Process(x, r)
  PROVE  /\ SearchTyped' /\ s_params' = s_params
         /\ search_query!Ignore(x, r) \/ search_query!Retry(x, r)
              => s_results' = s_results
         /\ \E page \in Seq(Row) : s_results' = s_results \o page
<1> DEFINE last == s_sent[Len(s_sent)]
           page == search_query!Page(last)
<1>1. Len(s_sent) \in Nat /\ x \in 1 .. Len(s_sent)
  BY LenProperties DEF SearchTyped
<1>2. last \in Request
  BY <1>1, LenProperties DEF SearchTyped
<1>3. page \in Seq(Row)
  <2>1. page = Page(last)
    BY DEF Page, Rows, Min, search_query!Page, search_query!Rows, search_query!Min
  <2> QED
    BY <1>2, <2>1, PageOf
<1>4. s_results \o page \in Seq(Row) /\ << >> \in Seq(Row) /\ s_results \o << >> = s_results
  BY <1>3, ConcatProperties, EmptySeq DEF SearchTyped
<1>5. search_query!StillPending(x, r) \subseteq 1 .. Len(s_sent)
  BY DEF search_query!StillPending, SearchTyped
<1>6. CASE search_query!Ignore(x, r)
  BY <1>4, <1>5, <1>6 DEF search_query!Ignore, SearchTyped
<1>7. CASE search_query!Retry(x, r)
  <2>1. s_sent' \in Seq(Request) /\ Len(s_sent') = Len(s_sent) + 1
    BY <1>7, LoadTyped DEF search_query!Retry, SearchTyped
  <2>2. s_pending' \subseteq 1 .. Len(s_sent')
    BY <1>1, <1>5, <1>7, <2>1 DEF search_query!Retry, search_query!newest
  <2> QED
    BY <1>4, <1>7, <2>1, <2>2 DEF search_query!Retry, SearchTyped
<1>8. CASE search_query!More(x, r)
  <2>1. s_count + 1 \in Nat
    BY DEF SearchTyped
  <2>2. s_sent' \in Seq(Request) /\ Len(s_sent') = Len(s_sent) + 1
    BY <1>8, <2>1, LoadTyped DEF search_query!More, SearchTyped
  <2>3. s_pending' \subseteq 1 .. Len(s_sent')
    BY <1>1, <1>5, <1>8, <2>2 DEF search_query!More, search_query!newest
  <2>4. s_results' = s_results \o page
    BY <1>8 DEF search_query!More, search_query!newest
  <2>5. SearchTyped' /\ s_params' = s_params
    BY <1>4, <1>8, <2>1, <2>2, <2>3, <2>4 DEF search_query!More, SearchTyped
  <2>6. ~search_query!Ignore(x, r) /\ ~search_query!Retry(x, r)
    BY <1>8 DEF search_query!More, search_query!Ignore, search_query!Retry
  <2> QED
    BY <1>3, <2>4, <2>5, <2>6
<1>9. CASE search_query!Finish(x, r)
  <2>1. s_results' = s_results \o page \/ s_results' = s_results
    BY <1>9 DEF search_query!Finish, search_query!newest
  <2>2. SearchTyped' /\ s_params' = s_params
    BY <1>4, <1>5, <1>9, <2>1 DEF search_query!Finish, SearchTyped
  <2>3. ~search_query!Ignore(x, r) /\ ~search_query!Retry(x, r)
    BY <1>9 DEF search_query!Finish, search_query!Ignore, search_query!Retry
  <2> QED
    BY <1>3, <1>4, <2>1, <2>2, <2>3
<1> QED
  BY <1>6, <1>7, <1>8, <1>9 DEF search_query!Process

LEMMA PlaylistStart ==
  ASSUME PlaylistInit
  PROVE  PlaylistInv
<1>1. s_params \in Params /\ s_params.text = {}
  BY ParamsAssumption, OrderAssumption DEF PlaylistInit, First
<1>2. SearchTyped
  BY <1>1, EmptySeq DEF PlaylistInit, SearchTyped
<1> QED
  BY <1>1, <1>2 DEF PlaylistInv, SearchShowsResults

\* Parameters of a search with another text, and with another order.
LEMMA OtherParams ==
  ASSUME SearchTyped
  PROVE  /\ s_params.text \subseteq Columns
         /\ \A text \in SUBSET Columns :
              [s_params EXCEPT !.text = text] \in Params /\ [s_params EXCEPT !.text = text].text = text
         /\ \A order \in Orders :
              /\ [s_params EXCEPT !.order = order] \in Params
              /\ [s_params EXCEPT !.order = order].text = s_params.text
         /\ [s_params EXCEPT !.order = @] = s_params
  BY ParamsAssumption DEF SearchTyped

LEMMA PlaylistSearchStep ==
  ASSUME PlaylistInv, NEW c \in Columns,
         Search(c) \/ ClearOne(c) \/ ClearAll(c)
  PROVE  PlaylistInv'
<1> USE DEF PlaylistInv, SearchShowsResults
<1>1. CASE Search(c)
  <2> DEFINE p == [s_params EXCEPT !.text = @ \cup {c}]
  <2>1. p \in Params
    BY OtherParams
  <2>2. search_query!Ask(p) /\ searching' = TRUE /\ table' = << >>
    BY <1>1 DEF Search
  <2> QED
    BY <2>1, <2>2, SearchAsked
<1>2. CASE ClearOne(c)
  <2> DEFINE p == [s_params EXCEPT !.text = @ \ {c}]
  <2>1. p \in Params
    BY OtherParams
  <2>2. /\ search_query!SetParams(p) /\ s_params.text # {}
        /\ UNCHANGED <<searching, table, s_found, s_reply>>
    BY <1>2 DEF ClearOne, list, found, search_query!SetParams
  <2> QED
    BY <2>1, <2>2, SearchParamsSet
<1>3. CASE ClearAll(c)
  <2> DEFINE p == [s_params EXCEPT !.text = {}]
  <2>1. p \in Params /\ p.text = {}
    BY OtherParams
  <2>2. search_query!SetParams(p)
    BY <1>3 DEF ClearAll
  <2> QED
    BY <2>1, <2>2, SearchParamsSet
<1> QED
  BY <1>1, <1>2, <1>3

LEMMA PlaylistSortStep ==
  ASSUME PlaylistInv, NEW o \in Orders,
         SortSongs(o) \/ SortSearch(o)
  PROVE  PlaylistInv'
<1> USE DEF PlaylistInv, SearchShowsResults
<1>1. CASE SortSongs(o)
  <2> DEFINE p == [s_params EXCEPT !.order = IF s_aliased THEN o ELSE @]
  <2>1. p \in Params /\ p.text = s_params.text
    <3>1. CASE s_aliased
      BY <3>1, OtherParams
    <3>2. CASE ~s_aliased
      BY <3>2, OtherParams DEF SearchTyped
    <3> QED
      BY <3>1, <3>2
  <2>2. ~searching /\ search_query!SetParams(p) /\ UNCHANGED <<searching, s_found, s_reply>>
    BY <1>1 DEF SortSongs, search_query!SetParams
  <2> QED
    BY <2>1, <2>2, SearchParamsSet
<1>2. CASE SortSearch(o)
  <2> DEFINE p == [s_params EXCEPT !.order = o]
  <2>1. p \in Params
    BY OtherParams
  <2>2. /\ searching /\ searching' = searching /\ table' = << >>
        /\ search_query!Ask(p)
    BY <1>2 DEF SortSearch
  <2> QED
    BY <2>1, <2>2, SearchAsked
<1> QED
  BY <1>1, <1>2

\* After an answer with errors and no rows, events of older requests find it again.
LEMMA ErrorStays ==
  ASSUME SearchReplied, s_reply = "missing", NEW x \in s_pending, NEW r, search_query!Process(x, r)
  PROVE  search_query!Finish(x, r) /\ s_reply' = "missing"
<1>1. search_query!Found(x, r) = "missing"
  BY DEF SearchReplied, search_query!Found, search_query!newest
<1> QED
  BY <1>1 DEF search_query!Process, search_query!Ignore, search_query!Retry, search_query!More,
              search_query!Finish

\* An event of the query for the songs, whose rows are not added while one searches.
LEMMA PlaylistSongsEvent ==
  ASSUME PlaylistInv, NEW x, NEW r, QueryWaits(x, r) \/ QueryMore(x, r) \/ QueryFinish(x, r)
  PROVE  PlaylistInv'
<1>1. UNCHANGED <<s_vars, s_found, searching>>
  BY DEF QueryWaits, QueryMore, QueryFinish, found, list
<1>2. searching => table' = table
  BY DEF QueryWaits, QueryMore, QueryFinish, SongAdded
<1> QED
  BY <1>1, <1>2 DEF s_vars, PlaylistInv, SearchTyped, SearchShowsResults

LEMMA PlaylistEvent ==
  ASSUME PlaylistInv, SearchReplied, NEW x, NEW r,
         \/ x \in pending /\ (QueryWaits(x, r) \/ QueryMore(x, r) \/ QueryFinish(x, r))
         \/ x \in s_pending /\ (SearchWaits(x, r) \/ SearchMore(x, r) \/ SearchFinish(x, r))
  PROVE  PlaylistInv'
<1> USE DEF PlaylistInv
<1>1. CASE QueryWaits(x, r) \/ QueryMore(x, r) \/ QueryFinish(x, r)
  BY <1>1, PlaylistSongsEvent
<1>2. CASE x \in s_pending /\ SearchWaits(x, r)
  <2>1. /\ search_query!Ignore(x, r) \/ search_query!Retry(x, r)
        /\ UNCHANGED <<searching, s_found, table>>
    BY <1>2 DEF SearchWaits, list, found
  <2>2. SearchTyped' /\ s_params' = s_params /\ s_results' = s_results
    BY <1>2, <2>1, SearchEvent DEF search_query!Process
  <2>3. s_reply = "missing" => s_reply' = "missing"
    BY <1>2, <2>1, ErrorStays DEF search_query!Process
  <2> QED
    BY <2>1, <2>2, <2>3 DEF SearchShowsResults
<1>3. CASE x \in s_pending /\ (SearchMore(x, r) \/ SearchFinish(x, r))
  <2>1. search_query!Process(x, r)
    BY <1>3 DEF SearchMore, SearchFinish, search_query!Process
  <2>2. SearchTyped' /\ s_params' = s_params
    BY <1>3, <2>1, SearchEvent
  <2>3. PICK page \in Seq(Row) : s_results' = s_results \o page
    BY <1>3, <2>1, SearchEvent
  <2>4. AddRows(s_results') /\ table = s_results => table' = s_results'
    BY <2>3, OnlyNewRows DEF AddRows, SearchTyped
  <2>5. CASE SearchMore(x, r)
    <3>1. AddRows(s_results') /\ searching' = searching
      BY <2>5 DEF SearchMore, list
    <3>2. s_reply # "missing"
      <4>1. s_reply' = "none"
        BY <2>5 DEF SearchMore, search_query!More, search_query!load
      <4>2. x \in s_pending
        BY <1>3
      <4> QED
        BY <2>1, <4>1, <4>2, ErrorStays
    <3> QED
      BY <2>2, <2>4, <3>1, <3>2 DEF SearchShowsResults
  <2>6. CASE SearchFinish(x, r) /\ s_reply' = "rows"
    <3>1. AddRows(s_results') /\ searching'
      BY <2>6 DEF SearchFinish
    <3>2. s_reply # "missing"
      BY <1>3, <2>1, <2>6, ErrorStays
    <3> QED
      BY <2>2, <2>4, <3>1, <3>2 DEF SearchShowsResults
  <2>7. CASE SearchFinish(x, r) /\ s_reply' # "rows"
    <3>1. s_reply' = "missing" /\ s_results' = s_results
      BY <2>7 DEF SearchFinish, search_query!Finish
    <3>2. table' = table /\ (s_found' <=> s_found) /\ (searching' <=> s_found)
      BY <2>7 DEF SearchFinish
    <3> QED
      BY <2>2, <3>1, <3>2 DEF SearchShowsResults
  <2> QED
    BY <1>3, <2>5, <2>6, <2>7
<1> QED
  BY <1>1, <1>2, <1>3

LEMMA PlaylistStep ==
  ASSUME PlaylistInv, SearchReplied, [PlaylistNext]_playlist_vars
  PROVE  PlaylistInv'
<1>1. CASE \E c \in Columns : Search(c) \/ ClearOne(c) \/ ClearAll(c)
  BY <1>1, PlaylistSearchStep
<1>2. CASE \E o \in Orders : SortSongs(o) \/ SortSearch(o)
  BY <1>2, PlaylistSortStep
<1>3. CASE \/ \E x \in pending, r \in Replies :
                QueryWaits(x, r) \/ QueryMore(x, r) \/ QueryFinish(x, r)
           \/ \E x \in s_pending, r \in Replies :
                SearchWaits(x, r) \/ SearchMore(x, r) \/ SearchFinish(x, r)
  BY <1>3, PlaylistEvent
<1>4. CASE UNCHANGED playlist_vars
  BY <1>4 DEF playlist_vars, s_vars, found, list, PlaylistInv, SearchTyped,
              SearchShowsResults
<1> QED
  BY <1>1, <1>2, <1>3, <1>4 DEF PlaylistNext

LEMMA SearchTypes == search_query!TypeOK <=> SearchTyped /\ SearchReplied
  BY DEF search_query!TypeOK, search_query!newest, search_query!Replies, search_query!Range, Range,
         SearchTyped, SearchReplied, Row, Request, Replies

LEMMA SearchTypesNext ==
  ASSUME SearchTyped', SearchReplied'
  PROVE  search_query!TypeOK'
  BY DEF search_query!TypeOK, search_query!newest, search_query!Replies, search_query!Range, Range,
         SearchTyped, SearchReplied, Row, Request, Replies

LEMMA SearchLoads ==
  ASSUME SearchTyped, NEW p \in Params, NEW c \in Nat, search_query!load(p, c),
         NEW still, s_pending' = still \cup {Len(s_sent) + 1}
  PROVE  SearchReplied'
  BY LoadTyped DEF search_query!load, SearchReplied, Replies

\* A request that is over is no longer waited for.
LEMMA SearchHeard ==
  ASSUME SearchTyped, SearchReplied, NEW x \in s_pending, NEW r \in Replies,
         s_sent' = s_sent, s_running' \in {0, 1}, s_reply' = search_query!Found(x, r),
         s_pending' = search_query!StillPending(x, r)
  PROVE  SearchReplied'
  BY DEF search_query!Found, search_query!StillPending, search_query!newest, SearchReplied, Replies

LEMMA SearchEventReplied ==
  ASSUME SearchTyped, SearchReplied, NEW x \in s_pending, NEW r \in Replies, search_query!Process(x, r)
  PROVE  SearchReplied'
<1>1. CASE search_query!Ignore(x, r) \/ search_query!Finish(x, r)
  <2>1. /\ s_sent' = s_sent /\ s_running' \in {0, 1} /\ s_reply' = search_query!Found(x, r)
        /\ s_pending' = search_query!StillPending(x, r)
    BY <1>1 DEF search_query!Ignore, search_query!Finish, SearchReplied
  <2> QED
    BY <2>1, SearchHeard
<1>2. CASE search_query!Retry(x, r)
  BY <1>2, SearchLoads DEF search_query!Retry, search_query!newest, SearchTyped
<1>3. CASE search_query!More(x, r)
  <2>1. s_count + 1 \in Nat /\ s_params \in Params
    BY DEF SearchTyped
  <2> QED
    BY <1>3, <2>1, SearchLoads DEF search_query!More, search_query!newest
<1> QED
  BY <1>1, <1>2, <1>3 DEF search_query!Process

\* The same of the query for the songs.
LEMMA SongsLoaded ==
  ASSUME TypeOK, NEW p \in Params, NEW c \in Nat, load(p, c), params' = p, count' = c,
         results' \in Seq(Row), NEW still \in SUBSET pending, pending' = still \cup {newest + 1}
  PROVE  TypeOK'
<1>1. /\ sent' \in Seq(Request) /\ newest' = newest + 1 /\ running' = 1 /\ reply' = "none"
      /\ pending \subseteq 1 .. newest /\ newest \in Nat
  BY LoadTypes, Types
<1>2. pending' \subseteq 1 .. newest' /\ newest' \in pending'
  <2>1. 1 .. newest \subseteq 1 .. newest' /\ newest + 1 \in 1 .. newest'
    BY ONLY <1>1
  <2>2. still \subseteq pending /\ pending' = still \cup {newest + 1} /\ newest' = newest + 1
    BY <1>1
  <2> QED
    BY ONLY <1>1, <2>1, <2>2, Zenon
<1> QED
  BY <1>1, <1>2, NextTypes DEF Replies

LEMMA SongsAsked ==
  ASSUME TypeOK, NEW p \in Params, Ask(p)
  PROVE  TypeOK' /\ params' = p
<1>1. /\ load(p, 0) /\ params' = p /\ count' = 0 /\ pending' = pending \cup {newest + 1}
      /\ results' = << >> /\ << >> \in Seq(Row)
  BY EmptySeq DEF Ask
<1> QED
  BY <1>1, SongsLoaded

LEMMA SongsParamsSet ==
  ASSUME TypeOK, NEW p \in Params, SetParams(p)
  PROVE  TypeOK' /\ params' = p
<1>1. params' = p /\ UNCHANGED <<count, running, results, sent, pending, reply>>
  BY DEF SetParams
<1> QED
  BY <1>1 DEF TypeOK, newest

LEMMA SongsHeard ==
  ASSUME TypeOK, NEW x \in pending, NEW r \in Replies,
         UNCHANGED <<params, count, sent>>, running' \in {0, 1}, results' \in Seq(Row),
         reply' = Found(x, r), pending' = StillPending(x, r)
  PROVE  TypeOK'
<1>1. newest' = newest
  BY DEF newest
<1>2. pending' \subseteq 1 .. newest' /\ reply' \in Replies /\ (reply' = "none" <=> newest' \in pending')
  BY <1>1 DEF TypeOK, Found, StillPending
<1> QED
  BY <1>2, Types, NextTypes

LEMMA SongsEvent ==
  ASSUME TypeOK, NEW x \in pending, NEW r \in Replies, Process(x, r)
  PROVE  TypeOK' /\ params' = params
<1>1. /\ params \in Params /\ count \in Nat /\ results \in Seq(Row) /\ running \in {0, 1}
      /\ StillPending(x, r) \in SUBSET pending
  BY Types DEF TypeOK, StillPending
<1>2. Page(sent[newest]) \in Seq(Row)
  <2>1. newest > 0
    BY Types
  <2> QED
    BY <2>1, Types, PageOf
<1>3. results \o Page(sent[newest]) \in Seq(Row)
  BY <1>1, <1>2, ConcatProperties
<1>4. CASE Ignore(x, r) \/ Finish(x, r)
  <2>1. /\ UNCHANGED <<params, count, sent>> /\ running' \in {0, 1} /\ results' \in Seq(Row)
        /\ reply' = Found(x, r) /\ pending' = StillPending(x, r)
    BY <1>1, <1>3, <1>4 DEF Ignore, Finish
  <2> QED
    BY <2>1, SongsHeard
<1>5. CASE Retry(x, r)
  <2>1. /\ load(params, count) /\ params' = params /\ count' = count /\ results' = results
        /\ pending' = StillPending(x, r) \cup {newest + 1}
    BY <1>5 DEF Retry
  <2> QED
    BY <1>1, <2>1, SongsLoaded
<1>6. CASE More(x, r)
  <2>1. /\ load(params, count + 1) /\ params' = params /\ count' = count + 1 /\ results' \in Seq(Row)
        /\ pending' = StillPending(x, r) \cup {newest + 1} /\ count + 1 \in Nat
    BY <1>1, <1>3, <1>6 DEF More
  <2> QED
    BY <1>1, <2>1, SongsLoaded
<1> QED
  BY <1>4, <1>5, <1>6 DEF Process

\* Parameters of the songs, which nobody searches.
LEMMA SongsOrder ==
  ASSUME PlaylistTypeOK, NEW o \in Orders
  PROVE  /\ params \in Params /\ params.text = {}
         /\ [params EXCEPT !.order = o] \in Params /\ [params EXCEPT !.order = o].text = {}
         /\ [params EXCEPT !.order = @] = params
  BY ParamsAssumption DEF PlaylistTypeOK, TypeOK

LEMMA PlaylistTyped == PlaylistInit => PlaylistTypeOK
<1> SUFFICES ASSUME PlaylistInit PROVE PlaylistTypeOK
  OBVIOUS
<1>1. First \in Params /\ First.text = {} /\ InitWith(First) /\ params = First
  BY ParamsAssumption, OrderAssumption DEF First, PlaylistInit, InitWith
<1>2. TypeOK
  BY <1>1, QueryInit DEF Init, QueryInv
<1>3. SearchTyped
  BY PlaylistStart DEF PlaylistInv
<1>4. SearchReplied
  BY DEF PlaylistInit, SearchReplied, Replies
<1> QED
  BY <1>1, <1>2, <1>3, <1>4, SearchTypes, OrderAssumption DEF PlaylistInit, PlaylistTypeOK

\* The rest of the types of a playlist.
ListTyped ==
  /\ q_found \in BOOLEAN /\ s_found \in BOOLEAN
  /\ q_aliased \in BOOLEAN /\ s_aliased \in BOOLEAN /\ searching \in BOOLEAN
  /\ sort \in Orders
  /\ onComplete \in {"first", "sort", "cleared"}
  /\ songs = Undefined \/ Len(songs) \in Nat

LEMMA PlaylistParts ==
  PlaylistTypeOK <=> TypeOK /\ SearchTyped /\ SearchReplied /\ ListTyped /\ params.text = {}
  BY SearchTypes DEF PlaylistTypeOK, ListTyped

LEMMA PlaylistPartsNext ==
  ASSUME TypeOK', SearchTyped', SearchReplied', ListTyped', params'.text = {}
  PROVE  PlaylistTypeOK'
  BY SearchTypesNext DEF PlaylistTypeOK, ListTyped

LEMMA SearchAskedReplied ==
  ASSUME SearchTyped, NEW p \in Params, search_query!Ask(p)
  PROVE  SearchTyped' /\ SearchReplied'
<1>1. /\ search_query!load(p, 0) /\ s_pending' = s_pending \cup {Len(s_sent) + 1}
  BY DEF search_query!Ask, search_query!newest
<1> QED
  BY <1>1, SearchAsked, SearchLoads

LEMMA SearchSetReplied ==
  ASSUME SearchTyped, SearchReplied, NEW p \in Params, search_query!SetParams(p)
  PROVE  SearchTyped' /\ SearchReplied'
  BY SearchParamsSet DEF search_query!SetParams, SearchReplied

LEMMA SongsStay ==
  ASSUME TypeOK, UNCHANGED vars
  PROVE  TypeOK' /\ params' = params
  BY DEF vars, TypeOK, newest

LEMMA SearchStays ==
  ASSUME SearchTyped, SearchReplied, UNCHANGED s_vars
  PROVE  SearchTyped' /\ SearchReplied'
  BY DEF s_vars, SearchTyped, SearchReplied

LEMMA PlaylistTypesUser ==
  ASSUME PlaylistTypeOK,
         \/ \E c \in Columns : Search(c) \/ ClearOne(c) \/ ClearAll(c)
         \/ \E o \in Orders : SortSongs(o) \/ SortSearch(o)
  PROVE  PlaylistTypeOK'
<1>0. TypeOK /\ SearchTyped /\ SearchReplied /\ ListTyped /\ params.text = {} /\ params \in Params
  BY PlaylistParts DEF TypeOK
<1>1. ASSUME NEW c \in Columns, Search(c)
      PROVE  PlaylistTypeOK'
  <2>1. [s_params EXCEPT !.text = @ \cup {c}] \in Params
    BY <1>0, OtherParams
  <2>2. SearchTyped' /\ SearchReplied'
    BY <1>0, <1>1, <2>1, SearchAskedReplied DEF Search
  <2>3. TypeOK' /\ params' = params
    BY <1>0, <1>1, SongsStay DEF Search
  <2>4. ListTyped'
    BY <1>0, <1>1 DEF Search, ListTyped
  <2> QED
    BY <1>0, <2>2, <2>3, <2>4, PlaylistPartsNext
<1>2. ASSUME NEW c \in Columns, ClearOne(c)
      PROVE  PlaylistTypeOK'
  <2>1. [s_params EXCEPT !.text = @ \ {c}] \in Params
    BY <1>0, OtherParams
  <2>2. SearchTyped' /\ SearchReplied'
    BY <1>0, <1>2, <2>1, SearchSetReplied DEF ClearOne
  <2>3. TypeOK' /\ params' = params
    BY <1>0, <1>2, SongsStay DEF ClearOne
  <2>4. ListTyped'
    BY <1>0, <1>2 DEF ClearOne, found, list, ListTyped
  <2> QED
    BY <1>0, <2>2, <2>3, <2>4, PlaylistPartsNext
<1>3. ASSUME NEW c \in Columns, ClearAll(c)
      PROVE  PlaylistTypeOK'
  <2>1. [s_params EXCEPT !.text = {}] \in Params
    BY <1>0, OtherParams
  <2>2. SearchTyped' /\ SearchReplied'
    BY <1>0, <1>3, <2>1, SearchSetReplied DEF ClearAll
  <2>3. TypeOK' /\ params' = params
    BY <1>0, <1>3, SongsAsked DEF ClearAll
  <2>4. ListTyped'
    BY <1>0, <1>3 DEF ClearAll, ListTyped
  <2> QED
    BY <1>0, <2>2, <2>3, <2>4, PlaylistPartsNext
<1>4. ASSUME NEW o \in Orders, SortSongs(o)
      PROVE  PlaylistTypeOK'
  <2>1. [s_params EXCEPT !.order = IF s_aliased THEN o ELSE @] \in Params
    <3>1. CASE s_aliased
      BY <1>0, <3>1, OtherParams
    <3>2. CASE ~s_aliased
      BY <1>0, <3>2, OtherParams DEF SearchTyped
    <3> QED
      BY <3>1, <3>2
  <2>2. SearchTyped' /\ SearchReplied'
    BY <1>0, <1>4, <2>1, SearchSetReplied DEF SortSongs
  <2>3. TypeOK' /\ params'.text = {}
    BY <1>0, <1>4, SongsOrder, SongsAsked DEF SortSongs
  <2>4. ListTyped'
    BY <1>0, <1>4 DEF SortSongs, ListTyped
  <2> QED
    BY <2>2, <2>3, <2>4, PlaylistPartsNext
<1>5. ASSUME NEW o \in Orders, SortSearch(o)
      PROVE  PlaylistTypeOK'
  <2>1. [s_params EXCEPT !.order = o] \in Params
    BY <1>0, OtherParams
  <2>2. SearchTyped' /\ SearchReplied'
    BY <1>0, <1>5, <2>1, SearchAskedReplied DEF SortSearch
  <2>3. PICK p \in Params : p.text = {} /\ SetParams(p)
    <3>1. CASE q_aliased
      BY <1>5, <3>1, SongsOrder DEF SortSearch
    <3>2. CASE ~q_aliased
      BY <1>5, <3>2, SongsOrder DEF SortSearch
    <3> QED
      BY <3>1, <3>2
  <2>4. TypeOK' /\ params'.text = {}
    BY <1>0, <2>3, SongsParamsSet
  <2>5. ListTyped'
    BY <1>0, <1>5 DEF SortSearch, ListTyped
  <2> QED
    BY <2>2, <2>4, <2>5, PlaylistPartsNext
<1> QED
  BY <1>1, <1>2, <1>3, <1>4, <1>5

LEMMA PlaylistTypesEvent ==
  ASSUME PlaylistTypeOK, NEW x, NEW r \in Replies,
         \/ x \in pending /\ (QueryWaits(x, r) \/ QueryMore(x, r) \/ QueryFinish(x, r))
         \/ x \in s_pending /\ (SearchWaits(x, r) \/ SearchMore(x, r) \/ SearchFinish(x, r))
  PROVE  PlaylistTypeOK'
<1>0. TypeOK /\ SearchTyped /\ SearchReplied /\ ListTyped /\ params.text = {} /\ params \in Params
  BY PlaylistParts DEF TypeOK
<1>1. CASE x \in pending /\ (QueryWaits(x, r) \/ QueryMore(x, r) \/ QueryFinish(x, r))
  <2>1. Process(x, r) /\ UNCHANGED s_vars
    BY <1>1 DEF QueryWaits, QueryMore, QueryFinish, Process
  <2>2. TypeOK' /\ params' = params /\ SearchTyped' /\ SearchReplied'
    BY <1>0, <1>1, <2>1, SongsEvent, SearchStays
  <2>3. ListTyped'
    <3>1. CASE QueryWaits(x, r) \/ QueryMore(x, r)
      BY <1>0, <3>1 DEF QueryWaits, QueryMore, found, list, ListTyped
    <3>2. CASE QueryFinish(x, r)
      <4>1. songs' = songs \/ songs' = results' \/ songs' = Undefined
        BY <3>2 DEF QueryFinish, Complete
      <4>2. Len(results') \in Nat
        BY <2>2, LenProperties DEF TypeOK
      <4> QED
        BY <1>0, <3>2, <4>1, <4>2 DEF QueryFinish, ListTyped
    <3> QED
      BY <1>1, <3>1, <3>2
  <2> QED
    BY <1>0, <2>2, <2>3, PlaylistPartsNext
<1>2. CASE x \in s_pending /\ (SearchWaits(x, r) \/ SearchMore(x, r) \/ SearchFinish(x, r))
  <2>1. search_query!Process(x, r) /\ UNCHANGED vars
    BY <1>2 DEF SearchWaits, SearchMore, SearchFinish, search_query!Process
  <2>2. TypeOK' /\ params' = params /\ SearchTyped' /\ SearchReplied'
    BY <1>0, <1>2, <2>1, SongsStay, SearchEvent, SearchEventReplied
  <2>3. ListTyped'
    BY <1>0, <1>2 DEF SearchWaits, SearchMore, SearchFinish, found, list, ListTyped
  <2> QED
    BY <1>0, <2>2, <2>3, PlaylistPartsNext
<1> QED
  BY <1>1, <1>2

LEMMA PlaylistTypesStep ==
  ASSUME PlaylistTypeOK, [PlaylistNext]_playlist_vars
  PROVE  PlaylistTypeOK'
<1>1. CASE UNCHANGED playlist_vars
  <2>1. UNCHANGED vars /\ UNCHANGED s_vars /\ UNCHANGED <<found, list>>
    BY <1>1 DEF playlist_vars
  <2>2. ListTyped'
    BY <2>1, PlaylistParts DEF found, list, ListTyped
  <2>3. TypeOK' /\ params' = params /\ SearchTyped' /\ SearchReplied' /\ params.text = {}
    BY <2>1, PlaylistParts, SongsStay, SearchStays
  <2> QED
    BY <2>2, <2>3, PlaylistPartsNext
<1> QED
  BY <1>1, PlaylistTypesUser, PlaylistTypesEvent DEF PlaylistNext

\* Type correctness of a playlist: both queries stay what a query is, whichever way
\* their parameters are shared, and the songs are never searched.
THEOREM PlaylistTypes == PlaylistSpec => []PlaylistTypeOK
  BY PlaylistTyped, PlaylistTypesStep, PTL DEF PlaylistSpec

\* While there is text in a search box of a playlist, the table shows what the search
\* query has collected since it was last sent, unless its answer was errors without rows:
\* for any search boxes, sort orders and page size, and for all answers of the server.
THEOREM SearchIsShown == PlaylistSpec => []SearchShowsResults
<1>1. PlaylistInit => PlaylistInv
  BY PlaylistStart
<1>2. PlaylistInv /\ PlaylistTypeOK /\ [PlaylistNext]_playlist_vars => PlaylistInv'
  BY PlaylistStep, PlaylistParts
<1>3. PlaylistInv => SearchShowsResults
  BY DEF PlaylistInv
<1> QED
  BY <1>1, <1>2, <1>3, PlaylistTypes, PTL DEF PlaylistSpec

-----------------------------------------------------------------------------
(* The player (module Player) and the operators of its steps *)

LEMMA TimesNextType == ASSUME NEW i, NEW s PROVE TimesNext(i, s) \in Nat
<1>1. IsFiniteSet(1 .. NumNext)
  BY FS_Interval, SongsAssumption
<1>2. IsFiniteSet({k \in 1 .. NumNext : (i + k) % NumSongs = s})
  BY <1>1, FS_Subset
<1> QED
  BY <1>2, FS_CardinalityType DEF TimesNext

LEMMA SongsExist == 0 \in Songs
  BY SongsAssumption DEF Songs

LEMMA RingOfSongs ==
  ASSUME NEW i \in Int PROVE i % NumSongs \in Songs
  BY SongsAssumption DEF Songs

LEMMA DecodeNextType ==
  ASSUME NEW i, NEW known, NEW asked \in [Songs -> Nat], DecodeNext(i, known, asked)
  PROVE  fetching' \in [Songs -> Nat]
<1>1. ASSUME NEW s \in Songs
      PROVE  asked[s] + (IF s \in known THEN 0 ELSE TimesNext(i, s)) \in Nat
  BY TimesNextType
<1> QED
  BY <1>1 DEF DecodeNext

\* Playing a song: the types, and the song is playing or a query for it is out.
LEMMA PlaySong ==
  ASSUME PlayerTypeOK, NEW s \in Songs, NEW known, NEW asked \in [Songs -> Nat],
         play_song(s, known, asked)
  PROVE  /\ playing' \in {0, 1} /\ next_to_play' = s /\ playing_index' \in Songs
         /\ audio' \in Songs \cup {Nothing} /\ loading' \in BOOLEAN
         /\ fetching' \in [Songs -> Nat]
         /\ playing' = 1 \/ fetching'[s] > 0
         /\ s \in known => playing' = 1
<1>1. CASE StartSong(s, known, asked)
  BY <1>1, DecodeNextType DEF StartSong
<1>2. CASE AwaitSong(s, known, asked)
  BY <1>2 DEF AwaitSong, OneMore, PlayerTypeOK
<1> QED
  BY <1>1, <1>2 DEF play_song

-----------------------------------------------------------------------------
(* The inductive invariant *)

PlayerInv == PlayerTypeOK /\ AwaitedIsOnItsWay

LEMMA PlayerStart == PlayerInit => PlayerInv
<1> SUFFICES ASSUME PlayerInit PROVE PlayerInv
  OBVIOUS
<1>1. PlayerTypeOK
  BY SongsExist DEF PlayerInit, PlayerTypeOK
<1>2. AwaitedIsOnItsWay
  BY DEF PlayerInit, AwaitedIsOnItsWay
<1> QED
  BY <1>1, <1>2 DEF PlayerInv

LEMMA AskForStep ==
  ASSUME PlayerInv, NEW s \in Songs, AskFor(s)
  PROVE  PlayerInv'
<1>1. /\ playing' \in {0, 1} /\ next_to_play' = s /\ playing_index' \in Songs
      /\ audio' \in Songs \cup {Nothing} /\ loading' \in BOOLEAN
      /\ fetching' \in [Songs -> Nat]
      /\ playing' = 1 \/ fetching'[s] > 0
  BY PlaySong DEF AskFor, PlayerInv, PlayerTypeOK
<1>2. PlayerTypeOK'
  BY <1>1 DEF AskFor, PlayerInv, PlayerTypeOK
<1>3. AwaitedIsOnItsWay'
  BY <1>1, <1>2 DEF AwaitedIsOnItsWay, PlayerTypeOK
<1> QED
  BY <1>2, <1>3 DEF PlayerInv

LEMMA SourcesFoundStep ==
  ASSUME PlayerInv, NEW s \in Songs, SourcesFound(s)
  PROVE  PlayerInv'
<1> DEFINE asked == OneLess(fetching, s)
<1>1. asked \in [Songs -> Nat]
  BY DEF OneLess, SourcesFound, PlayerInv, PlayerTypeOK
<1>2. sources' \subseteq Songs /\ s \in sources'
  BY DEF SourcesFound, PlayerInv, PlayerTypeOK
<1>3. CASE play_song(s, sources', asked)
  <2>1. /\ playing' = 1 /\ next_to_play' = s /\ playing_index' \in Songs
        /\ audio' \in Songs \cup {Nothing} /\ loading' \in BOOLEAN
        /\ fetching' \in [Songs -> Nat]
    BY <1>1, <1>2, <1>3, PlaySong DEF PlayerInv
  <2> QED
    BY <1>2, <2>1 DEF SourcesFound, PlayerInv, PlayerTypeOK, AwaitedIsOnItsWay
<1>4. CASE /\ playing = 1 \/ next_to_play = Nothing
           /\ fetching' = asked
           /\ UNCHANGED sound
  BY <1>1, <1>2, <1>4 DEF SourcesFound, sound, PlayerInv, PlayerTypeOK, AwaitedIsOnItsWay
<1> QED
  BY <1>3, <1>4 DEF SourcesFound

LEMMA NoSourcesStep ==
  ASSUME PlayerInv, NEW s \in Songs, NoSources(s)
  PROVE  PlayerInv'
<1>1. PlayerTypeOK'
  BY DEF NoSources, sound, OneMore, OneLess, PlayerInv, PlayerTypeOK
<1>2. AwaitedIsOnItsWay'
  BY <1>1 DEF NoSources, sound, OneMore, OneLess, PlayerInv, PlayerTypeOK, AwaitedIsOnItsWay
<1> QED
  BY <1>1, <1>2 DEF PlayerInv

LEMMA ProgressStep ==
  ASSUME PlayerInv, NEW s \in Songs, Progress(s)
  PROVE  PlayerInv'
<1>1. PlayerTypeOK'
  BY DEF Progress, sound, OneMore, OneLess, PlayerInv, PlayerTypeOK
<1>2. AwaitedIsOnItsWay'
  BY <1>1 DEF Progress, sound, OneMore, OneLess, PlayerInv, PlayerTypeOK, AwaitedIsOnItsWay
<1> QED
  BY <1>1, <1>2 DEF PlayerInv

LEMMA RefreshStep ==
  ASSUME PlayerInv, NEW s \in Songs, Refresh(s)
  PROVE  PlayerInv'
<1>1. PlayerTypeOK'
  BY DEF Refresh, sound, OneMore, OneLess, PlayerInv, PlayerTypeOK
<1>2. AwaitedIsOnItsWay'
  BY <1>1 DEF Refresh, sound, OneMore, OneLess, PlayerInv, PlayerTypeOK, AwaitedIsOnItsWay
<1> QED
  BY <1>1, <1>2 DEF PlayerInv

LEMMA TranscodedStep ==
  ASSUME PlayerInv, NEW s \in Songs, Transcoded(s)
  PROVE  PlayerInv'
<1>1. /\ polling' \in [Songs -> Nat] /\ timers' = timers
      /\ sources' \subseteq Songs /\ s \in sources'
  BY DEF Transcoded, OneLess, PlayerInv, PlayerTypeOK
<1>2. CASE play_song(s, sources', fetching)
  <2>1. /\ playing' = 1 /\ next_to_play' = s /\ playing_index' \in Songs
        /\ audio' \in Songs \cup {Nothing} /\ loading' \in BOOLEAN
        /\ fetching' \in [Songs -> Nat]
    BY <1>1, <1>2, PlaySong DEF PlayerInv, PlayerTypeOK
  <2> QED
    BY <1>1, <2>1 DEF Transcoded, PlayerInv, PlayerTypeOK, AwaitedIsOnItsWay
<1>3. CASE (playing = 1 \/ next_to_play # s) /\ UNCHANGED <<sound, fetching>>
  <2>1. PlayerTypeOK'
    BY <1>1, <1>3 DEF Transcoded, sound, PlayerInv, PlayerTypeOK
  <2>2. ASSUME next_to_play # s, next_to_play \in Songs
        PROVE  polling'[next_to_play] = polling[next_to_play]
    BY <2>2 DEF Transcoded, OneLess, PlayerInv, PlayerTypeOK
  <2>3. AwaitedIsOnItsWay'
    BY <1>1, <1>3, <2>2 DEF Transcoded, sound, PlayerInv, PlayerTypeOK, AwaitedIsOnItsWay
  <2> QED
    BY <2>1, <2>3 DEF PlayerInv
<1> QED
  BY <1>2, <1>3 DEF Transcoded

LEMMA UselessStep ==
  ASSUME PlayerInv, NEW s \in Songs, Useless(s)
  PROVE  PlayerInv'
<1>1. PlayerTypeOK'
  BY DEF Useless, sound, OneLess, PlayerInv, PlayerTypeOK
<1>2. ASSUME NEW t \in Songs, t # s
      PROVE  fetching'[t] = fetching[t] /\ polling'[t] = polling[t]
  BY <1>2 DEF Useless, OneLess, PlayerInv, PlayerTypeOK
<1>3. AwaitedIsOnItsWay'
  BY <1>1, <1>2 DEF Useless, sound, PlayerInv, PlayerTypeOK, AwaitedIsOnItsWay
<1> QED
  BY <1>1, <1>3 DEF PlayerInv

LEMMA PlayerStep == PlayerInv /\ [PlayerNext]_player_vars => PlayerInv'
<1> SUFFICES ASSUME PlayerInv, [PlayerNext]_player_vars
             PROVE  PlayerInv'
  OBVIOUS
<1>1. ASSUME NEW s \in Songs, Click(s) PROVE PlayerInv'
  BY <1>1, AskForStep DEF Click
<1>2. CASE NextSong
  <2>1. playing_index + 1 \in Int
    BY DEF PlayerInv, PlayerTypeOK, Songs
  <2>2. (playing_index + 1) % NumSongs \in Songs
    BY <2>1, RingOfSongs
  <2> QED
    BY <1>2, <2>2, AskForStep DEF NextSong
<1>3. CASE PreviousSong
  <2>1. playing_index - 1 + NumSongs \in Int
    BY SongsAssumption DEF PlayerInv, PlayerTypeOK, Songs
  <2>2. (playing_index - 1 + NumSongs) % NumSongs \in Songs
    BY <2>1, RingOfSongs
  <2> QED
    BY <1>3, <2>2, AskForStep DEF PreviousSong
<1>4. CASE LoadStart
  BY <1>4 DEF LoadStart, PlayerInv, PlayerTypeOK, AwaitedIsOnItsWay
<1>5. ASSUME NEW s \in Songs, SourcesAnswer(s) \/ TranscodeAnswer(s) \/ Refresh(s) \/ Useless(s)
      PROVE  PlayerInv'
  BY <1>5, SourcesFoundStep, NoSourcesStep, ProgressStep, TranscodedStep, RefreshStep, UselessStep
  DEF SourcesAnswer, TranscodeAnswer
<1>6. CASE UNCHANGED player_vars
  BY <1>6 DEF player_vars, sound, PlayerInv, PlayerTypeOK, AwaitedIsOnItsWay
<1> QED
  BY <1>1, <1>2, <1>3, <1>4, <1>5, <1>6 DEF PlayerNext

-----------------------------------------------------------------------------
(* The theorems *)

\* The inductive invariant of the player, for any number of songs.
THEOREM PlayerInvariant == PlayerSpec => []PlayerInv
  BY PlayerStart, PlayerStep, PTL DEF PlayerSpec

\* Type correctness of the player.
THEOREM PlayerTypes == PlayerSpec => []PlayerTypeOK
<1>1. PlayerInv => PlayerTypeOK
  BY DEF PlayerInv
<1> QED
  BY <1>1, PlayerInvariant, PTL

\* A song that is waited for always has a query or a timer outstanding.
THEOREM AwaitedNeverForgotten == PlayerSpec => []AwaitedIsOnItsWay
<1>1. PlayerInv => AwaitedIsOnItsWay
  BY DEF PlayerInv
<1> QED
  BY <1>1, PlayerInvariant, PTL

\* No answer of the server changes the song that plays.
THEOREM NoInterruption == PlayerSpec => AnswersDoNotInterrupt
<1>1. PlayerTypeOK /\ [PlayerNext]_player_vars =>
        [playing = 1 /\ plays' = plays => audio' = audio /\ playing_index' = playing_index]_player_vars
  <2> SUFFICES ASSUME PlayerTypeOK, PlayerNext, playing = 1, plays' = plays
               PROVE  audio' = audio /\ playing_index' = playing_index
    OBVIOUS
  <2>1. \A s : ~AskFor(s)
    BY DEF AskFor, PlayerTypeOK
  <2>2. CASE LoadStart
    BY <2>2 DEF LoadStart
  <2>3. ASSUME NEW s \in Songs,
               SourcesAnswer(s) \/ TranscodeAnswer(s) \/ Refresh(s) \/ Useless(s)
        PROVE  audio' = audio /\ playing_index' = playing_index
    BY <2>3 DEF SourcesAnswer, TranscodeAnswer, SourcesFound, NoSources, Progress, Transcoded,
                Refresh, Useless, sound
  <2> QED
    BY <2>1, <2>2, <2>3 DEF PlayerNext, Click, NextSong, PreviousSong
<1> QED
  BY <1>1, PlayerTypes, PTL DEF PlayerSpec, AnswersDoNotInterrupt

=============================================================================
