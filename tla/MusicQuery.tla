----------------------------- MODULE MusicQuery -----------------------------
(***************************************************************************)
(* The query object of the web client, data/www/javascript/music_query.js: *)
(* it asks the server for the rows of an answer page by page, one          *)
(* XMLHttpRequest after the other, and hands them to its owner.            *)
(*                                                                         *)
(* An owner may reset the object and start over at any time.  Requests in  *)
(* flight are not aborted; all their events call process, which looks at   *)
(* the newest request only.                                                *)
(***************************************************************************)
EXTENDS Integers, Sequences, FiniteSetsExt, SequencesExt

CONSTANTS
  Params,     \* values of the query parameters that an answer depends on
  Answer,     \* the rows the server has for each of them
  PageSize,   \* parameters.num_results; 0 asks for all rows at once
  Faults,     \* a subset of {"garbage", "bad", "missing"}
  MaxLoads,   \* bound: no reset, and no unparsable answer, after so many requests
  MaxRows     \* bound: no event but the last of a request when results has so many rows

ASSUME PageSizeAssumption == PageSize \in Nat
ASSUME AnswerAssumption == \A p \in Params : Answer[p] \in Seq(Range(Answer[p]))

VARIABLES
  params,     \* this.parameters
  count,      \* this.count: the page being asked for
  running,    \* this.running
  results,    \* the rows so far
  sent,       \* the requests sent: what page of which answer; this.xmlhttp is the last
  pending,    \* the requests whose answer has not come
  reply       \* what came as answer to the last request

vars == <<params, count, running, results, sent, pending, reply>>

\* The answer of a request: not there yet; its rows; text that JSON.parse
\* refuses; another status than 200, or JSON that is no object; an object
\* without the rows that were asked for.
Replies == {"none", "rows", "garbage", "bad", "missing"}

newest == Len(sent)

TypeOK ==
  /\ params \in Params
  /\ count \in Nat
  /\ running \in {0, 1}
  /\ results \in Seq(UNION {Range(Answer[p]) : p \in Params})
  /\ sent \in Seq([params : Params, count : Nat])
  /\ pending \subseteq 1 .. newest
  /\ reply \in Replies
  /\ reply = "none" <=> newest \in pending

\* load: a new request for the page c of the answer to p.
load(p, c) ==
  /\ sent' = Append(sent, [params |-> p, count |-> c])
  /\ reply' = "none"
  /\ running' = 1

\* Constructed and loaded, as every owner does.
InitWith(p) ==
  /\ params = p
  /\ count = 0
  /\ running = 1
  /\ results = << >>
  /\ sent = <<[params |-> p, count |-> 0]>>
  /\ pending = {1}
  /\ reply = "none"

Init == \E p \in Params : InitWith(p)

-----------------------------------------------------------------------------
(* What owners do *)

\* Other parameters, reset and load, in one turn of the event loop.
Ask(p) ==
  /\ newest < MaxLoads
  /\ params' = p
  /\ count' = 0
  /\ results' = << >>
  /\ load(p, 0)
  /\ pending' = pending \cup {newest + 1}

\* Other parameters, and nothing is loaded for them.
SetParams(p) ==
  /\ params' = p
  /\ UNCHANGED <<count, running, results, sent, pending, reply>>

-----------------------------------------------------------------------------
(* An event of request x, which calls process *)

\* The rows of an answer from offset on, limit rows of them if there are so many.
Rows(answer, offset, limit) ==
  SubSeq(answer, offset + 1, Min({offset + limit, Len(answer)}))

\* The rows the server sends for a request: set_url adds limit and offset only if
\* num_results is positive.
Page(request) ==
  IF PageSize = 0 THEN Answer[request.params]
  ELSE Rows(Answer[request.params], request.count * PageSize, PageSize)

\* The readyState of x changes: x is done and r is its answer, or r = "none".
Fires(x, r) ==
  /\ x \in pending
  /\ r \in {"none", "rows"} \cup Faults
  /\ r = "none" => Len(results) < MaxRows

\* Mutated: an answered request may fire again.
StillPending_Always(x, r) == pending

StillPending(x, r) == IF r = "none" THEN pending ELSE pending \ {x}

\* Mutated: process looks at the request whose event called it.
Found_Own(x, r) == r

\* What process finds in this.xmlhttp, which need not be the request of the event.
Found(x, r) == IF x = newest THEN r ELSE reply

\* The newest request is not done, or its answer is of no use.
Ignore(x, r) ==
  /\ Fires(x, r)
  /\ Found(x, r) \in {"none", "bad"}
  /\ pending' = StillPending(x, r)
  /\ reply' = Found(x, r)
  /\ UNCHANGED <<params, count, running, results, sent>>

\* Mutated: an answer that does not parse is dropped.
Retry_Drops(x, r) ==
  /\ Fires(x, r)
  /\ Found(x, r) = "garbage"
  /\ pending' = StillPending(x, r)
  /\ reply' = Found(x, r)
  /\ UNCHANGED <<params, count, running, results, sent>>

\* "Re run query": the same page is asked for again.
Retry(x, r) ==
  /\ Fires(x, r) /\ newest < MaxLoads
  /\ Found(x, r) = "garbage"
  /\ load(params, count)
  /\ pending' = StillPending(x, r) \cup {newest + 1}
  /\ UNCHANGED <<params, count, results>>

\* Mutated: a full page is taken for the last one.
LastPage_Full(page) == PageSize >= Len(page)

\* "if the amount returned is less than num expected stop query"
LastPage(page) == Len(page) = 0 \/ PageSize > Len(page) \/ PageSize = 0

\* A full page is kept, and the next one asked for.
More(x, r) ==
  LET page == Page(sent[newest]) IN
  /\ Fires(x, r)
  /\ Found(x, r) = "rows" /\ ~LastPage(page)
  /\ results' = results \o page
  /\ count' = count + 1
  /\ load(params, count + 1)
  /\ pending' = StillPending(x, r) \cup {newest + 1}
  /\ UNCHANGED params

\* The rows are kept, if there are any, and the query is over: onComplete.
Finish(x, r) ==
  LET page == Page(sent[newest]) IN
  /\ Fires(x, r)
  /\ \/ Found(x, r) = "rows" /\ LastPage(page) /\ results' = results \o page
     \/ Found(x, r) = "missing" /\ UNCHANGED results
  /\ running' = 0
  /\ pending' = StillPending(x, r)
  /\ reply' = Found(x, r)
  /\ UNCHANGED <<params, count, sent>>

Process(x, r) == Ignore(x, r) \/ Retry(x, r) \/ More(x, r) \/ Finish(x, r)

\* Every answer has come.
Quiet == pending = {} /\ newest >= MaxLoads

Next ==
  \/ \E p \in Params : Ask(p)
  \/ \E x \in pending, r \in Replies : Process(x, r)
  \/ Quiet /\ UNCHANGED vars

Spec == Init /\ [][Next]_vars

\* The network brings the answers of the requests in flight, in any order.
FairSpec ==
  Spec /\ WF_vars(\E x \in pending, r \in Replies \ {"none"} : Process(x, r))

-----------------------------------------------------------------------------
(* Properties *)

\* While a query runs, its results are the first pages of the answer to its
\* present parameters, as many as were counted: whatever answers of older
\* requests arrive, before or after, and however often a page is retried, no
\* page is lost, doubled, out of order or of another answer.
InOrder ==
  running = 1 => results = Rows(Answer[params], 0, count * PageSize)

\* A query that rows have brought to its end has all the rows, in order.
AllRows == running = 0 /\ reply = "rows" => IsPrefix(Answer[params], results)

\* Page by page and at the end, a query has the first rows of the answer to what it
\* asks now, in order, and each once.
HasFirstPages == InOrder /\ AllRows

\* Whatever else arrives, a query comes to its end, unless the answer is of no use.
QueryEnds == running = 1 ~> running = 0 \/ reply = "bad"

=============================================================================
