---------------------------- MODULE Requests_proofs ----------------------------
(***************************************************************************)
(* What holds of the requests to the music indexer, for any number of      *)
(* threads and connections, all tables, documents, words of the requests   *)
(* and rows.  Proved with TLAPS.                                           *)
(*                                                                         *)
(* Two threads never run statements on one connection, and every mutex is  *)
(* given back: LocksAreReleased and StatementsAreApart.  AnswersAreRight   *)
(* follows a request all the way: what is read of the document is what it  *)
(* writes down (QueryFound), what is made of the words is what they say    *)
(* (WordsAreRead), so the statement asks for what the request does         *)
(* (StatementFits) and its cells carry the names of their own columns      *)
(* (ListIsShown, ColumnIsShown); its rows are still those of the statement *)
(* of that thread when they are printed (AnswerInv).                       *)
(***************************************************************************)
EXTENDS Requests, SequenceTheorems, FiniteSetTheorems, WellFoundedInduction, TLAPS

-----------------------------------------------------------------------------
(* The connections *)

\* A thread that runs a statement.
Running == {"select", "fetch"}

\* The mutex of a connection is held by the one thread that runs a statement on it.
LockInv ==
  /\ pc \in [Threads -> {"idle", "connect", "take", "lock", "select", "fetch", "answer", "done"}]
  /\ DOMAIN node = Threads
  /\ mutex \in [Conns -> Threads \cup {NULL}]
  /\ \A r \in Threads : pc[r] \in {"take", "lock"} \cup Running => node[r] \in Conns
  /\ \A r \in Threads : pc[r] \in Running => mutex[node[r]] = r
  /\ LockReleased

LEMMA LockInit == Init => LockInv
  BY DEF Init, LockInv, Running, LockReleased

\* The threads that run nothing come and go, and the mutexes stay.
LEMMA LockAlone ==
  ASSUME LockInv, NEW r \in Threads, pc[r] \notin Running,
         NEW at \in {"connect", "take", "lock", "answer", "done"}, pc' = [pc EXCEPT ![r] = at],
         mutex' = mutex, DOMAIN node' = Threads,
         \A q \in Threads : q # r => node'[q] = node[q],
         at \in {"take", "lock"} => node'[r] \in Conns
  PROVE  LockInv'
  BY DEF LockInv, Running, LockReleased

LEMMA LockTaken ==
  ASSUME LockInv, NEW r \in Threads, Lock(r)
  PROVE  LockInv'
<1>1. /\ pc[r] = "lock" /\ node[r] \in Conns /\ mutex[node[r]] = NULL
      /\ pc' = [pc EXCEPT ![r] = "select"] /\ node' = node
      /\ mutex' = [mutex EXCEPT ![node[r]] = r]
  BY DEF Lock, Goto, LockInv
<1>2. \A q \in Threads : pc[q] \in Running => node[q] # node[r]
  BY <1>1, ThreadsAssumption DEF LockInv
<1> QED
  BY <1>1, <1>2 DEF LockInv, Running, LockReleased

\* The statement has failed, or its rows are read: every way out unlocks.
LEMMA LockGiven ==
  ASSUME LockInv, NEW r \in Threads, pc[r] \in Running,
         NEW at \in {"answer", "done"}, pc' = [pc EXCEPT ![r] = at],
         Unlock(r), node' = node
  PROVE  LockInv'
<1>1. /\ node[r] \in Conns /\ mutex[node[r]] = r
      /\ mutex' = [mutex EXCEPT ![node[r]] = NULL]
  BY DEF Unlock, LockInv
<1>2. \A q \in Threads : q # r /\ pc[q] \in Running => node[q] # node[r]
  BY <1>1 DEF LockInv
<1> QED
  BY <1>1, <1>2 DEF LockInv, Running, LockReleased

LEMMA LockStep ==
  ASSUME LockInv, NEW r \in Threads, Serve(r)
  PROVE  LockInv'
<1> USE DEF Goto, Answers
<1>1. CASE Receive(r)
  <2>1. /\ pc[r] = "idle" /\ mutex' = mutex /\ node' = node
        /\ pc' = [pc EXCEPT ![r] = "done"] \/ pc' = [pc EXCEPT ![r] = "connect"]
    BY <1>1 DEF Receive, database
  <2> QED
    BY <2>1, LockAlone DEF Running, LockInv
<1>2. CASE Falls(r) \/ LooksForOutputType(r)
  BY <1>2 DEF Falls, LooksForOutputType, database, LockInv, LockReleased
<1>3. CASE ReadHead(r)
  <2>1. /\ pc[r] = "connect" /\ mutex' = mutex /\ head \in Conns
        /\ node' = [node EXCEPT ![r] = head] /\ pc' = [pc EXCEPT ![r] = "take"]
    BY <1>3 DEF ReadHead, database
  <2> QED
    BY <2>1, LockAlone DEF Running, LockInv
<1>4. CASE NoConnection(r)
  <2>1. /\ pc[r] = "connect" /\ mutex' = mutex /\ node' = node
        /\ pc' = [pc EXCEPT ![r] = "done"]
    BY <1>4 DEF NoConnection, Failed
  <2> QED
    BY <2>1, LockAlone DEF Running, LockInv
<1>5. CASE TakeConnection(r)
  <2>1. /\ pc[r] = "take" /\ mutex' = mutex /\ node' = node
        /\ pc' = [pc EXCEPT ![r] = "lock"]
    BY <1>5 DEF TakeConnection
  <2> QED
    BY <2>1, LockAlone DEF Running, LockInv
<1>6. CASE Lock(r)
  BY <1>6, LockTaken
<1>7. CASE Select(r)
  <2>1. /\ pc[r] = "select" /\ mutex' = mutex /\ node' = node
        /\ pc' = [pc EXCEPT ![r] = "fetch"]
    BY <1>7 DEF Select
  <2> QED
    BY <2>1 DEF Running, LockInv, LockReleased
<1>8. CASE SelectFails(r)
  <2>1. /\ pc[r] = "select" /\ Unlock(r) /\ node' = node
        /\ pc' = [pc EXCEPT ![r] = "done"]
    BY <1>8 DEF SelectFails, Failed
  <2> QED
    BY <2>1, LockGiven DEF Running
<1>9. CASE Fetch(r)
  <2>1. /\ pc[r] = "fetch" /\ Unlock(r) /\ node' = node
        /\ pc' = [pc EXCEPT ![r] = "answer"]
    BY <1>9 DEF Fetch
  <2> QED
    BY <2>1, LockGiven DEF Running
<1>10. CASE PrintRows(r) \/ HandRow(r) \/ HandFails(r)
  <2>1. /\ pc[r] = "answer" /\ mutex' = mutex /\ node' = node
        /\ pc' = [pc EXCEPT ![r] = "done"]
    BY <1>10 DEF PrintRows, HandRow, HandFails, database
  <2> QED
    BY <2>1, LockAlone DEF Running, LockInv
<1> QED
  BY <1>1, <1>2, <1>3, <1>4, <1>5, <1>6, <1>7, <1>8, <1>9, <1>10 DEF Serve

LEMMA LockInvariant == Spec => []LockInv
<1>2. LockInv /\ [Next]_(vars) => LockInv'
  <2>1. LockInv /\ UNCHANGED vars => LockInv'
    BY DEF vars, database, LockInv, LockReleased
  <2> QED
    BY <2>1, LockStep DEF Next
<1> QED
  BY LockInit, <1>2, PTL DEF Spec

\* Every return of db_query_run unlocks: a mutex is held by a thread that runs a
\* statement on that connection, whatever fails and however many requests share it.
THEOREM LocksAreReleased == Spec => []LockReleased
<1>1. LockInv => LockReleased
  BY DEF LockInv
<1> QED
  BY <1>1, LockInvariant, PTL

\* No two threads run a statement on one connection.
Apart ==
  \A r, q \in Threads : pc[r] \in Running /\ pc[q] \in Running /\ node[r] = node[q] => r = q

\* Two threads never run statements on one connection at a time, although the head of
\* the list is read without a lock and both may have taken it: the rows that one reads
\* are those of its own statement.
THEOREM StatementsAreApart == Spec => []Apart
<1>1. LockInv => Apart
  BY DEF LockInv, Apart
<1> QED
  BY <1>1, LockInvariant, PTL

-----------------------------------------------------------------------------
(* The loops.  Each use of ForEach goes through states, f[0] .. f[n], of which *)
(* the next is the step of the one before.  The lemmas are the same six times: *)
(* one about every step would have an operator as its parameter, and the        *)
(* provers instantiate no operators.                                            *)

\* Every set of numbers has a least one.
LEMMA LeastOf ==
  ASSUME NEW S, S \subseteq Nat, S # {}
  PROVE  \E x \in S : \A y \in S : x <= y
<1>1. PICK x \in S : \A y \in S : ~ (<<y, x>> \in OpToRel(<, Nat))
  BY NatLessThanWellFounded, WFMin
<1>2. \A y \in S : ~ (y < x)
  BY <1>1 DEF OpToRel
<1> QED
  BY <1>2

\* What holds at 0, and at k + 1 if it holds at k, holds up to n.  (Properties are sets:
\* a lemma about every operator could not be instantiated.)
LEMMA Induction ==
  ASSUME NEW n \in Nat, NEW S, 0 \in S, \A k \in 0 .. n - 1 : k \in S => k + 1 \in S
  PROVE  \A k \in 0 .. n : k \in S
<1> DEFINE Rest == {k \in 0 .. n : k \notin S}
<1> SUFFICES ASSUME Rest # {} PROVE FALSE
  OBVIOUS
<1>0. Rest \subseteq Nat /\ Rest # {}
  OBVIOUS
<1>1. PICK k \in Rest : \A j \in Rest : k <= j
  <2> HIDE DEF Rest
  <2> QED
    BY <1>0, LeastOf
<1>2. k # 0 /\ k - 1 \in 0 .. n - 1 /\ k - 1 \notin Rest
  BY <1>1
<1> QED
  BY <1>2

\* read_columns: f[k] is what has been made of the first k.
ColumnRun(f, s, table, ids) ==
  /\ f[0] = s
  /\ \A k \in 1 .. Len(ids) : f[k] = ReadColumn(f[k - 1], table, ids[k])
  /\ ReadColumns(s, table, ids) = f[Len(ids)]

LEMMA ColumnLoop ==
  ASSUME NEW s, NEW table, NEW ids, Len(ids) \in Nat
  PROVE  \E f : ColumnRun(f, s, table, ids)
<1> DEFINE n == Len(ids)
           Goes(f, m) == f[0] = s /\ \A k \in 1 .. m : f[k] = ReadColumn(f[k - 1], table, ids[k])
           All(f) == f = [k \in 0 .. n |-> IF k = 0 THEN s ELSE ReadColumn(f[k - 1], table, ids[k])]
           Reached == {m \in 0 .. n : \E f : Goes(f, m)}
           after == CHOOSE f : All(f)
<1>1. \E f : Goes(f, 0)
  <2>1. PICK f : f = [k \in {0} |-> s]
    OBVIOUS
  <2>2. Goes(f, 0)
    BY <2>1
  <2> QED
    BY <2>2
<1>2. ASSUME NEW m \in 0 .. n - 1, NEW f, Goes(f, m)
      PROVE  \E g : Goes(g, m + 1)
  <2>1. PICK g : g = [k \in 0 .. m + 1 |-> IF k <= m THEN f[k] ELSE ReadColumn(f[m], table, ids[k])]
    OBVIOUS
  <2>2. Goes(g, m + 1)
    BY <1>2, <2>1
  <2> HIDE DEF Goes
  <2> QED
    BY <2>2
<1>3. \E f : Goes(f, n)
  <2> HIDE DEF Goes
  <2>1. n \in Nat /\ 0 \in Reached /\ \A m \in 0 .. n - 1 : m \in Reached => m + 1 \in Reached
    BY <1>1, <1>2
  <2>2. \A m \in 0 .. n : m \in Reached
    <3> HIDE DEF Reached, n
    <3> QED
      BY <2>1, Induction
  <2> QED
    BY <2>2
<1>4. \E f : All(f)
  <2>1. PICK f : Goes(f, n)
    BY <1>3
  <2>2. PICK g : g = [k \in 0 .. n |-> f[k]]
    OBVIOUS
  <2>3. All(g)
    BY <2>1, <2>2
  <2> HIDE DEF All
  <2> QED
    BY <2>3
<1>5. All(after)
  <2> HIDE DEF All
  <2> QED
    BY <1>4
<1>6. ReadColumns(s, table, ids) = after[n]
  BY DEF ForEach, ReadColumns
<1> HIDE DEF after
<1>7. Goes(after, n)
  BY <1>5
<1>8. ColumnRun(after, s, table, ids)
  BY <1>6, <1>7 DEF ColumnRun
<1> QED
  BY <1>8

\* The tables of a count: f[k] is what has been made of the first k.
CountRun(f, s, ids) ==
  /\ f[0] = s
  /\ \A k \in 1 .. Len(ids) : f[k] = ReadCount(f[k - 1], ids[k])
  /\ ReadCounts(s, ids) = f[Len(ids)]

LEMMA CountLoop ==
  ASSUME NEW s, NEW ids, Len(ids) \in Nat
  PROVE  \E f : CountRun(f, s, ids)
<1> DEFINE n == Len(ids)
           Goes(f, m) == f[0] = s /\ \A k \in 1 .. m : f[k] = ReadCount(f[k - 1], ids[k])
           All(f) == f = [k \in 0 .. n |-> IF k = 0 THEN s ELSE ReadCount(f[k - 1], ids[k])]
           Reached == {m \in 0 .. n : \E f : Goes(f, m)}
           after == CHOOSE f : All(f)
<1>1. \E f : Goes(f, 0)
  <2>1. PICK f : f = [k \in {0} |-> s]
    OBVIOUS
  <2>2. Goes(f, 0)
    BY <2>1
  <2> QED
    BY <2>2
<1>2. ASSUME NEW m \in 0 .. n - 1, NEW f, Goes(f, m)
      PROVE  \E g : Goes(g, m + 1)
  <2>1. PICK g : g = [k \in 0 .. m + 1 |-> IF k <= m THEN f[k] ELSE ReadCount(f[m], ids[k])]
    OBVIOUS
  <2>2. Goes(g, m + 1)
    BY <1>2, <2>1
  <2> HIDE DEF Goes
  <2> QED
    BY <2>2
<1>3. \E f : Goes(f, n)
  <2> HIDE DEF Goes
  <2>1. n \in Nat /\ 0 \in Reached /\ \A m \in 0 .. n - 1 : m \in Reached => m + 1 \in Reached
    BY <1>1, <1>2
  <2>2. \A m \in 0 .. n : m \in Reached
    <3> HIDE DEF Reached, n
    <3> QED
      BY <2>1, Induction
  <2> QED
    BY <2>2
<1>4. \E f : All(f)
  <2>1. PICK f : Goes(f, n)
    BY <1>3
  <2>2. PICK g : g = [k \in 0 .. n |-> f[k]]
    OBVIOUS
  <2>3. All(g)
    BY <2>1, <2>2
  <2> HIDE DEF All
  <2> QED
    BY <2>3
<1>5. All(after)
  <2> HIDE DEF All
  <2> QED
    BY <1>4
<1>6. ReadCounts(s, ids) = after[n]
  BY DEF ForEach, ReadCounts
<1> HIDE DEF after
<1>7. Goes(after, n)
  BY <1>5
<1>8. CountRun(after, s, ids)
  BY <1>6, <1>7 DEF CountRun
<1> QED
  BY <1>8

\* The children of a query: f[k] is what has been made of the first k.
ChildRun(f, s, elems) ==
  /\ f[0] = s
  /\ \A k \in 1 .. Len(elems) : f[k] = ReadChild(f[k - 1], elems[k])
  /\ ReadChildren(s, elems) = f[Len(elems)]

LEMMA ChildLoop ==
  ASSUME NEW s, NEW elems, Len(elems) \in Nat
  PROVE  \E f : ChildRun(f, s, elems)
<1> DEFINE n == Len(elems)
           Goes(f, m) == f[0] = s /\ \A k \in 1 .. m : f[k] = ReadChild(f[k - 1], elems[k])
           All(f) == f = [k \in 0 .. n |-> IF k = 0 THEN s ELSE ReadChild(f[k - 1], elems[k])]
           Reached == {m \in 0 .. n : \E f : Goes(f, m)}
           after == CHOOSE f : All(f)
<1>1. \E f : Goes(f, 0)
  <2>1. PICK f : f = [k \in {0} |-> s]
    OBVIOUS
  <2>2. Goes(f, 0)
    BY <2>1
  <2> QED
    BY <2>2
<1>2. ASSUME NEW m \in 0 .. n - 1, NEW f, Goes(f, m)
      PROVE  \E g : Goes(g, m + 1)
  <2>1. PICK g : g = [k \in 0 .. m + 1 |-> IF k <= m THEN f[k] ELSE ReadChild(f[m], elems[k])]
    OBVIOUS
  <2>2. Goes(g, m + 1)
    BY <1>2, <2>1
  <2> HIDE DEF Goes
  <2> QED
    BY <2>2
<1>3. \E f : Goes(f, n)
  <2> HIDE DEF Goes
  <2>1. n \in Nat /\ 0 \in Reached /\ \A m \in 0 .. n - 1 : m \in Reached => m + 1 \in Reached
    BY <1>1, <1>2
  <2>2. \A m \in 0 .. n : m \in Reached
    <3> HIDE DEF Reached, n
    <3> QED
      BY <2>1, Induction
  <2> QED
    BY <2>2
<1>4. \E f : All(f)
  <2>1. PICK f : Goes(f, n)
    BY <1>3
  <2>2. PICK g : g = [k \in 0 .. n |-> f[k]]
    OBVIOUS
  <2>3. All(g)
    BY <2>1, <2>2
  <2> HIDE DEF All
  <2> QED
    BY <2>3
<1>5. All(after)
  <2> HIDE DEF All
  <2> QED
    BY <1>4
<1>6. ReadChildren(s, elems) = after[n]
  BY DEF ForEach, ReadChildren
<1> HIDE DEF after
<1>7. Goes(after, n)
  BY <1>5
<1>8. ChildRun(after, s, elems)
  BY <1>6, <1>7 DEF ChildRun
<1> QED
  BY <1>8

\* The queries of a document: f[k] is what has been made of the first k.
QueryRun(f, elems) ==
  /\ f[0] = NoQueries
  /\ \A k \in 1 .. Len(elems) : f[k] = ReadQuery(f[k - 1], elems[k])
  /\ generate_app_queries(elems) = f[Len(elems)]

LEMMA QueryLoop ==
  ASSUME NEW elems, Len(elems) \in Nat
  PROVE  \E f : QueryRun(f, elems)
<1> DEFINE n == Len(elems)
           Goes(f, m) == f[0] = NoQueries /\ \A k \in 1 .. m : f[k] = ReadQuery(f[k - 1], elems[k])
           All(f) == f = [k \in 0 .. n |-> IF k = 0 THEN NoQueries ELSE ReadQuery(f[k - 1], elems[k])]
           Reached == {m \in 0 .. n : \E f : Goes(f, m)}
           after == CHOOSE f : All(f)
<1>1. \E f : Goes(f, 0)
  <2>1. PICK f : f = [k \in {0} |-> NoQueries]
    OBVIOUS
  <2>2. Goes(f, 0)
    BY <2>1
  <2> QED
    BY <2>2
<1>2. ASSUME NEW m \in 0 .. n - 1, NEW f, Goes(f, m)
      PROVE  \E g : Goes(g, m + 1)
  <2>1. PICK g : g = [k \in 0 .. m + 1 |-> IF k <= m THEN f[k] ELSE ReadQuery(f[m], elems[k])]
    OBVIOUS
  <2>2. Goes(g, m + 1)
    BY <1>2, <2>1
  <2> HIDE DEF Goes
  <2> QED
    BY <2>2
<1>3. \E f : Goes(f, n)
  <2> HIDE DEF Goes
  <2>1. n \in Nat /\ 0 \in Reached /\ \A m \in 0 .. n - 1 : m \in Reached => m + 1 \in Reached
    BY <1>1, <1>2
  <2>2. \A m \in 0 .. n : m \in Reached
    <3> HIDE DEF Reached, n
    <3> QED
      BY <2>1, Induction
  <2> QED
    BY <2>2
<1>4. \E f : All(f)
  <2>1. PICK f : Goes(f, n)
    BY <1>3
  <2>2. PICK g : g = [k \in 0 .. n |-> f[k]]
    OBVIOUS
  <2>3. All(g)
    BY <2>1, <2>2
  <2> HIDE DEF All
  <2> QED
    BY <2>3
<1>5. All(after)
  <2> HIDE DEF All
  <2> QED
    BY <1>4
<1>6. generate_app_queries(elems) = after[n]
  BY DEF ForEach, generate_app_queries
<1> HIDE DEF after
<1>7. Goes(after, n)
  BY <1>5
<1>8. QueryRun(after, elems)
  BY <1>6, <1>7 DEF QueryRun
<1> QED
  BY <1>8

\* The keys of a sort_by: f[k] is what has been made of the first k.
KeyRun(f, q, p, value) ==
  /\ f[0] = p
  /\ \A k \in 1 .. Len(value.keys) : f[k] = SortKey(q, f[k - 1], value.keys[k])
  /\ SortBy(q, p, value) = f[Len(value.keys)]

LEMMA KeyLoop ==
  ASSUME NEW q, NEW p, NEW value, Len(value.keys) \in Nat
  PROVE  \E f : KeyRun(f, q, p, value)
<1> DEFINE n == Len(value.keys)
           Goes(f, m) == f[0] = p /\ \A k \in 1 .. m : f[k] = SortKey(q, f[k - 1], value.keys[k])
           All(f) == f = [k \in 0 .. n |-> IF k = 0 THEN p ELSE SortKey(q, f[k - 1], value.keys[k])]
           Reached == {m \in 0 .. n : \E f : Goes(f, m)}
           after == CHOOSE f : All(f)
<1>1. \E f : Goes(f, 0)
  <2>1. PICK f : f = [k \in {0} |-> p]
    OBVIOUS
  <2>2. Goes(f, 0)
    BY <2>1
  <2> QED
    BY <2>2
<1>2. ASSUME NEW m \in 0 .. n - 1, NEW f, Goes(f, m)
      PROVE  \E g : Goes(g, m + 1)
  <2>1. PICK g : g = [k \in 0 .. m + 1 |-> IF k <= m THEN f[k] ELSE SortKey(q, f[m], value.keys[k])]
    OBVIOUS
  <2>2. Goes(g, m + 1)
    BY <1>2, <2>1
  <2> HIDE DEF Goes
  <2> QED
    BY <2>2
<1>3. \E f : Goes(f, n)
  <2> HIDE DEF Goes
  <2>1. n \in Nat /\ 0 \in Reached /\ \A m \in 0 .. n - 1 : m \in Reached => m + 1 \in Reached
    BY <1>1, <1>2
  <2>2. \A m \in 0 .. n : m \in Reached
    <3> HIDE DEF Reached, n
    <3> QED
      BY <2>1, Induction
  <2> QED
    BY <2>2
<1>4. \E f : All(f)
  <2>1. PICK f : Goes(f, n)
    BY <1>3
  <2>2. PICK g : g = [k \in 0 .. n |-> f[k]]
    OBVIOUS
  <2>3. All(g)
    BY <2>1, <2>2
  <2> HIDE DEF All
  <2> QED
    BY <2>3
<1>5. All(after)
  <2> HIDE DEF All
  <2> QED
    BY <1>4
<1>6. SortBy(q, p, value) = after[n]
  BY DEF ForEach, SortBy
<1> HIDE DEF after
<1>7. Goes(after, n)
  BY <1>5
<1>8. KeyRun(after, q, p, value)
  BY <1>6, <1>7 DEF KeyRun
<1> QED
  BY <1>8

\* The words of a request: f[k] is what has been made of the first k.
PairRun(f, q, pairs) ==
  /\ f[0] = db_query_parameters_init
  /\ \A k \in 1 .. Len(pairs) : f[k] = ReadPair(q, f[k - 1], pairs[k])
  /\ ReadPairs(q, pairs) = f[Len(pairs)]

LEMMA PairLoop ==
  ASSUME NEW q, NEW pairs, Len(pairs) \in Nat
  PROVE  \E f : PairRun(f, q, pairs)
<1> DEFINE n == Len(pairs)
           Goes(f, m) == /\ f[0] = db_query_parameters_init
                         /\ \A k \in 1 .. m : f[k] = ReadPair(q, f[k - 1], pairs[k])
           All(f) == f = [k \in 0 .. n |-> IF k = 0 THEN db_query_parameters_init
                                          ELSE ReadPair(q, f[k - 1], pairs[k])]
           Reached == {m \in 0 .. n : \E f : Goes(f, m)}
           after == CHOOSE f : All(f)
<1>1. \E f : Goes(f, 0)
  <2>1. PICK f : f = [k \in {0} |-> db_query_parameters_init]
    OBVIOUS
  <2>2. Goes(f, 0)
    BY <2>1
  <2> QED
    BY <2>2
<1>2. ASSUME NEW m \in 0 .. n - 1, NEW f, Goes(f, m)
      PROVE  \E g : Goes(g, m + 1)
  <2>1. PICK g : g = [k \in 0 .. m + 1 |-> IF k <= m THEN f[k] ELSE ReadPair(q, f[m], pairs[k])]
    OBVIOUS
  <2>2. Goes(g, m + 1)
    BY <1>2, <2>1
  <2> HIDE DEF Goes
  <2> QED
    BY <2>2
<1>3. \E f : Goes(f, n)
  <2> HIDE DEF Goes
  <2>1. n \in Nat /\ 0 \in Reached /\ \A m \in 0 .. n - 1 : m \in Reached => m + 1 \in Reached
    BY <1>1, <1>2
  <2>2. \A m \in 0 .. n : m \in Reached
    <3> HIDE DEF Reached, n
    <3> QED
      BY <2>1, Induction
  <2> QED
    BY <2>2
<1>4. \E f : All(f)
  <2>1. PICK f : Goes(f, n)
    BY <1>3
  <2>2. PICK g : g = [k \in 0 .. n |-> f[k]]
    OBVIOUS
  <2>3. All(g)
    BY <2>1, <2>2
  <2> HIDE DEF All
  <2> QED
    BY <2>3
<1>5. All(after)
  <2> HIDE DEF All
  <2> QED
    BY <1>4
<1>6. ReadPairs(q, pairs) = after[n]
  BY DEF ForEach, ReadPairs
<1> HIDE DEF after
<1>7. Goes(after, n)
  BY <1>5
<1>8. PairRun(after, q, pairs)
  BY <1>6, <1>7 DEF PairRun
<1> QED
  BY <1>8

-----------------------------------------------------------------------------
(* Sequences, whatever their elements are *)

\* A sequence of anything; kept folded, as it says what s is by s.
IsSequence(s) == Len(s) \in Nat /\ s = [i \in 1 .. Len(s) |-> s[i]]

LEMMA Elements ==
  ASSUME NEW s, IsSequence(s), NEW T, \A i \in 1 .. Len(s) : s[i] \in T
  PROVE  s \in Seq(T)
<1>1. PICK n \in Nat : n = Len(s)
  BY DEF IsSequence
<1>2. s \in [1 .. n -> T]
  BY <1>1 DEF IsSequence
<1> QED
  BY <1>2

LEMMA SequenceOf ==
  ASSUME NEW T, NEW s \in Seq(T)
  PROVE  IsSequence(s) /\ DOMAIN s = 1 .. Len(s) /\ \A i \in 1 .. Len(s) : s[i] \in T
  BY DEF IsSequence

LEMMA SequenceOn ==
  ASSUME NEW n \in Nat, NEW s, s = [i \in 1 .. n |-> s[i]]
  PROVE  IsSequence(s) /\ Len(s) = n
<1> DEFINE T == {s[i] : i \in 1 .. n}
<1>1. s \in [1 .. n -> T]
  OBVIOUS
<1>2. s \in Seq(T) /\ Len(s) = n
  BY <1>1
<1> QED
  BY <1>2 DEF IsSequence

LEMMA EmptySequence == IsSequence(<< >>) /\ Len(<< >>) = 0
  BY EmptySeq DEF IsSequence

LEMMA SameSequence ==
  ASSUME NEW s, NEW t, IsSequence(s), IsSequence(t), Len(s) = Len(t),
         \A i \in 1 .. Len(s) : s[i] = t[i]
  PROVE  s = t
  BY DEF IsSequence

LEMMA Appended ==
  ASSUME NEW s, IsSequence(s), NEW e
  PROVE  /\ IsSequence(Append(s, e))
         /\ Len(Append(s, e)) = Len(s) + 1
         /\ \A i \in 1 .. Len(s) : Append(s, e)[i] = s[i]
         /\ Append(s, e)[Len(s) + 1] = e
<1> DEFINE T == {s[i] : i \in 1 .. Len(s)} \cup {e}
<1>1. s \in Seq(T) /\ e \in T
  BY Elements
<1> HIDE DEF T
<1>2. /\ Append(s, e) \in Seq(T)
      /\ Len(Append(s, e)) = Len(s) + 1
      /\ \A i \in 1 .. Len(s) : Append(s, e)[i] = s[i]
      /\ Append(s, e)[Len(s) + 1] = e
  BY <1>1, AppendProperties
<1> QED
  BY <1>2, SequenceOf

LEMMA Joined ==
  ASSUME NEW s, IsSequence(s), NEW t, IsSequence(t)
  PROVE  /\ IsSequence(s \o t)
         /\ Len(s \o t) = Len(s) + Len(t)
         /\ \A i \in 1 .. Len(s) : (s \o t)[i] = s[i]
         /\ \A i \in 1 .. Len(t) : (s \o t)[Len(s) + i] = t[i]
<1> DEFINE T == {s[i] : i \in 1 .. Len(s)} \cup {t[i] : i \in 1 .. Len(t)}
<1>1. s \in Seq(T) /\ t \in Seq(T)
  BY Elements
<1> HIDE DEF T
<1>2. PICK m \in Nat, n \in Nat : m = Len(s) /\ n = Len(t)
  BY DEF IsSequence
<1>3. s \o t \in Seq(T) /\ Len(s \o t) = m + n
  BY <1>1, <1>2, ConcatProperties
<1>4. \A i \in 1 .. m + n : (s \o t)[i] = IF i <= m THEN s[i] ELSE t[i - m]
  BY <1>1, <1>2, ConcatProperties
<1>5. \A i \in 1 .. m : (s \o t)[i] = s[i]
  BY <1>4, <1>2
<1>6. \A i \in 1 .. n : (s \o t)[m + i] = t[i]
  <2> TAKE i \in 1 .. n
  <2>1. m + i \in 1 .. m + n /\ ~(m + i <= m) /\ (m + i) - m = i
    BY <1>2
  <2> QED
    BY <1>4, <2>1
<1> QED
  BY <1>2, <1>3, <1>5, <1>6, SequenceOf

LEMMA OneElement ==
  ASSUME NEW e
  PROVE  IsSequence(<<e>>) /\ Len(<<e>>) = 1 /\ <<e>>[1] = e
<1>1. <<e>> \in Seq({e}) /\ Len(<<e>>) = 1 /\ <<e>>[1] = e
  OBVIOUS
<1> QED
  BY <1>1, SequenceOf

LEMMA AppendedIsJoined ==
  ASSUME NEW s, IsSequence(s), NEW e
  PROVE  Append(s, e) = s \o <<e>>
<1>1. PICK l \in Nat : l = Len(s)
  BY DEF IsSequence
<1>2. PICK a, b, c : a = Append(s, e) /\ b = <<e>> /\ c = s \o <<e>>
  OBVIOUS
<1>3. IsSequence(b) /\ Len(b) = 1 /\ b[1] = e
  BY <1>2, OneElement
<1>4. IsSequence(a) /\ Len(a) = l + 1 /\ (\A i \in 1 .. l : a[i] = s[i]) /\ a[l + 1] = e
  BY <1>1, <1>2, Appended
<1>5. IsSequence(c) /\ Len(c) = l + 1 /\ (\A i \in 1 .. l : c[i] = s[i]) /\ c[l + 1] = b[1]
  <2>1. PICK m \in Nat : m = Len(b) /\ m = 1
    BY <1>3
  <2>2. IsSequence(b) /\ c = s \o b
    BY <1>2, <1>3
  <2>3. /\ IsSequence(c) /\ Len(c) = l + m /\ \A i \in 1 .. l : c[i] = s[i]
        /\ \A i \in 1 .. m : c[l + i] = b[i]
    <3>1. m = Len(b)
      BY <2>1
    <3> QED
      BY <1>1, <2>2, <3>1, Joined
  <2> QED
    BY <2>1, <2>3
<1>6. \A i \in 1 .. l + 1 : a[i] = c[i]
  BY <1>3, <1>4, <1>5
<1>7. a = c
  BY <1>4, <1>5, <1>6, SameSequence
<1> QED
  BY <1>2, <1>7

LEMMA JoinedNone ==
  ASSUME NEW s, IsSequence(s)
  PROVE  s \o << >> = s
<1>1. PICK l \in Nat : l = Len(s)
  BY DEF IsSequence
<1>2. PICK e, c : e = << >> /\ c = s \o << >>
  OBVIOUS
<1>3. IsSequence(e) /\ Len(e) = 0
  BY <1>2, EmptySequence
<1>4. IsSequence(c) /\ Len(c) = l + 0 /\ \A i \in 1 .. l : c[i] = s[i]
  BY <1>1, <1>2, <1>3, Joined
<1>5. c = s
  BY <1>1, <1>4, SameSequence
<1> QED
  BY <1>2, <1>5

\* A sequence of s and none of t.
LEMMA NoneOf ==
  ASSUME NEW s, IsSequence(s), NEW t
  PROVE  s \o [i \in 1 .. 0 |-> t[i]] = s
<1>1. PICK e : e = [i \in 1 .. 0 |-> t[i]]
  OBVIOUS
<1>2. IsSequence(e) /\ Len(e) = 0
  <2>1. e = [i \in 1 .. 0 |-> e[i]]
    BY <1>1
  <2> QED
    BY <2>1, SequenceOn
<1>3. PICK c : c = s \o e
  OBVIOUS
<1>4. PICK l \in Nat : l = Len(s)
  BY DEF IsSequence
<1>5. IsSequence(c) /\ Len(c) = l + 0 /\ \A i \in 1 .. l : c[i] = s[i]
  BY <1>2, <1>3, <1>4, Joined
<1>6. c = s
  BY <1>4, <1>5, SameSequence
<1> QED
  BY <1>1, <1>3, <1>6

\* A sequence of s and then the first k elements of t, and one more.
LEMMA OneMoreOf ==
  ASSUME NEW s, IsSequence(s), NEW t, NEW k \in Nat
  PROVE  Append(s \o [i \in 1 .. k |-> t[i]], t[k + 1]) = s \o [i \in 1 .. k + 1 |-> t[i]]
<1>1. PICK a : a = [i \in 1 .. k |-> t[i]]
  OBVIOUS
<1>2. PICK b : b = [i \in 1 .. k + 1 |-> t[i]]
  OBVIOUS
<1>3. IsSequence(a) /\ Len(a) = k /\ IsSequence(b) /\ Len(b) = k + 1
  BY <1>1, <1>2, SequenceOn
<1>4. PICK n \in Nat : n = Len(s)
  BY DEF IsSequence
<1>5. PICK c : c = s \o a
  OBVIOUS
<1>6. /\ IsSequence(c) /\ Len(c) = n + k
      /\ \A i \in 1 .. n : c[i] = s[i]
      /\ \A i \in 1 .. k : c[n + i] = t[i]
  BY <1>1, <1>3, <1>4, <1>5, Joined
<1>7. PICK d : d = s \o b
  OBVIOUS
<1>8. /\ IsSequence(d) /\ Len(d) = n + (k + 1)
      /\ \A i \in 1 .. n : d[i] = s[i]
      /\ \A i \in 1 .. k + 1 : d[n + i] = t[i]
  BY <1>2, <1>3, <1>4, <1>7, Joined
<1>9. PICK e : e = Append(c, t[k + 1])
  OBVIOUS
<1>10. /\ IsSequence(e) /\ Len(e) = (n + k) + 1
       /\ \A i \in 1 .. n + k : e[i] = c[i]
       /\ e[(n + k) + 1] = t[k + 1]
  BY <1>6, <1>9, Appended
<1>11. Len(e) = Len(d)
  BY <1>8, <1>10
<1>12. \A i \in 1 .. (n + k) + 1 : e[i] = d[i]
  <2> TAKE i \in 1 .. (n + k) + 1
  <2>1. CASE i \in 1 .. n
    BY <2>1, <1>6, <1>8, <1>10
  <2>2. CASE i \in n + 1 .. n + k
    <3>1. i - n \in 1 .. k /\ n + (i - n) = i /\ i - n \in 1 .. k + 1 /\ i \in 1 .. n + k
      BY <2>2
    <3> QED
      BY <3>1, <1>6, <1>8, <1>10
  <2>3. CASE i = (n + k) + 1
    <3>1. k + 1 \in 1 .. k + 1 /\ n + (k + 1) = i
      BY <2>3
    <3> QED
      BY <2>3, <3>1, <1>8, <1>10
  <2> QED
    BY <2>1, <2>2, <2>3
<1>13. e = d
  BY <1>8, <1>10, <1>11, <1>12, SameSequence
<1> QED
  BY <1>1, <1>2, <1>5, <1>7, <1>9, <1>13

\* What FlattenSeq is, one element after the other.
Iterates(g, n, ss) ==
  /\ g[0] = << >>
  /\ \A k \in 1 .. n : g[k] = g[k - 1] \o ss[k]
  /\ \A k \in 0 .. n : IsSequence(g[k])
  /\ FlattenSeq(ss) = g[n]

LEMMA Flattened ==
  ASSUME NEW n \in Nat, NEW ss, IsSequence(ss), Len(ss) = n, \A i \in 1 .. n : IsSequence(ss[i])
  PROVE  \E g : Iterates(g, n, ss)
<1> DEFINE Goes(g, m) == g[0] = << >> /\ \A k \in 1 .. m : g[k] = g[k - 1] \o ss[k]
           Flat(f) == f = [i \in 1 .. n |-> IF i = 1 THEN ss[i] ELSE f[i - 1] \o ss[i]]
           Reached == {m \in 0 .. n : \E g : Goes(g, m) /\ \A k \in 0 .. m : IsSequence(g[k])}
           flatten == CHOOSE f : Flat(f)
<1>1. 0 \in Reached
  <2>1. PICK g : g = [k \in {0} |-> << >>]
    OBVIOUS
  <2>2. Goes(g, 0) /\ \A k \in 0 .. 0 : IsSequence(g[k])
    BY <2>1, EmptySequence
  <2> HIDE DEF Goes
  <2>3. \E h : Goes(h, 0) /\ \A k \in 0 .. 0 : IsSequence(h[k])
    BY <2>2
  <2> QED
    BY <2>3
<1>2. ASSUME NEW m \in 0 .. n - 1, m \in Reached
      PROVE  m + 1 \in Reached
  <2>1. PICK g : Goes(g, m) /\ \A k \in 0 .. m : IsSequence(g[k])
    BY <1>2
  <2>2. PICK h : h = [k \in 0 .. m + 1 |-> IF k <= m THEN g[k] ELSE g[m] \o ss[k]]
    OBVIOUS
  <2>3. Goes(h, m + 1)
    <3>1. h[0] = << >>
      BY <2>1, <2>2
    <3>2. ASSUME NEW k \in 1 .. m + 1 PROVE h[k] = h[k - 1] \o ss[k]
      <4>1. k - 1 \in 0 .. m /\ h[k - 1] = g[k - 1]
        BY <2>2
      <4>2. CASE k <= m
        <5>1. h[k] = g[k] /\ g[k] = g[k - 1] \o ss[k]
          BY <2>1, <2>2, <4>2
        <5> QED
          BY <4>1, <5>1
      <4>3. CASE ~(k <= m)
        <5>1. k = m + 1 /\ k - 1 = m /\ h[k] = g[m] \o ss[k]
          BY <2>2, <4>3
        <5> QED
          BY <4>1, <5>1
      <4> QED
        BY <4>2, <4>3
    <3> QED
      BY <3>1, <3>2
  <2>4. IsSequence(g[m] \o ss[m + 1])
    BY <2>1, Joined
  <2>5. \A k \in 0 .. m + 1 : IsSequence(h[k])
    BY <2>1, <2>2, <2>4
  <2> HIDE DEF Goes
  <2>6. \E f : Goes(f, m + 1) /\ \A k \in 0 .. m + 1 : IsSequence(f[k])
    BY <2>3, <2>5
  <2> QED
    BY <2>6
<1>3. \A m \in 0 .. n : m \in Reached
  <2> HIDE DEF Reached
  <2> QED
    BY <1>1, <1>2, Induction
<1>4. PICK g : Goes(g, n) /\ \A k \in 0 .. n : IsSequence(g[k])
  <2> HIDE DEF Goes
  <2>1. n \in Reached
    BY <1>3
  <2> QED
    BY <2>1
<1>5. IsSequence(ss) /\ Len(ss) = n
  OBVIOUS
<1>6. CASE n = 0
  <2>1. ss = << >>
    BY <1>5, <1>6, EmptySequence, SameSequence
  <2>2. FlattenSeq(ss) = ss
    BY <1>5, <1>6 DEF FlattenSeq
  <2> QED
    BY <1>4, <1>6, <2>1, <2>2 DEF Iterates
<1>7. CASE n # 0
  <2>1. << >> \o ss[1] = ss[1]
    <3>1. IsSequence(ss[1])
      BY <1>7
    <3>2. /\ IsSequence(<< >> \o ss[1]) /\ Len(<< >> \o ss[1]) = 0 + Len(ss[1])
          /\ \A i \in 1 .. Len(ss[1]) : (<< >> \o ss[1])[0 + i] = ss[1][i]
      BY <3>1, EmptySequence, Joined
    <3>3. PICK l \in Nat : l = Len(ss[1])
      BY <3>1 DEF IsSequence
    <3>4. \A i \in 1 .. l : 0 + i = i
      OBVIOUS
    <3>5. 0 + l = l
      OBVIOUS
    <3> QED
      BY <3>1, <3>2, <3>3, <3>4, <3>5, SameSequence
  <2>2. PICK f : f = [i \in 1 .. n |-> g[i]]
    OBVIOUS
  <2>3. Flat(f)
    <3>1. ASSUME NEW i \in 1 .. n
          PROVE  f[i] = IF i = 1 THEN ss[i] ELSE f[i - 1] \o ss[i]
      <4>1. CASE i = 1
        <5>1. 1 \in 1 .. n /\ 1 - 1 = 0
          BY <1>7
        <5>2. g[1] = g[1 - 1] \o ss[1] /\ g[0] = << >>
          BY <5>1, <1>4, Zenon
        <5>3. f[1] = g[1]
          BY <5>1, <2>2, Zenon
        <5>4. f[1] = ss[1]
          BY <5>1, <5>2, <5>3, <2>1, Zenon
        <5> QED
          BY <4>1, <5>4, Zenon
      <4>2. CASE i # 1
        <5>1. i - 1 \in 1 .. n
          BY <4>2
        <5> QED
          BY <4>2, <5>1, <1>4, <2>2
      <4> QED
        BY <4>1, <4>2
    <3> QED
      BY <2>2, <3>1
  <2>4. Flat(flatten)
    <3> HIDE DEF Flat
    <3> QED
      BY <2>3
  <2>5. FlattenSeq(ss) = flatten[n]
    BY <1>5, <1>7 DEF FlattenSeq
  <2> HIDE DEF flatten
  <2> DEFINE Same == {m \in 0 .. n : m = 0 \/ flatten[m] = g[m]}
  <2>6. \A m \in 0 .. n : m \in Same
    <3>1. 0 \in Same
      OBVIOUS
    <3>2. ASSUME NEW m \in 0 .. n - 1, m \in Same
          PROVE  m + 1 \in Same
      <4>1. m + 1 \in 1 .. n /\ (m + 1) - 1 = m
        OBVIOUS
      <4>2. g[m + 1] = g[m] \o ss[m + 1]
        BY <1>4, <4>1
      <4>3. CASE m = 0
        <5>1. flatten[1] = ss[1]
          BY <2>4, <1>7
        <5>2. g[1] = ss[1]
          BY <4>2, <4>3, <1>4, <2>1
        <5> QED
          BY <4>1, <4>3, <5>1, <5>2
      <4>4. CASE m # 0
        <5>1. flatten[m + 1] = flatten[m] \o ss[m + 1]
          <6>1. flatten[m + 1] = IF m + 1 = 1 THEN ss[m + 1] ELSE flatten[(m + 1) - 1] \o ss[m + 1]
            BY <2>4, <4>1, Zenon
          <6>2. m + 1 # 1
            BY <4>4
          <6> QED
            BY <4>1, <6>1, <6>2, Zenon
        <5>2. flatten[m] = g[m]
          BY <3>2, <4>4
        <5> QED
          <6>1. flatten[m + 1] = g[m + 1] /\ m + 1 \in 0 .. n
            BY <4>1, <4>2, <5>1, <5>2
          <6> QED
            BY <6>1, Zenon
      <4> QED
        BY <4>3, <4>4
    <3> HIDE DEF Same
    <3> QED
      BY <3>1, <3>2, Induction
  <2>7. flatten[n] = g[n]
    <3>1. n \in Same
      <4> HIDE DEF Same
      <4> QED
        BY <2>6
    <3> QED
      BY <3>1, <1>7, Zenon
  <2> QED
    BY <1>4, <2>5, <2>7, Zenon DEF Iterates
<1> QED
  BY <1>6, <1>7

\* The last place with a property, as a loop comes to know it.
LEMMA LastPlace ==
  ASSUME NEW k \in Nat, NEW P, P \subseteq Nat
  PROVE  /\ k + 1 \in P => P \cap (1 .. k + 1) # {} /\ Max(P \cap (1 .. k + 1)) = k + 1
         /\ k + 1 \notin P => P \cap (1 .. k + 1) = P \cap (1 .. k)
<1>1. ASSUME k + 1 \in P PROVE Max(P \cap (1 .. k + 1)) = k + 1
  <2> DEFINE S == P \cap (1 .. k + 1)
  <2>1. k + 1 \in S /\ \A y \in S : k + 1 >= y
    BY <1>1
  <2>2. \A x \in S : (\A y \in S : x >= y) => x = k + 1
    BY <2>1
  <2>3. Max(S) = k + 1
    <3> HIDE DEF S
    <3> QED
      BY <2>1, <2>2 DEF Max
  <2> QED
    BY <2>3
<1> QED
  BY <1>1

\* The first place with a property.
LEMMA FirstPlace ==
  ASSUME NEW S, S \subseteq Nat, S # {}
  PROVE  Min(S) \in S /\ \A y \in S : Min(S) <= y
<1>1. \E x \in S : \A y \in S : x <= y
  BY LeastOf
<1> QED
  BY <1>1 DEF Min

-----------------------------------------------------------------------------
(* The state of the reading of a query *)

\* A query and the state of its reading, by their parts.
QueryOf(id, tables, columns, names, group) ==
  [id |-> id, tables |-> tables, select_columns |-> columns,
   select_columns_string |-> names, group_by |-> group]
State(id, tables, columns, names, group, table_id, status) ==
  [query |-> QueryOf(id, tables, columns, names, group), table_id |-> table_id,
   status |-> status]

LEMMA StateParts ==
  ASSUME NEW id, NEW tables, NEW columns, NEW names, NEW group, NEW t, NEW status, NEW s,
         s = State(id, tables, columns, names, group, t, status)
  PROVE  /\ s.query = QueryOf(id, tables, columns, names, group)
         /\ s.query.id = id /\ s.table_id = t /\ s.status = status
  BY DEF State, QueryOf

LEMMA StateReturns ==
  ASSUME NEW id, NEW tables, NEW columns, NEW names, NEW group, NEW t, NEW status, NEW s,
         s = State(id, tables, columns, names, group, t, status), NEW x
  PROVE  Returns(s, x) = State(id, tables, columns, names, group, t, x)
  BY DEF State, Returns

LEMMA StateTable ==
  ASSUME NEW id, NEW tables, NEW columns, NEW names, NEW group, NEW t, NEW status, NEW s,
         s = State(id, tables, columns, names, group, t, status), NEW x
  PROVE  [s EXCEPT !.table_id = x] = State(id, tables, columns, names, group, x, status)
  BY DEF State

LEMMA StateJoins ==
  ASSUME NEW id, NEW tables, NEW columns, NEW names, NEW group, NEW t, NEW status, NEW s,
         s = State(id, tables, columns, names, group, t, status), NEW x
  PROVE  [s EXCEPT !.query.tables = Append(@, x)]
         = State(id, Append(tables, x), columns, names, group, t, status)
<1>1. PICK z : z = Append(tables, x)
  OBVIOUS
<1>2. s.query.tables = tables
  BY DEF State, QueryOf
<1>3. [s EXCEPT !.query.tables = z] = State(id, z, columns, names, group, t, status)
  BY DEF State, QueryOf
<1> QED
  BY <1>1, <1>2, <1>3, Zenon

LEMMA StateGroups ==
  ASSUME NEW id, NEW tables, NEW columns, NEW names, NEW group, NEW t, NEW status, NEW s,
         s = State(id, tables, columns, names, group, t, status), NEW x
  PROVE  [s EXCEPT !.query.group_by = x] = State(id, tables, columns, names, x, t, status)
  BY DEF State, QueryOf

LEMMA StateSelects ==
  ASSUME NEW id, NEW tables, NEW columns, NEW names, NEW group, NEW t, NEW status, NEW s,
         s = State(id, tables, columns, names, group, t, status), NEW x, NEW y
  PROVE  Selects(s, x, y)
         = State(id, tables, Append(columns, x), Append(names, y), group, t, status)
<1>1. PICK z, w : z = Append(columns, x) /\ w = Append(names, y)
  OBVIOUS
<1>2. s.query.select_columns = columns /\ s.query.select_columns_string = names
  BY DEF State, QueryOf
<1>3. [s EXCEPT !.query.select_columns = z] = State(id, tables, z, names, group, t, status)
  BY DEF State, QueryOf
<1>4. PICK v : v = State(id, tables, z, names, group, t, status)
  OBVIOUS
<1>5. [v EXCEPT !.query.select_columns_string = w] = State(id, tables, z, w, group, t, status)
  BY <1>4 DEF State, QueryOf
<1>6. [s EXCEPT !.query.select_columns = z, !.query.select_columns_string = w]
      = [v EXCEPT !.query.select_columns_string = w]
  BY <1>3, <1>4, Zenon
<1> QED
  BY <1>1, <1>2, <1>5, <1>6, Zenon DEF Selects

\* Whatever is read, and however it ends, the query keeps its id.
Of(s, id) ==
  \E tables, columns, names, group, t, status :
    s = State(id, tables, columns, names, group, t, status)

LEMMA OfSteps ==
  ASSUME NEW id, NEW s, Of(s, id), NEW x
  PROVE  /\ Of(Returns(s, x), id) /\ Of([s EXCEPT !.table_id = x], id)
         /\ Of([s EXCEPT !.query.tables = Append(@, x)], id)
         /\ Of([s EXCEPT !.query.group_by = x], id) /\ \A y : Of(Selects(s, x, y), id)
<1>1. PICK tables, columns, names, group, t, status :
        s = State(id, tables, columns, names, group, t, status)
  BY DEF Of
<1> DEFINE a == Returns(s, x)
           b == [s EXCEPT !.table_id = x]
           c == [s EXCEPT !.query.tables = Append(@, x)]
           d == [s EXCEPT !.query.group_by = x]
           e(y) == Selects(s, x, y)
<1>2. /\ a = State(id, tables, columns, names, group, t, x)
      /\ b = State(id, tables, columns, names, group, x, status)
      /\ c = State(id, Append(tables, x), columns, names, group, t, status)
      /\ d = State(id, tables, columns, names, x, t, status)
      /\ \A y : e(y) = State(id, tables, Append(columns, x), Append(names, y), group, t, status)
  BY <1>1, StateReturns, StateTable, StateJoins, StateGroups, StateSelects
<1> HIDE DEF a, b, c, d, e
<1>3. Of(a, id) /\ Of(b, id) /\ Of(c, id) /\ Of(d, id) /\ \A y : Of(e(y), id)
  BY <1>2 DEF Of
<1> QED
  BY <1>3 DEF a, b, c, d, e

LEMMA OfColumns ==
  ASSUME NEW id, NEW s, Of(s, id), NEW table, NEW ids, Len(ids) \in Nat
  PROVE  Of(ReadColumns(s, table, ids), id)
<1>1. PICK f : ColumnRun(f, s, table, ids)
  BY ColumnLoop
<1> DEFINE S == {k \in 0 .. Len(ids) : Of(f[k], id)}
<1>2. 0 \in S
  BY <1>1 DEF ColumnRun
<1>3. ASSUME NEW k \in 0 .. Len(ids) - 1, k \in S PROVE k + 1 \in S
  <2>1. k + 1 \in 1 .. Len(ids) /\ (k + 1) - 1 = k /\ Of(f[k], id)
    BY <1>3
  <2>2. f[k + 1] = ReadColumn(f[k], table, ids[k + 1])
    BY <1>1, <2>1 DEF ColumnRun
  <2>3. Of(ReadColumn(f[k], table, ids[k + 1]), id)
    BY <2>1, OfSteps DEF ReadColumn
  <2> QED
    BY <2>1, <2>2, <2>3
<1>4. \A k \in 0 .. Len(ids) : k \in S
  <2> HIDE DEF S
  <2> QED
    BY <1>2, <1>3, Induction
<1> QED
  BY <1>1, <1>4 DEF ColumnRun

LEMMA OfCounts ==
  ASSUME NEW id, NEW s, Of(s, id), NEW ids, Len(ids) \in Nat
  PROVE  Of(ReadCounts(s, ids), id)
<1>1. PICK f : CountRun(f, s, ids)
  BY CountLoop
<1> DEFINE S == {k \in 0 .. Len(ids) : Of(f[k], id)}
<1>2. 0 \in S
  BY <1>1 DEF CountRun
<1>3. ASSUME NEW k \in 0 .. Len(ids) - 1, k \in S PROVE k + 1 \in S
  <2>1. k + 1 \in 1 .. Len(ids) /\ (k + 1) - 1 = k /\ Of(f[k], id)
    BY <1>3
  <2>2. f[k + 1] = ReadCount(f[k], ids[k + 1])
    BY <1>1, <2>1 DEF CountRun
  <2>3. Of(ReadCount(f[k], ids[k + 1]), id)
    <3> DEFINE t == TableOf(f[k], ids[k + 1])
               read == [f[k] EXCEPT !.table_id = t]
    <3>1. Of(read, id)
      BY <2>1, OfSteps
    <3> HIDE DEF read
    <3>2. Of(Returns(read, -1), id) /\ Of(Selects(read, CountColumn(t), CountName(t)), id)
      BY <3>1, OfSteps
    <3> QED
      BY <3>2, <2>1 DEF ReadCount, read
  <2> QED
    BY <2>1, <2>2, <2>3
<1>4. \A k \in 0 .. Len(ids) : k \in S
  <2> HIDE DEF S
  <2> QED
    BY <1>2, <1>3, Induction
<1> QED
  BY <1>1, <1>4 DEF CountRun

LEMMA ChildKinds ==
  ASSUME NEW child \in ChildElem
  PROVE  /\ child.kind \in {"table", "group_by", "count", "custom_parameters"}
         /\ child.kind = "table" =>
              child.id \in Attribute /\ child.columns \in Seq(Attribute)
         /\ child.kind = "group_by" => child.columns \in Seq(STRING \X STRING)
         /\ child.kind = "count" => child.tables \in Seq(Attribute)
<1>1. CASE child \in [kind : {"table"}, id : Attribute, columns : Seq(Attribute)]
  BY <1>1
<1>2. CASE child \in [kind : {"group_by"}, columns : Seq(STRING \X STRING)]
  BY <1>2
<1>3. CASE child \in [kind : {"count"}, tables : Seq(Attribute)]
  BY <1>3
<1>4. CASE child \in [kind : {"custom_parameters"}]
  BY <1>4
<1> QED
  BY <1>1, <1>2, <1>3, <1>4 DEF ChildElem

LEMMA OfChildren ==
  ASSUME NEW id, NEW s, Of(s, id), NEW elems \in Seq(ChildElem)
  PROVE  Of(ReadChildren(s, elems), id)
<1>0. Len(elems) \in Nat /\ \A k \in 1 .. Len(elems) : elems[k] \in ChildElem
  OBVIOUS
<1>1. PICK f : ChildRun(f, s, elems)
  BY <1>0, ChildLoop
<1> DEFINE S == {k \in 0 .. Len(elems) : Of(f[k], id)}
<1>2. 0 \in S
  BY <1>1, <1>0 DEF ChildRun
<1>3. ASSUME NEW k \in 0 .. Len(elems) - 1, k \in S PROVE k + 1 \in S
  <2>1. k + 1 \in 1 .. Len(elems) /\ (k + 1) - 1 = k /\ Of(f[k], id)
    BY <1>3, <1>0
  <2>2. f[k + 1] = ReadChild(f[k], elems[k + 1])
    BY <1>1, <2>1 DEF ChildRun
  <2>3. ASSUME NEW child, child = elems[k + 1], NEW u, u = f[k] PROVE Of(ReadChild(u, child), id)
    <3>1. child \in ChildElem /\ Of(u, id)
      BY <1>0, <2>1, <2>3
    <3>2. CASE u.status # 0
      BY <3>1, <3>2 DEF ReadChild
    <3>3. CASE u.status = 0 /\ child.kind = "table"
      <4> DEFINE t == TableOf(u, child.id)
                 read == [u EXCEPT !.table_id = t]
                 joined == [read EXCEPT !.query.tables = Append(@, t)]
      <4>1. ReadChild(u, child) = IF FindById(Tables, t) = NULL THEN Returns(read, -1)
                                  ELSE ReadColumns(joined, FindById(Tables, t), child.columns)
        BY <3>3 DEF ReadChild, ReadTable
      <4>2. Of(read, id)
        BY <3>1, OfSteps
      <4>3. Of(Returns(read, -1), id) /\ Of(joined, id)
        <5> HIDE DEF read
        <5> QED
          BY <4>2, OfSteps
      <4>4. Len(child.columns) \in Nat
        <5>1. child.columns \in Seq(Attribute)
          BY <3>1, <3>3, ChildKinds
        <5> QED
          BY <5>1
      <4>5. Of(ReadColumns(joined, FindById(Tables, t), child.columns), id)
        <5> HIDE DEF joined
        <5> QED
          BY <4>3, <4>4, OfColumns
      <4> QED
        BY <4>1, <4>3, <4>5
    <3>4. CASE u.status = 0 /\ child.kind = "group_by"
      <4>1. ReadChild(u, child) = [u EXCEPT !.query.group_by = child.columns]
        BY <3>4 DEF ReadChild
      <4>2. PICK z : z = child.columns
        OBVIOUS
      <4>3. Of([u EXCEPT !.query.group_by = z], id)
        BY <3>1, OfSteps
      <4> QED
        BY <4>1, <4>2, <4>3
    <3>5. CASE u.status = 0 /\ child.kind = "count"
      <4>1. ReadChild(u, child) = ReadCounts(u, child.tables)
        BY <3>5 DEF ReadChild
      <4>2. Len(child.tables) \in Nat
        <5>1. child.tables \in Seq(Attribute)
          BY <3>1, <3>5, ChildKinds
        <5> QED
          BY <5>1
      <4> QED
        BY <3>1, <4>1, <4>2, OfCounts
    <3>6. CASE u.status = 0 /\ child.kind = "custom_parameters"
      BY <3>1, <3>6 DEF ReadChild
    <3> QED
      BY <3>1, <3>2, <3>3, <3>4, <3>5, <3>6, ChildKinds
  <2> QED
    BY <2>1, <2>2, <2>3
<1>4. \A k \in 0 .. Len(elems) : k \in S
  <2> HIDE DEF S
  <2> QED
    BY <1>0, <1>2, <1>3, Induction
<1> QED
  BY <1>0, <1>1, <1>4 DEF ChildRun

-----------------------------------------------------------------------------
(* The searches *)

\* i is the first place in the sequence with the id.
FirstWith(seq, id, i) ==
  /\ i \in DOMAIN seq /\ seq[i].id = id
  /\ \A j \in DOMAIN seq : seq[j].id = id => i <= j

LEMMA FoundById ==
  ASSUME NEW seq, DOMAIN seq \subseteq Nat, NEW id
  PROVE  /\ (\E i \in DOMAIN seq : seq[i].id = id) =>
              \E i : FirstWith(seq, id, i) /\ FindById(seq, id) = seq[i]
         /\ FindById(seq, id) # NULL => \E i \in DOMAIN seq : seq[i].id = id
<1> DEFINE places == {i \in DOMAIN seq : seq[i].id = id}
<1>1. FindById(seq, id) = IF places = {} THEN NULL ELSE seq[Min(places)]
  BY DEF FindById
<1>2. CASE places = {}
  BY <1>1, <1>2
<1>3. CASE places # {}
  <2>1. Min(places) \in places /\ \A y \in places : Min(places) <= y
    <3>1. places \subseteq Nat
      OBVIOUS
    <3> HIDE DEF places
    <3> QED
      BY <1>3, <3>1, FirstPlace
  <2>2. PICK i : i = Min(places)
    OBVIOUS
  <2>3. FirstWith(seq, id, i)
    BY <2>1, <2>2 DEF FirstWith
  <2>4. FindById(seq, id) = seq[i]
    BY <1>1, <1>3, <2>2
  <2> QED
    BY <2>3, <2>4 DEF FirstWith
<1> QED
  BY <1>2, <1>3

LEMMA OnlyFirst ==
  ASSUME NEW seq, DOMAIN seq \subseteq Nat, NEW id, NEW i, FirstWith(seq, id, i)
  PROVE  FindById(seq, id) = seq[i]
<1>1. PICK j : FirstWith(seq, id, j) /\ FindById(seq, id) = seq[j]
  BY FoundById DEF FirstWith
<1>2. i = j
  BY <1>1 DEF FirstWith
<1> QED
  BY <1>1, <1>2

\* A table that is found has the id, and its columns are its own.
LEMMA TableFound ==
  ASSUME NEW id, Table(id) # NULL
  PROVE  /\ id \in STRING /\ Table(id).id = id
         /\ DOMAIN Table(id).columns \subseteq Nat
         /\ \A j \in DOMAIN Table(id).columns :
              Table(id).columns[j].table = id /\ Table(id).columns[j].id \in STRING
<1>1. DOMAIN Tables = DOMAIN TableElems /\ DOMAIN Tables \subseteq Nat
  BY TableElemsAssumption DEF Tables
<1>2. PICK i \in DOMAIN Tables : Tables[i].id = id /\ Table(id) = Tables[i]
  <2>1. FindById(Tables, id) # NULL
    BY DEF Table
  <2>2. \E i : FirstWith(Tables, id, i) /\ FindById(Tables, id) = Tables[i]
    BY <1>1, <2>1, FoundById
  <2> QED
    BY <2>2 DEF FirstWith, Table
<1>3. PICK elem : elem = TableElems[i]
  OBVIOUS
<1>4. Table(id) = read_table(elem) /\ elem.id = id
  BY <1>1, <1>2, <1>3 DEF Tables, read_table
<1>5. /\ elem.id \in STRING /\ DOMAIN elem.columns = 1 .. Len(elem.columns) /\ Len(elem.columns) \in Nat
      /\ \A j \in DOMAIN elem.columns : elem.columns[j].id \in STRING
  BY <1>1, <1>3, TableElemsAssumption
<1>6. DOMAIN elem.columns \subseteq Nat
  BY <1>5
<1>7. Table(id).columns = [j \in DOMAIN elem.columns |->
        [table |-> elem.id, id |-> elem.columns[j].id, fname |-> elem.columns[j].fname,
         type |-> elem.columns[j].type]]
  BY <1>4 DEF read_table
<1>8. Table(id).id = id
  BY <1>4 DEF read_table
<1>9. \A j \in DOMAIN Table(id).columns :
        Table(id).columns[j].table = id /\ Table(id).columns[j].id \in STRING
  BY <1>4, <1>5, <1>7
<1> QED
  BY <1>4, <1>5, <1>6, <1>7, <1>8, <1>9

LEMMA ColumnFound ==
  ASSUME NEW id, Table(id) # NULL, NEW c, FindById(Table(id).columns, c) # NULL
  PROVE  /\ c \in STRING /\ FindById(Table(id).columns, c).id = c
         /\ FindById(Table(id).columns, c).table = id
<1>1. \E i : FirstWith(Table(id).columns, c, i) /\ FindById(Table(id).columns, c) = Table(id).columns[i]
  BY TableFound, FoundById
<1> QED
  BY <1>1, TableFound DEF FirstWith

-----------------------------------------------------------------------------
(* The list of the columns of a query and the string of their names *)

\* A name in SQL: of a column, or of a table whose rows are counted.
IsName(name) == \E table, id : name = <<table, id>>
\* The column is the one of that name, and shows it.
Stands(column, name) ==
  /\ IsName(name) /\ column.fname = Label(name)
  /\ IF name[2] = NULL THEN column.id = NULL ELSE column.table = name[1] /\ column.id = name[2]

\* Each column stands where its name is.
ListFits(columns, names) ==
  /\ IsSequence(columns) /\ IsSequence(names) /\ Len(columns) = Len(names)
  /\ \A i \in 1 .. Len(names) : Stands(columns[i], names[i])

\* Nothing has gone wrong yet, and this is what has been read.
Fits(s, q, tables, names, group) ==
  \E columns, t : s = State(q, tables, columns, names, group, t, 0) /\ ListFits(columns, names)

LEMMA OneMoreFits ==
  ASSUME NEW columns, NEW names, ListFits(columns, names), NEW c, NEW n, Stands(c, n)
  PROVE  ListFits(Append(columns, c), Append(names, n))
<1>1. PICK l \in Nat : l = Len(columns) /\ l = Len(names)
  BY DEF ListFits, IsSequence
<1>2. PICK a, b : a = Append(columns, c) /\ b = Append(names, n)
  OBVIOUS
<1>3. /\ IsSequence(a) /\ Len(a) = l + 1 /\ \A i \in 1 .. l : a[i] = columns[i]
      /\ a[l + 1] = c
  BY <1>1, <1>2, Appended DEF ListFits
<1>4. /\ IsSequence(b) /\ Len(b) = l + 1 /\ \A i \in 1 .. l : b[i] = names[i]
      /\ b[l + 1] = n
  BY <1>1, <1>2, Appended DEF ListFits
<1>5. ASSUME NEW i \in 1 .. l + 1 PROVE Stands(a[i], b[i])
  BY <1>1, <1>3, <1>4 DEF ListFits
<1> QED
  BY <1>2, <1>3, <1>4, <1>5 DEF ListFits

\* The columns of a table that has them all are read one after the other.
LEMMA ColumnsRead ==
  ASSUME NEW q, NEW tables, NEW columns, NEW names, NEW group, NEW id,
         NEW s, s = State(q, tables, columns, names, group, id, 0),
         ListFits(columns, names), Table(id) # NULL, NEW ids \in Seq(Attribute),
         \A j \in 1 .. Len(ids) : FindById(Table(id).columns, ids[j]) # NULL,
         NEW new, new = [j \in 1 .. Len(ids) |-> <<id, ids[j]>>]
  PROVE  Fits(ReadColumns(s, Table(id), ids), q, tables, names \o new, group)
<1>0. PICK n \in Nat : n = Len(ids)
  OBVIOUS
<1>1. PICK f : ColumnRun(f, s, Table(id), ids)
  BY <1>0, ColumnLoop
<1> DEFINE named == [j \in 1 .. n |-> <<id, ids[j]>>]
           upto(k) == names \o [j \in 1 .. k |-> named[j]]
           Fit(k, more) == f[k] = State(q, tables, more, upto(k), group, id, 0) /\ ListFits(more, upto(k))
           S == {k \in 0 .. n : \E more : Fit(k, more)}
<1>2. upto(0) = names
  <2>1. IsSequence(names)
    BY DEF ListFits
  <2> HIDE DEF named
  <2> QED
    BY <2>1, NoneOf
<1>3. 0 \in S
  <2>1. Fit(0, columns)
    BY <1>1, <1>2 DEF ColumnRun
  <2> HIDE DEF Fit
  <2> QED
    BY <2>1
<1>4. ASSUME NEW k \in 0 .. n - 1, k \in S PROVE k + 1 \in S
  <2>1. k + 1 \in 1 .. n /\ (k + 1) - 1 = k
    OBVIOUS
  <2>2. PICK more : Fit(k, more)
    <3> HIDE DEF Fit
    <3> QED
      BY <1>4
  <2>3. f[k + 1] = ReadColumn(f[k], Table(id), ids[k + 1])
    BY <1>0, <1>1, <2>1 DEF ColumnRun
  <2>4. PICK c : c = ids[k + 1]
    OBVIOUS
  <2>5. PICK column : column = FindById(Table(id).columns, c)
    OBVIOUS
  <2>6. column # NULL /\ c \in STRING /\ column.id = c /\ column.table = id /\ c # NULL
    BY <1>0, <2>1, <2>4, <2>5, ColumnFound, NullAssumption
  <2>7. Table(id).id = id /\ f[k].status = 0
    BY <2>2, StateParts, TableFound
  <2>8. PICK u, name : u = f[k] /\ name = <<id, c>>
    OBVIOUS
  <2>9. ReadColumn(u, Table(id), c) = Selects(u, column, name)
    BY <2>5, <2>6, <2>7, <2>8 DEF ReadColumn
  <2>10. Selects(u, column, name)
         = State(q, tables, Append(more, column), Append(upto(k), name), group, id, 0)
    <3>1. u = State(q, tables, more, upto(k), group, id, 0)
      BY <2>2, <2>8
    <3> HIDE DEF upto
    <3> QED
      BY <3>1, StateSelects
  <2>11. Append(upto(k), name) = upto(k + 1)
    <3>1. named[k + 1] = name
      BY <2>1, <2>4, <2>8
    <3>2. IsSequence(names) /\ k \in Nat
      BY DEF ListFits
    <3> HIDE DEF named
    <3>3. Append(names \o [i \in 1 .. k |-> named[i]], named[k + 1]) = names \o [i \in 1 .. k + 1 |-> named[i]]
      BY <3>2, OneMoreOf
    <3> QED
      BY <3>1, <3>3
  <2>12. Stands(column, name)
    BY <2>5, <2>6, <2>8 DEF Stands, Label, IsName
  <2>13. ListFits(Append(more, column), Append(upto(k), name))
    <3>1. ListFits(more, upto(k))
      BY <2>2
    <3> HIDE DEF upto
    <3> QED
      BY <3>1, <2>12, OneMoreFits
  <2>14. Fit(k + 1, Append(more, column))
    <3> HIDE DEF upto
    <3> QED
      BY <2>3, <2>4, <2>8, <2>9, <2>10, <2>11, <2>13
  <2> HIDE DEF Fit
  <2> QED
    BY <2>1, <2>14
<1>5. n \in S
  <2>1. \A k \in 0 .. n : k \in S
    <3> HIDE DEF S
    <3> QED
      BY <1>3, <1>4, Induction
  <2> HIDE DEF S
  <2> QED
    BY <2>1
<1>6. PICK more : Fit(n, more)
  <2> HIDE DEF Fit
  <2> QED
    BY <1>5
<1>7. upto(n) = names \o new
  BY <1>0
<1>8. f[n] = ReadColumns(s, Table(id), ids)
  BY <1>0, <1>1 DEF ColumnRun
<1> HIDE DEF upto
<1> QED
  BY <1>6, <1>7, <1>8 DEF Fits

\* The same of counts.
LEMMA CountsRead ==
  ASSUME NEW q, NEW tables, NEW columns, NEW names, NEW group, NEW id,
         NEW s, s = State(q, tables, columns, names, group, id, 0),
         ListFits(columns, names), NEW ids \in Seq(Attribute),
         \A j \in 1 .. Len(ids) : Table(ids[j]) # NULL,
         NEW new, new = [j \in 1 .. Len(ids) |-> CountName(ids[j])]
  PROVE  Fits(ReadCounts(s, ids), q, tables, names \o new, group)
<1>0. PICK n \in Nat : n = Len(ids)
  OBVIOUS
<1>1. PICK f : CountRun(f, s, ids)
  BY <1>0, CountLoop
<1> DEFINE named == [j \in 1 .. n |-> CountName(ids[j])]
           upto(k) == names \o [j \in 1 .. k |-> named[j]]
           Fit(k, more, t) == f[k] = State(q, tables, more, upto(k), group, t, 0) /\ ListFits(more, upto(k))
           S == {k \in 0 .. n : \E more, t : Fit(k, more, t)}
<1>2. upto(0) = names
  <2>1. IsSequence(names)
    BY DEF ListFits
  <2> HIDE DEF named
  <2> QED
    BY <2>1, NoneOf
<1>3. 0 \in S
  <2>1. Fit(0, columns, id)
    BY <1>1, <1>2 DEF CountRun
  <2> HIDE DEF Fit
  <2> QED
    BY <2>1
<1>4. ASSUME NEW k \in 0 .. n - 1, k \in S PROVE k + 1 \in S
  <2>1. k + 1 \in 1 .. n /\ (k + 1) - 1 = k
    OBVIOUS
  <2>2. PICK more, t : Fit(k, more, t)
    <3> HIDE DEF Fit
    <3> QED
      BY <1>4
  <2>3. f[k + 1] = ReadCount(f[k], ids[k + 1])
    BY <1>0, <1>1, <2>1 DEF CountRun
  <2>4. PICK c : c = ids[k + 1]
    OBVIOUS
  <2>5. Table(c) # NULL /\ c \in STRING /\ c # NULL
    BY <1>0, <2>1, <2>4, TableFound, NullAssumption
  <2>6. PICK u, name, column, read :
          u = f[k] /\ name = CountName(c) /\ column = CountColumn(c) /\ read = [u EXCEPT !.table_id = c]
    OBVIOUS
  <2>7. u = State(q, tables, more, upto(k), group, t, 0) /\ u.status = 0
    <3>1. u = State(q, tables, more, upto(k), group, t, 0)
      BY <2>2, <2>6
    <3> HIDE DEF upto
    <3> QED
      BY <3>1, StateParts
  <2>9. ReadCount(u, c) = Selects(read, column, name)
    BY <2>5, <2>6, <2>7 DEF ReadCount, TableOf, Table
  <2>10. Selects(read, column, name)
         = State(q, tables, Append(more, column), Append(upto(k), name), group, c, 0)
    <3> HIDE DEF upto
    <3>1. read = State(q, tables, more, upto(k), group, c, 0)
      BY <2>6, <2>7, StateTable
    <3> QED
      BY <3>1, StateSelects
  <2>11. Append(upto(k), name) = upto(k + 1)
    <3>1. named[k + 1] = name
      BY <2>1, <2>4, <2>6
    <3>2. IsSequence(names) /\ k \in Nat
      BY DEF ListFits
    <3> HIDE DEF named
    <3>3. Append(names \o [i \in 1 .. k |-> named[i]], named[k + 1]) = names \o [i \in 1 .. k + 1 |-> named[i]]
      BY <3>2, OneMoreOf
    <3> QED
      BY <3>1, <3>3
  <2>12. Stands(column, name)
    BY <2>6 DEF Stands, IsName, Label, CountName, CountColumn
  <2>13. ListFits(Append(more, column), Append(upto(k), name))
    <3>1. ListFits(more, upto(k))
      BY <2>2
    <3> HIDE DEF upto
    <3> QED
      BY <3>1, <2>12, OneMoreFits
  <2>14. Fit(k + 1, Append(more, column), c)
    <3> HIDE DEF upto
    <3> QED
      BY <2>3, <2>4, <2>6, <2>9, <2>10, <2>11, <2>13
  <2> HIDE DEF Fit
  <2> QED
    BY <2>1, <2>14
<1>5. n \in S
  <2>1. \A k \in 0 .. n : k \in S
    <3> HIDE DEF S
    <3> QED
      BY <1>3, <1>4, Induction
  <2> HIDE DEF S
  <2> QED
    BY <2>1
<1>6. PICK more, t : Fit(n, more, t)
  <2> HIDE DEF Fit
  <2> QED
    BY <1>5
<1>7. upto(n) = names \o new
  BY <1>0
<1>8. f[n] = ReadCounts(s, ids)
  BY <1>0, <1>1 DEF CountRun
<1> HIDE DEF upto
<1> QED
  BY <1>6, <1>7, <1>8 DEF Fits

-----------------------------------------------------------------------------
(* What is read of a query *)

\* The columns of the last group_by of the first k children.
GroupUpTo(cs, k) ==
  LET places == {i \in DOMAIN cs : cs[i].kind = "group_by"} \cap (1 .. k)
  IN IF places = {} THEN << >> ELSE cs[Max(places)].columns

LEMMA GroupStep ==
  ASSUME NEW cs, DOMAIN cs \subseteq Nat, NEW k \in Nat, k + 1 \in DOMAIN cs
  PROVE  GroupUpTo(cs, k + 1) = IF cs[k + 1].kind = "group_by" THEN cs[k + 1].columns
                                ELSE GroupUpTo(cs, k)
<1> DEFINE P == {i \in DOMAIN cs : cs[i].kind = "group_by"}
<1>1. P \subseteq Nat /\ (k + 1 \in P <=> cs[k + 1].kind = "group_by")
  OBVIOUS
<1>2. /\ k + 1 \in P => P \cap (1 .. k + 1) # {} /\ Max(P \cap (1 .. k + 1)) = k + 1
      /\ k + 1 \notin P => P \cap (1 .. k + 1) = P \cap (1 .. k)
  <2> HIDE DEF P
  <2> QED
    BY <1>1, LastPlace
<1>3. /\ GroupUpTo(cs, k) = IF P \cap (1 .. k) = {} THEN << >> ELSE cs[Max(P \cap (1 .. k))].columns
      /\ GroupUpTo(cs, k + 1) = IF P \cap (1 .. k + 1) = {} THEN << >>
                                ELSE cs[Max(P \cap (1 .. k + 1))].columns
  BY DEF GroupUpTo
<1> HIDE DEF P
<1> QED
  BY <1>1, <1>2, <1>3

\* What a child adds to the tables of its query.
TablesIn(child) == IF child.kind = "table" THEN <<child.id>> ELSE << >>

LEMMA ChildParts ==
  ASSUME NEW child \in ChildElem
  PROVE  IsSequence(TablesIn(child)) /\ IsSequence(NamesIn(child))
<1>1. IsSequence(TablesIn(child))
  BY OneElement, EmptySequence DEF TablesIn
<1>2. CASE child.kind = "table"
  <2>1. child.columns \in Seq(Attribute)
    BY <1>2, ChildKinds
  <2>2. PICK n \in Nat : n = Len(child.columns)
    BY <2>1
  <2>3. NamesIn(child) = [j \in 1 .. n |-> <<child.id, child.columns[j]>>]
    BY <1>2, <2>1, <2>2 DEF NamesIn
  <2>4. NamesIn(child) = [j \in 1 .. n |-> NamesIn(child)[j]]
    BY <2>3
  <2> QED
    BY <1>1, <2>4, SequenceOn
<1>3. CASE child.kind = "count"
  <2>1. child.tables \in Seq(Attribute)
    BY <1>3, ChildKinds
  <2>2. PICK n \in Nat : n = Len(child.tables)
    BY <2>1
  <2>3. NamesIn(child) = [j \in 1 .. n |-> CountName(child.tables[j])]
    BY <1>3, <2>1, <2>2 DEF NamesIn
  <2>4. NamesIn(child) = [j \in 1 .. n |-> NamesIn(child)[j]]
    BY <2>3
  <2> QED
    BY <1>1, <2>4, SequenceOn
<1>4. CASE child.kind \notin {"table", "count"}
  BY <1>1, <1>4, EmptySequence DEF NamesIn
<1> QED
  BY <1>2, <1>3, <1>4

\* A table is joined.
Joins(s, id) == [s EXCEPT !.query.tables = Append(@, id)]
Names(s, id) == [s EXCEPT !.table_id = id]

LEMMA ChildIsRead ==
  ASSUME NEW child \in ChildElem, WellFormedChild(child), NEW q, NEW tables, IsSequence(tables),
         NEW names, NEW group, NEW s, Fits(s, q, tables, names, group)
  PROVE  Fits(ReadChild(s, child), q, tables \o TablesIn(child), names \o NamesIn(child),
              IF child.kind = "group_by" THEN child.columns ELSE group)
<1> PICK columns, t : s = State(q, tables, columns, names, group, t, 0) /\ ListFits(columns, names)
  BY DEF Fits
<1>0. s.status = 0 /\ IsSequence(names)
  BY StateParts DEF ListFits
<1>1. CASE child.kind = "table"
  <2>1. child.columns \in Seq(Attribute) /\ Table(child.id) # NULL
    BY <1>1, ChildKinds DEF WellFormedChild
  <2>2. child.id \in STRING /\ TableOf(s, child.id) = child.id
    BY <2>1, TableFound, NullAssumption DEF TableOf
  <2>3. PICK id, read, joined : id = child.id /\ read = Names(s, id) /\ joined = Joins(read, id)
    OBVIOUS
  <2>4. ReadChild(s, child) = ReadColumns(joined, Table(id), child.columns)
    BY <1>0, <1>1, <2>1, <2>2, <2>3 DEF ReadChild, ReadTable, Table, Names, Joins
  <2>5. read = State(q, tables, columns, names, group, id, 0)
    BY <2>3, StateTable DEF Names
  <2>6. joined = State(q, Append(tables, id), columns, names, group, id, 0)
    <3>1. Joins(read, id) = State(q, Append(tables, id), columns, names, group, id, 0)
      BY <2>5, StateJoins DEF Joins
    <3> QED
      BY <2>3, <3>1
  <2>7. PICK all : all = tables \o TablesIn(child)
    OBVIOUS
  <2>8. Append(tables, id) = all
    BY <1>1, <2>3, <2>7, AppendedIsJoined DEF TablesIn
  <2>9. joined = State(q, all, columns, names, group, id, 0)
    BY <2>6, <2>8
  <2>10. PICK ids : ids = child.columns
    OBVIOUS
  <2>11. \A j \in 1 .. Len(ids) : FindById(Table(id).columns, ids[j]) # NULL
    BY <1>1, <2>1, <2>3, <2>10 DEF WellFormedChild
  <2>12. PICK new : new = [j \in 1 .. Len(ids) |-> <<id, ids[j]>>]
    OBVIOUS
  <2>13. Fits(ReadColumns(joined, Table(id), ids), q, all, names \o new, group)
    BY <2>1, <2>3, <2>9, <2>10, <2>11, <2>12, ColumnsRead
  <2>14. NamesIn(child) = new
    BY <1>1, <2>1, <2>3, <2>10, <2>12 DEF NamesIn
  <2> QED
    BY <1>1, <2>4, <2>7, <2>10, <2>13, <2>14
<1>2. CASE child.kind = "count"
  <2>1. PICK ids : ids = child.tables
    OBVIOUS
  <2>2. ids \in Seq(Attribute) /\ \A j \in 1 .. Len(ids) : Table(ids[j]) # NULL
    BY <1>2, <2>1, ChildKinds DEF WellFormedChild
  <2>3. ReadChild(s, child) = ReadCounts(s, ids)
    BY <1>0, <1>2, <2>1 DEF ReadChild
  <2>4. PICK new : new = [j \in 1 .. Len(ids) |-> CountName(ids[j])]
    OBVIOUS
  <2>5. Fits(ReadCounts(s, ids), q, tables, names \o new, group)
    BY <2>2, <2>4, CountsRead
  <2>6. NamesIn(child) = new
    BY <1>2, <2>1, <2>2, <2>4 DEF NamesIn
  <2>7. tables \o TablesIn(child) = tables
    BY <1>2, JoinedNone DEF TablesIn
  <2> QED
    BY <1>2, <2>3, <2>5, <2>6, <2>7
<1>3. CASE child.kind \in {"group_by", "custom_parameters"}
  <2>1. tables \o TablesIn(child) = tables /\ names \o NamesIn(child) = names
    BY <1>0, <1>3, JoinedNone DEF TablesIn, NamesIn
  <2>2. PICK g : g = IF child.kind = "group_by" THEN child.columns ELSE group
    OBVIOUS
  <2>3. ReadChild(s, child) = State(q, tables, columns, names, g, t, 0)
    <3>1. CASE child.kind = "group_by"
      <4>1. ReadChild(s, child) = [s EXCEPT !.query.group_by = g]
        BY <1>0, <2>2, <3>1 DEF ReadChild
      <4> QED
        BY <4>1, StateGroups
    <3>2. CASE child.kind = "custom_parameters"
      BY <1>0, <2>2, <3>2 DEF ReadChild
    <3> QED
      BY <1>3, <3>1, <3>2
  <2>4. Fits(ReadChild(s, child), q, tables, names, g)
    BY <2>3 DEF Fits
  <2> QED
    BY <2>1, <2>2, <2>4
<1> QED
  BY <1>1, <1>2, <1>3, ChildKinds

LEMMA ChildrenRead ==
  ASSUME NEW elem \in QueryElem, WellFormed(elem), NEW q, NEW t,
         NEW s, s = State(q, << >>, << >>, << >>, << >>, t, 0)
  PROVE  Fits(ReadChildren(s, elem.children), q, TablesNamed(elem), ColumnsNamed(elem), GroupNamed(elem))
<1> PICK cs : cs = elem.children
  OBVIOUS
<1>0. PICK n \in Nat :
        /\ n = Len(cs) /\ DOMAIN cs = 1 .. n
        /\ \A i \in 1 .. n : cs[i] \in ChildElem /\ WellFormedChild(cs[i])
  <2>1. cs \in Seq(ChildElem)
    BY DEF QueryElem
  <2>2. \A i \in DOMAIN cs : WellFormedChild(cs[i])
    BY DEF WellFormed
  <2> QED
    BY <2>1, <2>2
<1>1. PICK ts : ts = [i \in 1 .. n |-> TablesIn(cs[i])]
  OBVIOUS
<1>2. PICK ns : ns = [i \in 1 .. n |-> NamesIn(cs[i])]
  OBVIOUS
<1>3. /\ IsSequence(ts) /\ Len(ts) = n /\ \A i \in 1 .. n : IsSequence(ts[i])
      /\ IsSequence(ns) /\ Len(ns) = n /\ \A i \in 1 .. n : IsSequence(ns[i])
  <2>1. ts = [i \in 1 .. n |-> ts[i]] /\ ns = [i \in 1 .. n |-> ns[i]]
    BY <1>1, <1>2
  <2>2. \A i \in 1 .. n : IsSequence(ts[i]) /\ IsSequence(ns[i])
    BY <1>0, <1>1, <1>2, ChildParts
  <2> QED
    BY <2>1, <2>2, SequenceOn
<1>4. PICK tt : Iterates(tt, n, ts)
  BY <1>3, Flattened
<1>5. PICK nn : Iterates(nn, n, ns)
  BY <1>3, Flattened
<1>6. TablesNamed(elem) = tt[n] /\ ColumnsNamed(elem) = nn[n]
  <2>1. TablesNamed(elem) = FlattenSeq(ts)
    BY <1>0, <1>1 DEF TablesNamed, TablesIn
  <2>2. ColumnsNamed(elem) = FlattenSeq(ns)
    BY <1>0, <1>2 DEF ColumnsNamed
  <2> QED
    BY <1>4, <1>5, <2>1, <2>2 DEF Iterates
<1>7. GroupNamed(elem) = GroupUpTo(cs, n)
  <2>1. {i \in DOMAIN cs : cs[i].kind = "group_by"} \cap (1 .. n) = {i \in DOMAIN cs : cs[i].kind = "group_by"}
    BY <1>0
  <2> QED
    BY <1>0, <2>1 DEF GroupNamed, GroupUpTo
<1>8. PICK f : ChildRun(f, s, cs)
  BY <1>0, ChildLoop
<1> DEFINE Fit(k) == Fits(f[k], q, tt[k], nn[k], GroupUpTo(cs, k))
           S == {k \in 0 .. n : Fit(k)}
<1>9. 0 \in S
  <2>1. GroupUpTo(cs, 0) = << >>
    BY DEF GroupUpTo
  <2>2. ListFits(<< >>, << >>)
    BY EmptySequence DEF ListFits
  <2>3. Fits(s, q, << >>, << >>, << >>)
    BY <2>2 DEF Fits
  <2> QED
    BY <1>4, <1>5, <1>8, <2>1, <2>3 DEF ChildRun, Iterates
<1>10. ASSUME NEW k \in 0 .. n - 1, k \in S PROVE k + 1 \in S
  <2>1. k + 1 \in 1 .. n /\ (k + 1) - 1 = k /\ k \in 0 .. n /\ k \in Nat
    OBVIOUS
  <2>3. PICK child : child = cs[k + 1]
    OBVIOUS
  <2>4. f[k + 1] = ReadChild(f[k], child)
    BY <1>0, <1>8, <2>1, <2>3 DEF ChildRun
  <2>5. child \in ChildElem /\ WellFormedChild(child)
    BY <1>0, <2>1, <2>3
  <2>6. PICK a, tables, names, group :
          a = f[k] /\ tables = tt[k] /\ names = nn[k] /\ group = GroupUpTo(cs, k)
    OBVIOUS
  <2>7. Fits(a, q, tables, names, group) /\ IsSequence(tables)
    BY <1>4, <1>10, <2>1, <2>6 DEF Iterates
  <2>8. Fits(ReadChild(a, child), q, tables \o TablesIn(child), names \o NamesIn(child),
             IF child.kind = "group_by" THEN child.columns ELSE group)
    BY <2>5, <2>7, ChildIsRead
  <2>9. tt[k + 1] = tables \o TablesIn(child)
    <3>1. tt[k + 1] = tt[k] \o ts[k + 1]
      BY <1>4, <2>1 DEF Iterates
    <3>2. ts[k + 1] = TablesIn(child)
      BY <1>1, <2>1, <2>3
    <3> QED
      BY <3>1, <3>2, <2>6
  <2>10. nn[k + 1] = names \o NamesIn(child)
    <3>1. nn[k + 1] = nn[k] \o ns[k + 1]
      BY <1>5, <2>1 DEF Iterates
    <3>2. ns[k + 1] = NamesIn(child)
      BY <1>2, <2>1, <2>3
    <3> QED
      BY <3>1, <3>2, <2>6
  <2>11. GroupUpTo(cs, k + 1) = IF child.kind = "group_by" THEN child.columns ELSE group
    <3>1. DOMAIN cs \subseteq Nat /\ k + 1 \in DOMAIN cs
      BY <1>0, <2>1
    <3> QED
      BY <2>1, <2>3, <2>6, <3>1, GroupStep
  <2>12. Fit(k + 1)
    BY <2>4, <2>6, <2>8, <2>9, <2>10, <2>11
  <2> HIDE DEF Fit
  <2> QED
    BY <2>1, <2>12
<1>11. n \in S
  <2> HIDE DEF S
  <2>1. \A k \in 0 .. n : k \in S
    BY <1>9, <1>10, Induction
  <2> QED
    BY <2>1
<1>12. f[n] = ReadChildren(s, elem.children)
  BY <1>0, <1>8 DEF ChildRun
<1> QED
  BY <1>6, <1>7, <1>11, <1>12

-----------------------------------------------------------------------------
(* What is read of a document *)

\* The query is the one its element writes down.
Built(q, elem) ==
  \E columns :
    /\ q = QueryOf(elem.id, TablesNamed(elem), columns, ColumnsNamed(elem), GroupNamed(elem))
    /\ ListFits(columns, ColumnsNamed(elem))

\* The queries are those of the first elements, of them all if nothing has gone wrong.
ReadSoFar(s, d, k) ==
  /\ IsSequence(s.queries) /\ Len(s.queries) <= k
  /\ s.status = 0 => Len(s.queries) = k
  /\ \A i \in 1 .. Len(s.queries) :
       s.queries[i].id = d[i].id /\ (WellFormed(d[i]) => Built(s.queries[i], d[i]))

LEMMA QueryIsRead ==
  ASSUME NEW elem \in QueryElem, NEW s, s.status = 0
  PROVE  \E q : /\ ReadQuery(s, elem).queries = Append(s.queries, q)
                /\ q.id = elem.id /\ (WellFormed(elem) => Built(q, elem))
<1>1. PICK start, read :
        /\ start = [query |-> NewQuery(elem.id), table_id |-> s.table_id, status |-> 0]
        /\ read = ReadChildren(start, elem.children)
  OBVIOUS
<1>2. PICK t, id : t = s.table_id /\ id = elem.id
  OBVIOUS
<1>3. start = State(id, << >>, << >>, << >>, << >>, t, 0)
  BY <1>1, <1>2 DEF State, QueryOf, NewQuery
<1>4. ReadQuery(s, elem).queries = Append(s.queries, read.query)
  BY <1>1 DEF ReadQuery
<1>5. read.query.id = elem.id
  <2>1. elem.children \in Seq(ChildElem) /\ Of(start, id)
    BY <1>3 DEF QueryElem, Of
  <2>2. Of(read, id)
    BY <1>1, <2>1, OfChildren
  <2>3. PICK tables, columns, names, group, u, status :
          read = State(id, tables, columns, names, group, u, status)
    BY <2>2 DEF Of
  <2> QED
    BY <1>2, <2>3, StateParts
<1>6. ASSUME WellFormed(elem) PROVE Built(read.query, elem)
  <2>1. Fits(read, id, TablesNamed(elem), ColumnsNamed(elem), GroupNamed(elem))
    BY <1>1, <1>3, <1>6, ChildrenRead
  <2>2. PICK columns, u :
          /\ read = State(id, TablesNamed(elem), columns, ColumnsNamed(elem), GroupNamed(elem), u, 0)
          /\ ListFits(columns, ColumnsNamed(elem))
    BY <2>1 DEF Fits
  <2>3. read.query = QueryOf(id, TablesNamed(elem), columns, ColumnsNamed(elem), GroupNamed(elem))
    BY <2>2, StateParts
  <2> QED
    BY <1>2, <2>2, <2>3 DEF Built
<1> QED
  BY <1>4, <1>5, <1>6

LEMMA DocumentRead ==
  ASSUME NEW d \in Seq(QueryElem)
  PROVE  \E k \in 0 .. Len(d) : ReadSoFar(generate_app_queries(d), d, k)
<1>0. PICK n \in Nat : n = Len(d) /\ \A i \in 1 .. n : d[i] \in QueryElem
  OBVIOUS
<1>1. PICK f : QueryRun(f, d)
  BY <1>0, QueryLoop
<1> DEFINE S == {k \in 0 .. n : ReadSoFar(f[k], d, k)}
<1>2. 0 \in S
  <2>1. f[0] = [queries |-> << >>, table_id |-> NULL, status |-> 0]
    BY <1>1 DEF QueryRun, NoQueries
  <2>2. f[0].queries = << >>
    BY <2>1
  <2> QED
    BY <2>2, EmptySequence DEF ReadSoFar
<1>3. ASSUME NEW k \in 0 .. n - 1, k \in S PROVE k + 1 \in S
  <2>1. k + 1 \in 1 .. n /\ (k + 1) - 1 = k /\ k \in Nat
    OBVIOUS
  <2>2. PICK s, e, elem : s = f[k] /\ elem = d[k + 1] /\ e = f[k + 1]
    OBVIOUS
  <2>3. e = ReadQuery(s, elem) /\ elem \in QueryElem /\ ReadSoFar(s, d, k)
    BY <1>0, <1>1, <1>3, <2>1, <2>2 DEF QueryRun
  <2>4. CASE s.status # 0
    <3>1. e = s
      BY <2>3, <2>4 DEF ReadQuery
    <3>2. PICK l \in Nat : l = Len(s.queries)
      BY <2>3 DEF ReadSoFar, IsSequence
    <3>3. Len(s.queries) <= k + 1
      BY <2>3, <3>2 DEF ReadSoFar
    <3>4. ReadSoFar(e, d, k + 1)
      BY <2>3, <2>4, <3>1, <3>3 DEF ReadSoFar
    <3> QED
      BY <2>1, <2>2, <3>4
  <2>5. CASE s.status = 0
    <3>1. PICK q : /\ ReadQuery(s, elem).queries = Append(s.queries, q)
                   /\ q.id = elem.id /\ (WellFormed(elem) => Built(q, elem))
      BY <2>3, <2>5, QueryIsRead
    <3>2. PICK qs, more : qs = s.queries /\ more = e.queries
      OBVIOUS
    <3>3. IsSequence(qs) /\ Len(qs) = k
      BY <2>3, <2>5, <3>2 DEF ReadSoFar
    <3>4. more = Append(qs, q)
      BY <2>3, <3>1, <3>2
    <3>5. IsSequence(more) /\ Len(more) = k + 1 /\ (\A i \in 1 .. k : more[i] = qs[i]) /\ more[k + 1] = q
      BY <3>3, <3>4, Appended
    <3>6. \A i \in 1 .. k : qs[i].id = d[i].id /\ (WellFormed(d[i]) => Built(qs[i], d[i]))
      BY <2>3, <3>2, <3>3 DEF ReadSoFar
    <3>7. ASSUME NEW i \in 1 .. k + 1
          PROVE  more[i].id = d[i].id /\ (WellFormed(d[i]) => Built(more[i], d[i]))
      <4>1. CASE i = k + 1
        BY <2>2, <3>1, <3>5, <4>1
      <4>2. CASE i # k + 1
        <5>1. i \in 1 .. k
          BY <2>1, <4>2
        <5> QED
          BY <3>5, <3>6, <5>1
      <4> QED
        BY <4>1, <4>2
    <3>8. k + 1 <= k + 1
      OBVIOUS
    <3>9. ReadSoFar(e, d, k + 1)
      BY <3>2, <3>5, <3>7, <3>8 DEF ReadSoFar
    <3> QED
      BY <2>1, <2>2, <3>9
  <2> QED
    BY <2>4, <2>5
<1>4. n \in S
  <2> HIDE DEF S
  <2>1. \A k \in 0 .. n : k \in S
    BY <1>2, <1>3, Induction
  <2> QED
    BY <2>1
<1>5. f[n] = generate_app_queries(d)
  BY <1>0, <1>1 DEF QueryRun
<1> QED
  BY <1>0, <1>4, <1>5

\* A query is found where its element is, of the elements with the id the first.
LEMMA QueryFound ==
  ASSUME NEW d \in Seq(QueryElem), NEW id, FindById(generate_app_queries(d).queries, id) # NULL,
         WellFormed(FindById(d, id))
  PROVE  Built(FindById(generate_app_queries(d).queries, id), FindById(d, id))
<1>1. PICK k \in 0 .. Len(d) : ReadSoFar(generate_app_queries(d), d, k)
  BY DocumentRead
<1>2. PICK qs : qs = generate_app_queries(d).queries
  BY Zenon
<1>3. PICK n \in Nat, m \in Nat :
        n = Len(qs) /\ m = Len(d) /\ n <= m /\ DOMAIN qs = 1 .. n /\ DOMAIN d = 1 .. m
  <2>1. IsSequence(qs) /\ Len(qs) <= k
    BY <1>1, <1>2 DEF ReadSoFar
  <2>2. DOMAIN qs = 1 .. Len(qs) /\ Len(qs) \in Nat
    BY <2>1, SMTT(20) DEF IsSequence
  <2>3. PICK n \in Nat : n = Len(qs)
    BY <2>2
  <2>6. PICK m \in Nat : m = Len(d) /\ DOMAIN d = 1 .. m
    OBVIOUS
  <2>4. n <= k /\ k \in 0 .. m
    BY <2>1, <2>3, <2>6
  <2>5. n <= m
    BY <2>4
  <2> QED
    BY <2>2, <2>3, <2>5, <2>6, Zenon
<1>4. \A i \in 1 .. n : qs[i].id = d[i].id /\ (WellFormed(d[i]) => Built(qs[i], d[i]))
  BY <1>1, <1>2, <1>3 DEF ReadSoFar
<1>5. PICK i : FirstWith(qs, id, i) /\ FindById(qs, id) = qs[i]
  <2>1. DOMAIN qs \subseteq Nat /\ FindById(qs, id) # NULL
    BY <1>2, <1>3
  <2> QED
    BY <2>1, FoundById
<1>6. FirstWith(d, id, i)
  <2>1. i \in 1 .. n /\ i \in DOMAIN d /\ d[i].id = id
    BY <1>3, <1>4, <1>5 DEF FirstWith
  <2>2. ASSUME NEW j \in DOMAIN d, d[j].id = id PROVE i <= j
    <3>1. CASE j \in 1 .. n
      BY <1>3, <1>4, <1>5, <2>2, <3>1 DEF FirstWith
    <3>2. CASE j \notin 1 .. n
      BY <1>3, <2>1, <3>2
    <3> QED
      BY <3>1, <3>2
  <2> QED
    BY <2>1, <2>2 DEF FirstWith
<1>7. FindById(d, id) = d[i]
  BY <1>3, <1>6, OnlyFirst
<1> QED
  BY <1>2, <1>3, <1>4, <1>5, <1>7 DEF FirstWith

-----------------------------------------------------------------------------
(* What is made of the words *)

\* The parameters, by their parts.
Params(where, order_by, limit, offset, reported, falls, aborted) ==
  [where |-> where, order_by |-> order_by, limit |-> limit, offset |-> offset,
   errors |-> reported, falls |-> falls, aborted |-> aborted]

Parameters(p) ==
  \E where, order_by, limit, offset : \E e \in BOOLEAN, f \in BOOLEAN, a \in BOOLEAN :
    /\ p = Params(where, order_by, limit, offset, e, f, a)
    /\ IsSequence(where) /\ IsSequence(order_by)

\* Nothing is reported, nor has the reading ended.
Fine(p) == ~p.errors /\ ~p.falls /\ ~p.aborted

\* A key and a condition as they are said.
KeyOf(elem, key) == [name |-> Name(Meant(elem, key.fname)), desc |-> key.desc]
ConditionOf(elem, pair) == [name |-> Name(Meant(elem, pair.name)), value |-> pair.value]

\* Both search the columns of the same tables.
LEMMA WordsMean ==
  ASSUME NEW q, NEW elem, q.tables = TablesNamed(elem), NEW name
  PROVE  find_column_from_query_by_friendly_name(q, name) = Meant(elem, name)
<1>1. PICK ts, e : ts = TablesNamed(elem) /\ e = [tables |-> ts]
  OBVIOUS
<1>2. e.tables = ts /\ q.tables = ts
  BY <1>1
<1>3. Meant(elem, name) = find_column_from_query_by_friendly_name(e, name)
  BY <1>1 DEF Meant
<1> QED
  BY <1>2, <1>3 DEF find_column_from_query_by_friendly_name

LEMMA KeyIsRead ==
  ASSUME NEW q, NEW elem, q.tables = TablesNamed(elem), NEW key, NEW p, Parameters(p)
  PROVE  /\ Parameters(SortKey(q, p, key))
         /\ Fine(SortKey(q, p, key)) =>
              /\ Fine(p) /\ Meant(elem, key.fname) # NULL
              /\ SortKey(q, p, key).order_by = Append(p.order_by, KeyOf(elem, key))
         /\ SortKey(q, p, key).where = p.where /\ SortKey(q, p, key).limit = p.limit
         /\ SortKey(q, p, key).offset = p.offset
<1>1. PICK where, order_by, limit, offset : \E e \in BOOLEAN, f \in BOOLEAN, a \in BOOLEAN :
        /\ p = Params(where, order_by, limit, offset, e, f, a)
        /\ IsSequence(where) /\ IsSequence(order_by)
  BY DEF Parameters
<1>2. PICK e \in BOOLEAN, f \in BOOLEAN, a \in BOOLEAN :
        p = Params(where, order_by, limit, offset, e, f, a)
  BY <1>1
<1>3. PICK column, n, o : /\ column = Meant(elem, key.fname) /\ n = KeyOf(elem, key)
                          /\ o = Append(order_by, n)
  OBVIOUS
<1>4. find_column_from_query_by_friendly_name(q, key.fname) = column
  BY <1>3, WordsMean
<1>5. CASE column = NULL
  <2>1. SortKey(q, p, key) = Params(where, order_by, limit, offset, TRUE, f, a)
    BY <1>2, <1>4, <1>5 DEF SortKey, Params
  <2>2. Parameters(Params(where, order_by, limit, offset, TRUE, f, a))
    BY <1>1 DEF Parameters
  <2> QED
    BY <1>2, <2>1, <2>2 DEF Fine, Params
<1>6. CASE column # NULL
  <2>1. SortKey(q, p, key) = Params(where, o, limit, offset, e, f, a)
    BY <1>2, <1>3, <1>4, <1>6 DEF SortKey, Params, KeyOf
  <2>2. Parameters(Params(where, o, limit, offset, e, f, a))
    BY <1>1, <1>3, Appended DEF Parameters
  <2> QED
    BY <1>2, <1>3, <1>6, <2>1, <2>2 DEF Fine, Params
<1> QED
  BY <1>5, <1>6

LEMMA ParametersParts ==
  ASSUME NEW p, Parameters(p)
  PROVE  /\ IsSequence(p.where) /\ IsSequence(p.order_by)
         /\ p.errors \in BOOLEAN /\ p.falls \in BOOLEAN /\ p.aborted \in BOOLEAN
  BY DEF Parameters, Params

KeysOf(elem, value) == [j \in 1 .. Len(value.keys) |-> KeyOf(elem, value.keys[j])]

\* What is made of the value of a sort_by.
KeysMean(elem, value, p, new) ==
  /\ Parameters(new)
  /\ Fine(new) => /\ Fine(p) /\ \A j \in 1 .. Len(value.keys) : Meant(elem, value.keys[j].fname) # NULL
                  /\ new.order_by = p.order_by \o KeysOf(elem, value)
  /\ new.where = p.where /\ new.limit = p.limit /\ new.offset = p.offset

LEMMA KeysAreRead ==
  ASSUME NEW q, NEW elem, q.tables = TablesNamed(elem), NEW p, Parameters(p), NEW value \in Values
  PROVE  KeysMean(elem, value, p, SortBy(q, p, value))
<1>0. PICK n \in Nat : n = Len(value.keys)
  <2>1. value.keys \in Seq([fname : STRING, desc : BOOLEAN])
    BY DEF Values
  <2> QED
    BY <2>1
<1>1. PICK f : KeyRun(f, q, p, value)
  BY <1>0, KeyLoop
<1>2. PICK keys : keys = value.keys
  OBVIOUS
<1>3. PICK old : old = p.order_by
  OBVIOUS
<1>4. IsSequence(old)
  BY <1>3, ParametersParts
<1> DEFINE named == [j \in 1 .. n |-> KeyOf(elem, keys[j])]
           upto(k) == old \o [j \in 1 .. k |-> named[j]]
           Done(k) == /\ Parameters(f[k])
                      /\ Fine(f[k]) => /\ Fine(p) /\ \A j \in 1 .. k : Meant(elem, keys[j].fname) # NULL
                                       /\ f[k].order_by = upto(k)
                      /\ f[k].where = p.where /\ f[k].limit = p.limit /\ f[k].offset = p.offset
           S == {k \in 0 .. n : Done(k)}
<1>5. 0 \in S
  <2>1. upto(0) = old
    <3> HIDE DEF named
    <3> QED
      BY <1>4, NoneOf
  <2> HIDE DEF upto
  <2> QED
    BY <1>1, <1>3, <2>1 DEF KeyRun
<1>6. ASSUME NEW k \in 0 .. n - 1, k \in S PROVE k + 1 \in S
  <2>1. k + 1 \in 1 .. n /\ (k + 1) - 1 = k /\ k \in Nat
    OBVIOUS
  <2>2. PICK key, a, b : key = keys[k + 1] /\ a = f[k] /\ b = f[k + 1]
    OBVIOUS
  <2>3. b = SortKey(q, a, key)
    BY <1>0, <1>1, <1>2, <2>1, <2>2 DEF KeyRun
  <2>4. PICK before : before = upto(k)
    OBVIOUS
  <2>5. /\ Parameters(a)
        /\ Fine(a) => /\ Fine(p) /\ \A j \in 1 .. k : Meant(elem, keys[j].fname) # NULL
                      /\ a.order_by = before
        /\ a.where = p.where /\ a.limit = p.limit /\ a.offset = p.offset
    BY <1>6, <2>2, <2>4
  <2>6. /\ Parameters(b)
        /\ Fine(b) => /\ Fine(a) /\ Meant(elem, key.fname) # NULL
                      /\ b.order_by = Append(a.order_by, KeyOf(elem, key))
        /\ b.where = a.where /\ b.limit = a.limit /\ b.offset = a.offset
    BY <2>3, <2>5, KeyIsRead
  <2>7. Append(before, KeyOf(elem, key)) = upto(k + 1)
    <3>1. named[k + 1] = KeyOf(elem, key)
      BY <2>1, <2>2
    <3> HIDE DEF named
    <3>2. Append(old \o [j \in 1 .. k |-> named[j]], named[k + 1]) = old \o [j \in 1 .. k + 1 |-> named[j]]
      BY <1>4, <2>1, OneMoreOf
    <3> QED
      BY <2>4, <3>1, <3>2
  <2>8. ASSUME Fine(b) PROVE \A j \in 1 .. k + 1 : Meant(elem, keys[j].fname) # NULL
    <3>1. \A j \in 1 .. k + 1 : j = k + 1 \/ j \in 1 .. k
      BY <2>1
    <3> QED
      BY <2>2, <2>5, <2>6, <2>8, <3>1
  <2>9. Done(k + 1)
    <3> HIDE DEF upto
    <3> QED
      BY <2>2, <2>5, <2>6, <2>7, <2>8
  <2> HIDE DEF Done
  <2> QED
    BY <2>1, <2>9
<1>7. n \in S
  <2> HIDE DEF S
  <2>1. \A k \in 0 .. n : k \in S
    BY <1>5, <1>6, Induction
  <2> QED
    BY <2>1
<1>8. f[n] = SortBy(q, p, value)
  BY <1>0, <1>1 DEF KeyRun
<1>9. upto(n) = old \o KeysOf(elem, value)
  BY <1>0, <1>2 DEF KeysOf
<1> HIDE DEF upto
<1> QED
  BY <1>0, <1>2, <1>3, <1>7, <1>8, <1>9 DEF KeysMean

\* A word makes a condition or sets a clause, or nothing is fine any more.
PairMeans(elem, pair, p, new) ==
  /\ Meant(elem, pair.name) # NULL \/ pair.name \in {"limit", "offset", "sort_by"}
  /\ Range(new.where) = Range(p.where) \cup
       (IF Meant(elem, pair.name) # NULL THEN {ConditionOf(elem, pair)} ELSE {})
  /\ new.order_by = p.order_by \o KeysIn(elem, pair)
  /\ IsClause(elem, pair, "sort_by") =>
       \A j \in DOMAIN pair.value.keys : Meant(elem, pair.value.keys[j].fname) # NULL
  /\ new.limit = IF IsClause(elem, pair, "limit") THEN pair.value ELSE p.limit
  /\ new.offset = IF IsClause(elem, pair, "offset") THEN pair.value ELSE p.offset

LEMMA RangeAppended ==
  ASSUME NEW s, IsSequence(s), NEW e
  PROVE  Range(Append(s, e)) = Range(s) \cup {e}
<1>1. PICK n \in Nat : n = Len(s) /\ DOMAIN s = 1 .. n
  BY DEF IsSequence
<1>2. PICK a : a = Append(s, e)
  OBVIOUS
<1>3. /\ IsSequence(a) /\ Len(a) = n + 1 /\ \A i \in 1 .. n : a[i] = s[i]
      /\ a[n + 1] = e
  BY <1>1, <1>2, Appended
<1>4. DOMAIN a = 1 .. n + 1
  BY <1>3 DEF IsSequence
<1>5. \A i \in 1 .. n + 1 : a[i] \in Range(s) \cup {e}
  BY <1>1, <1>3 DEF Range
<1>6. Range(s) \subseteq Range(a)
  BY <1>1, <1>3, <1>4 DEF Range
<1>7. e \in Range(a)
  <2>1. n + 1 \in 1 .. n + 1
    OBVIOUS
  <2> QED
    BY <1>3, <1>4, <2>1 DEF Range
<1> QED
  BY <1>2, <1>4, <1>5, <1>6, <1>7 DEF Range

LEMMA NotFine ==
  ASSUME NEW p, Parameters(p), NEW new,
         \/ new = [p EXCEPT !.errors = TRUE] \/ new = [p EXCEPT !.falls = TRUE]
         \/ new = [p EXCEPT !.aborted = TRUE]
  PROVE  Parameters(new) /\ ~Fine(new)
<1>1. PICK where, order_by, limit, offset : \E e \in BOOLEAN, f \in BOOLEAN, a \in BOOLEAN :
        /\ p = Params(where, order_by, limit, offset, e, f, a)
        /\ IsSequence(where) /\ IsSequence(order_by)
  BY DEF Parameters
<1>2. PICK e \in BOOLEAN, f \in BOOLEAN, a \in BOOLEAN :
        p = Params(where, order_by, limit, offset, e, f, a)
  BY <1>1
<1>3. CASE new = [p EXCEPT !.errors = TRUE]
  <2>1. new = Params(where, order_by, limit, offset, TRUE, f, a)
    BY <1>2, <1>3 DEF Params
  <2>2. Parameters(Params(where, order_by, limit, offset, TRUE, f, a))
    BY <1>1 DEF Parameters
  <2> QED
    BY <2>1, <2>2 DEF Fine, Params
<1>4. CASE new = [p EXCEPT !.falls = TRUE]
  <2>1. new = Params(where, order_by, limit, offset, e, TRUE, a)
    BY <1>2, <1>4 DEF Params
  <2>2. Parameters(Params(where, order_by, limit, offset, e, TRUE, a))
    BY <1>1 DEF Parameters
  <2> QED
    BY <2>1, <2>2 DEF Fine, Params
<1>5. CASE new = [p EXCEPT !.aborted = TRUE]
  <2>1. new = Params(where, order_by, limit, offset, e, f, TRUE)
    BY <1>2, <1>5 DEF Params
  <2>2. Parameters(Params(where, order_by, limit, offset, e, f, TRUE))
    BY <1>1 DEF Parameters
  <2> QED
    BY <2>1, <2>2 DEF Fine, Params
<1> QED
  BY <1>3, <1>4, <1>5

\* A field is set; the others stay.
LEMMA LimitIsSet ==
  ASSUME NEW p, Parameters(p), NEW v, NEW new, new = [p EXCEPT !.limit = v]
  PROVE  /\ Parameters(new)
         /\ new.limit = v /\ new.where = p.where /\ new.order_by = p.order_by /\ new.offset = p.offset
         /\ Fine(new) => Fine(p)
<1>1. PICK where, order_by, limit, offset : \E e \in BOOLEAN, f \in BOOLEAN, a \in BOOLEAN :
        /\ p = Params(where, order_by, limit, offset, e, f, a)
        /\ IsSequence(where) /\ IsSequence(order_by)
  BY DEF Parameters
<1>2. PICK e \in BOOLEAN, f \in BOOLEAN, a \in BOOLEAN :
        p = Params(where, order_by, limit, offset, e, f, a)
  BY <1>1
<1>3. new = Params(where, order_by, v, offset, e, f, a)
  BY <1>2 DEF Params
<1>4. Parameters(Params(where, order_by, v, offset, e, f, a))
  BY <1>1 DEF Parameters
<1> QED
  BY <1>2, <1>3, <1>4 DEF Params, Fine

LEMMA OffsetIsSet ==
  ASSUME NEW p, Parameters(p), NEW v, NEW new, new = [p EXCEPT !.offset = v]
  PROVE  /\ Parameters(new)
         /\ new.offset = v /\ new.where = p.where /\ new.order_by = p.order_by /\ new.limit = p.limit
         /\ Fine(new) => Fine(p)
<1>1. PICK where, order_by, limit, offset : \E e \in BOOLEAN, f \in BOOLEAN, a \in BOOLEAN :
        /\ p = Params(where, order_by, limit, offset, e, f, a)
        /\ IsSequence(where) /\ IsSequence(order_by)
  BY DEF Parameters
<1>2. PICK e \in BOOLEAN, f \in BOOLEAN, a \in BOOLEAN :
        p = Params(where, order_by, limit, offset, e, f, a)
  BY <1>1
<1>3. new = Params(where, order_by, limit, v, e, f, a)
  BY <1>2 DEF Params
<1>4. Parameters(Params(where, order_by, limit, v, e, f, a))
  BY <1>1 DEF Parameters
<1> QED
  BY <1>2, <1>3, <1>4 DEF Params, Fine

LEMMA WhereIsSet ==
  ASSUME NEW p, Parameters(p), NEW v, IsSequence(v), NEW new, new = [p EXCEPT !.where = v]
  PROVE  /\ Parameters(new)
         /\ new.where = v /\ new.order_by = p.order_by /\ new.limit = p.limit /\ new.offset = p.offset
         /\ Fine(new) => Fine(p)
<1>1. PICK where, order_by, limit, offset : \E e \in BOOLEAN, f \in BOOLEAN, a \in BOOLEAN :
        /\ p = Params(where, order_by, limit, offset, e, f, a)
        /\ IsSequence(where) /\ IsSequence(order_by)
  BY DEF Parameters
<1>2. PICK e \in BOOLEAN, f \in BOOLEAN, a \in BOOLEAN :
        p = Params(where, order_by, limit, offset, e, f, a)
  BY <1>1
<1>3. new = Params(v, order_by, limit, offset, e, f, a)
  BY <1>2 DEF Params
<1>4. Parameters(Params(v, order_by, limit, offset, e, f, a))
  BY <1>1 DEF Parameters
<1> QED
  BY <1>2, <1>3, <1>4 DEF Params, Fine

LEMMA ConditionIsAdded ==
  ASSUME NEW elem, NEW pair, NEW p, Parameters(p), NEW column,
         column = Meant(elem, pair.name), column # NULL,
         NEW new, new = db_query_parameter_add_where(p, column, pair.value)
  PROVE  /\ Parameters(new)
         /\ Fine(new) => Fine(p) /\ PairMeans(elem, pair, p, new)
<1>1. PICK c, w : c = ConditionOf(elem, pair) /\ w = Append(p.where, c)
  OBVIOUS
<1>2. \/ new = [p EXCEPT !.errors = TRUE] \/ new = [p EXCEPT !.falls = TRUE]
      \/ new = [p EXCEPT !.where = w]
  BY <1>1 DEF db_query_parameter_add_where, ConditionOf
<1>3. CASE new = [p EXCEPT !.errors = TRUE] \/ new = [p EXCEPT !.falls = TRUE]
  BY <1>3, NotFine
<1>4. CASE new = [p EXCEPT !.where = w]
  <2>1. IsSequence(w) /\ Range(w) = Range(p.where) \cup {c} /\ IsSequence(p.order_by)
    BY <1>1, ParametersParts, Appended, RangeAppended
  <2>2. Parameters(new)
    BY <1>4, <2>1, WhereIsSet
  <2>3. ~IsClause(elem, pair, "sort_by") /\ ~IsClause(elem, pair, "limit") /\ ~IsClause(elem, pair, "offset")
    BY DEF IsClause
  <2>4. p.order_by \o KeysIn(elem, pair) = p.order_by
    BY <2>1, <2>3, JoinedNone DEF KeysIn
  <2>5. /\ new.limit = p.limit /\ new.offset = p.offset /\ new.where = w
        /\ new.order_by = p.order_by /\ (Fine(new) => Fine(p))
    BY <1>4, <2>1, WhereIsSet
  <2> QED
    BY <1>1, <2>1, <2>2, <2>3, <2>4, <2>5 DEF PairMeans
<1> QED
  BY <1>2, <1>3, <1>4

LEMMA PairIsRead ==
  ASSUME NEW q, NEW elem, q.tables = TablesNamed(elem), NEW p, Parameters(p),
         NEW pair, pair.value \in Values, NEW new, new = ReadPair(q, p, pair)
  PROVE  /\ Parameters(new)
         /\ Fine(new) => Fine(p) /\ PairMeans(elem, pair, p, new)
<1>1. PICK column : column = Meant(elem, pair.name)
  OBVIOUS
<1>2. find_column_from_query_by_friendly_name(q, pair.name) = column
  BY <1>1, WordsMean
<1>3. CASE p.falls \/ p.aborted
  <2>1. new = p
    BY <1>3 DEF ReadPair
  <2> QED
    BY <1>3, <2>1 DEF Fine
<1>4. CASE ~(p.falls \/ p.aborted) /\ column # NULL
  <2>1. new = db_query_parameter_add_where(p, column, pair.value)
    BY <1>2, <1>4 DEF ReadPair
  <2> QED
    BY <1>1, <1>4, <2>1, ConditionIsAdded
<1>5. CASE ~(p.falls \/ p.aborted) /\ column = NULL
  <2>0. IsSequence(p.order_by)
    BY ParametersParts
  <2>1. CASE pair.name = "limit"
    <3> PICK v : v = pair.value
      OBVIOUS
    <3>1. new = [p EXCEPT !.limit = v]
      BY <1>2, <1>5, <2>1 DEF ReadPair
    <3>2. IsClause(elem, pair, "limit") /\ ~IsClause(elem, pair, "offset") /\ ~IsClause(elem, pair, "sort_by")
      BY <1>1, <1>5, <2>1 DEF IsClause
    <3>3. p.order_by \o KeysIn(elem, pair) = p.order_by
      BY <2>0, <3>2, JoinedNone DEF KeysIn
    <3>4. Parameters(new)
      BY <3>1, LimitIsSet
    <3>5. /\ new.limit = pair.value /\ new.offset = p.offset /\ new.where = p.where
          /\ new.order_by = p.order_by /\ (Fine(new) => Fine(p))
      BY <3>1, LimitIsSet
    <3> QED
      BY <1>1, <1>5, <2>1, <3>2, <3>3, <3>4, <3>5 DEF PairMeans
  <2>2. CASE pair.name = "offset"
    <3> PICK v : v = pair.value
      OBVIOUS
    <3>1. new = [p EXCEPT !.offset = v]
      BY <1>2, <1>5, <2>2 DEF ReadPair
    <3>2. IsClause(elem, pair, "offset") /\ ~IsClause(elem, pair, "limit") /\ ~IsClause(elem, pair, "sort_by")
      BY <1>1, <1>5, <2>2 DEF IsClause
    <3>3. p.order_by \o KeysIn(elem, pair) = p.order_by
      BY <2>0, <3>2, JoinedNone DEF KeysIn
    <3>4. Parameters(new)
      BY <3>1, OffsetIsSet
    <3>5. /\ new.limit = p.limit /\ new.offset = pair.value /\ new.where = p.where
          /\ new.order_by = p.order_by /\ (Fine(new) => Fine(p))
      BY <3>1, OffsetIsSet
    <3> QED
      BY <1>1, <1>5, <2>2, <3>2, <3>3, <3>4, <3>5 DEF PairMeans
  <2>3. CASE pair.name = "sort_by"
    <3>1. new = SortBy(q, p, pair.value)
      BY <1>2, <1>5, <2>3 DEF ReadPair
    <3>2. IsClause(elem, pair, "sort_by") /\ ~IsClause(elem, pair, "limit") /\ ~IsClause(elem, pair, "offset")
      BY <1>1, <1>5, <2>3 DEF IsClause
    <3> PICK value : value = pair.value
      OBVIOUS
    <3>3. PICK n \in Nat : n = Len(value.keys) /\ DOMAIN value.keys = 1 .. n
      <4>1. value.keys \in Seq([fname : STRING, desc : BOOLEAN])
        BY DEF Values
      <4> QED
        BY <4>1
    <3>4. PICK keys : keys = KeysOf(elem, value)
      OBVIOUS
    <3>5. keys = KeysIn(elem, pair)
      BY <3>2, <3>3, <3>4 DEF KeysIn, KeyOf, KeysOf
    <3>6. /\ Parameters(new)
          /\ Fine(new) => /\ Fine(p) /\ \A j \in 1 .. Len(value.keys) : Meant(elem, value.keys[j].fname) # NULL
                          /\ new.order_by = p.order_by \o keys
          /\ new.where = p.where /\ new.limit = p.limit /\ new.offset = p.offset
      <4>1. value \in Values /\ new = SortBy(q, p, value)
        BY <3>1
      <4>2. KeysMean(elem, value, p, SortBy(q, p, value))
        BY <4>1, KeysAreRead
      <4> QED
        BY <3>4, <4>1, <4>2 DEF KeysMean
    <3> QED
      BY <1>1, <1>5, <2>3, <3>2, <3>3, <3>5, <3>6 DEF PairMeans
  <2>4. CASE pair.name \notin {"limit", "offset", "sort_by"}
    <3>1. new = [p EXCEPT !.aborted = TRUE]
      BY <1>2, <1>5, <2>4 DEF ReadPair
    <3> QED
      BY <3>1, NotFine
  <2> QED
    BY <2>1, <2>2, <2>3, <2>4
<1> QED
  BY <1>3, <1>4, <1>5

\* The value of the last of the first k words that set a clause.
LastUpTo(elem, pairs, name, k) ==
  LET places == {i \in DOMAIN pairs : IsClause(elem, pairs[i], name)} \cap (1 .. k)
  IN IF places = {} THEN NULL ELSE pairs[Max(places)].value

LEMMA LastStep ==
  ASSUME NEW elem, NEW pairs, DOMAIN pairs \subseteq Nat, NEW name, NEW k \in Nat, k + 1 \in DOMAIN pairs
  PROVE  LastUpTo(elem, pairs, name, k + 1)
         = IF IsClause(elem, pairs[k + 1], name) THEN pairs[k + 1].value
           ELSE LastUpTo(elem, pairs, name, k)
<1> DEFINE P == {i \in DOMAIN pairs : IsClause(elem, pairs[i], name)}
<1>1. P \subseteq Nat /\ (k + 1 \in P <=> IsClause(elem, pairs[k + 1], name))
  OBVIOUS
<1>2. /\ k + 1 \in P => P \cap (1 .. k + 1) # {} /\ Max(P \cap (1 .. k + 1)) = k + 1
      /\ k + 1 \notin P => P \cap (1 .. k + 1) = P \cap (1 .. k)
  <2> HIDE DEF P
  <2> QED
    BY <1>1, LastPlace
<1>3. /\ LastUpTo(elem, pairs, name, k)
         = IF P \cap (1 .. k) = {} THEN NULL ELSE pairs[Max(P \cap (1 .. k))].value
      /\ LastUpTo(elem, pairs, name, k + 1)
         = IF P \cap (1 .. k + 1) = {} THEN NULL ELSE pairs[Max(P \cap (1 .. k + 1))].value
  BY DEF LastUpTo
<1> HIDE DEF P
<1> QED
  BY <1>1, <1>2, <1>3

LEMMA LastOfAll ==
  ASSUME NEW elem, NEW pairs, NEW n, DOMAIN pairs = 1 .. n, NEW name
  PROVE  LastSaid(elem, pairs, name) = LastUpTo(elem, pairs, name, n)
<1>1. {i \in DOMAIN pairs : IsClause(elem, pairs[i], name)} \cap (1 .. n)
      = {i \in DOMAIN pairs : IsClause(elem, pairs[i], name)}
  OBVIOUS
<1> QED
  BY <1>1 DEF LastSaid, LastUpTo

\* The conditions of the first k words.
ConditionsUpTo(elem, pairs, k) ==
  {ConditionOf(elem, pairs[i]) : i \in {i \in 1 .. k : Meant(elem, pairs[i].name) # NULL}}

LEMMA ConditionsStep ==
  ASSUME NEW elem, NEW pairs, NEW k \in Nat
  PROVE  ConditionsUpTo(elem, pairs, k + 1) = ConditionsUpTo(elem, pairs, k) \cup
           (IF Meant(elem, pairs[k + 1].name) # NULL THEN {ConditionOf(elem, pairs[k + 1])} ELSE {})
<1>1. \A i : i \in 1 .. k + 1 <=> i \in 1 .. k \/ i = k + 1
  OBVIOUS
<1>2. ASSUME NEW c
      PROVE  c \in ConditionsUpTo(elem, pairs, k + 1) <=>
             \E i \in 1 .. k + 1 : Meant(elem, pairs[i].name) # NULL /\ c = ConditionOf(elem, pairs[i])
  BY DEF ConditionsUpTo
<1>3. ASSUME NEW c
      PROVE  c \in ConditionsUpTo(elem, pairs, k) <=>
             \E i \in 1 .. k : Meant(elem, pairs[i].name) # NULL /\ c = ConditionOf(elem, pairs[i])
  BY DEF ConditionsUpTo
<1>4. ASSUME NEW c
      PROVE  c \in ConditionsUpTo(elem, pairs, k + 1) <=>
             c \in ConditionsUpTo(elem, pairs, k) \/ (Meant(elem, pairs[k + 1].name) # NULL /\ c = ConditionOf(elem, pairs[k + 1]))
  BY <1>1, <1>2, <1>3, Zenon
<1> QED
  BY <1>4

\* What the words have said, if nothing is reported.
WordIsThere(elem, pair) ==
  /\ Meant(elem, pair.name) # NULL \/ pair.name \in {"limit", "offset", "sort_by"}
  /\ IsClause(elem, pair, "sort_by") =>
       \A j \in DOMAIN pair.value.keys : Meant(elem, pair.value.keys[j].fname) # NULL

Said(elem, pairs, p) ==
  /\ Range(p.where) = ConditionsSaid(elem, pairs)
  /\ p.order_by = KeysSaid(elem, pairs)
  /\ p.limit = LastSaid(elem, pairs, "limit") /\ p.offset = LastSaid(elem, pairs, "offset")
  /\ \A i \in DOMAIN pairs : WordIsThere(elem, pairs[i])

LEMMA KeysAreSequence ==
  ASSUME NEW elem, NEW pair, pair.value \in Values
  PROVE  IsSequence(KeysIn(elem, pair))
<1>1. CASE IsClause(elem, pair, "sort_by")
  <2>1. pair.value.keys \in Seq([fname : STRING, desc : BOOLEAN])
    BY DEF Values
  <2>2. PICK n \in Nat : n = Len(pair.value.keys) /\ DOMAIN pair.value.keys = 1 .. n
    BY <2>1
  <2>3. KeysIn(elem, pair) = [j \in 1 .. n |-> KeysIn(elem, pair)[j]]
    BY <1>1, <2>2 DEF KeysIn
  <2> QED
    BY <2>3, SequenceOn
<1>2. CASE ~IsClause(elem, pair, "sort_by")
  BY <1>2, EmptySequence DEF KeysIn
<1> QED
  BY <1>1, <1>2

LEMMA WordsAreRead ==
  ASSUME NEW q, NEW elem, q.tables = TablesNamed(elem),
         NEW pairs \in Seq([name : STRING, value : Values]),
         NEW p, p = ReadPairs(q, pairs)
  PROVE  /\ Parameters(p)
         /\ Fine(p) => Said(elem, pairs, p)
<1>0. PICK n \in Nat : n = Len(pairs) /\ DOMAIN pairs = 1 .. n /\ \A i \in 1 .. n : pairs[i].value \in Values
  <2>1. PICK n \in Nat : n = Len(pairs) /\ DOMAIN pairs = 1 .. n
    OBVIOUS
  <2>2. ASSUME NEW i \in 1 .. n PROVE pairs[i].value \in Values
    <3>1. PICK T : T = [name : STRING, value : Values]
      OBVIOUS
    <3>2. pairs[i] \in T
      <4>1. pairs \in Seq(T) /\ i \in 1 .. Len(pairs)
        BY <2>1, <3>1
      <4> QED
        BY <4>1
    <3> QED
      BY <3>1, <3>2
  <2> QED
    BY <2>1, <2>2
<1>1. PICK f : PairRun(f, q, pairs)
  BY <1>0, PairLoop
<1>2. PICK ks : ks = [i \in 1 .. n |-> KeysIn(elem, pairs[i])]
  OBVIOUS
<1>3. IsSequence(ks) /\ Len(ks) = n /\ \A i \in 1 .. n : IsSequence(ks[i])
  <2>1. ks = [i \in 1 .. n |-> ks[i]]
    BY <1>2
  <2> QED
    BY <1>0, <1>2, <2>1, SequenceOn, KeysAreSequence
<1>4. PICK oo : Iterates(oo, n, ks)
  BY <1>3, Flattened
<1> DEFINE SaidSo(k, s) ==
             /\ Range(s.where) = ConditionsUpTo(elem, pairs, k)
             /\ s.order_by = oo[k]
             /\ s.limit = LastUpTo(elem, pairs, "limit", k) /\ s.offset = LastUpTo(elem, pairs, "offset", k)
             /\ \A i \in 1 .. k : WordIsThere(elem, pairs[i])
           Done(k, s) == Parameters(s) /\ (Fine(s) => SaidSo(k, s))
           S == {k \in 0 .. n : Done(k, f[k])}
<1>5. 0 \in S
  <2>1. f[0] = Params(<< >>, << >>, NULL, NULL, FALSE, FALSE, FALSE)
    BY <1>1 DEF PairRun, db_query_parameters_init, Params
  <2>2. PICK s : s = f[0]
    OBVIOUS
  <2>3. Parameters(s)
    BY <2>1, <2>2, EmptySequence DEF Parameters
  <2>4. /\ s.where = << >> /\ s.order_by = << >> /\ s.limit = NULL /\ s.offset = NULL
    BY <2>1, <2>2 DEF Params
  <2>5. Range(<< >>) = {}
    BY DEF Range
  <2>6. ConditionsUpTo(elem, pairs, 0) = {}
    BY DEF ConditionsUpTo
  <2>7. LastUpTo(elem, pairs, "limit", 0) = NULL /\ LastUpTo(elem, pairs, "offset", 0) = NULL
    BY DEF LastUpTo
  <2>8. SaidSo(0, s)
    <3>1. Range(s.where) = ConditionsUpTo(elem, pairs, 0)
      BY <2>4, <2>5, <2>6
    <3>2. s.order_by = oo[0]
      BY <1>4, <2>4 DEF Iterates
    <3>3. \A i \in 1 .. 0 : WordIsThere(elem, pairs[i])
      OBVIOUS
    <3> QED
      BY <2>4, <2>7, <3>1, <3>2, <3>3
  <2>9. Done(0, s)
    <3> HIDE DEF SaidSo
    <3> QED
      BY <2>3, <2>8
  <2> HIDE DEF Done
  <2> QED
    BY <2>2, <2>9
<1>6. ASSUME NEW k \in 0 .. n - 1, k \in S PROVE k + 1 \in S
  <2>1. k + 1 \in 1 .. n /\ (k + 1) - 1 = k /\ k \in Nat
    OBVIOUS
  <2>2. PICK pair, a, b : pair = pairs[k + 1] /\ a = f[k] /\ b = f[k + 1]
    OBVIOUS
  <2>3. b = ReadPair(q, a, pair) /\ pair.value \in Values
    BY <1>0, <1>1, <2>1, <2>2 DEF PairRun
  <2>4. Parameters(a) /\ (Fine(a) => SaidSo(k, a))
    BY <1>6, <2>2
  <2>5. Parameters(b) /\ (Fine(b) => Fine(a) /\ PairMeans(elem, pair, a, b))
    BY <2>3, <2>4, PairIsRead
  <2>6. ASSUME Fine(b) PROVE SaidSo(k + 1, b)
    <3>1. SaidSo(k, a) /\ PairMeans(elem, pair, a, b)
      BY <2>4, <2>5, <2>6
    <3>2. Range(b.where) = ConditionsUpTo(elem, pairs, k + 1)
      <4>1. Range(b.where) = Range(a.where) \cup
              (IF Meant(elem, pair.name) # NULL THEN {ConditionOf(elem, pair)} ELSE {})
        BY <3>1 DEF PairMeans
      <4>2. Range(a.where) = ConditionsUpTo(elem, pairs, k)
        BY <3>1
      <4>3. ConditionsUpTo(elem, pairs, k + 1) = ConditionsUpTo(elem, pairs, k) \cup
              (IF Meant(elem, pair.name) # NULL THEN {ConditionOf(elem, pair)} ELSE {})
        <5>1. ConditionsUpTo(elem, pairs, k + 1) = ConditionsUpTo(elem, pairs, k) \cup
                (IF Meant(elem, pairs[k + 1].name) # NULL THEN {ConditionOf(elem, pairs[k + 1])} ELSE {})
          BY <2>1, ConditionsStep
        <5> QED
          BY <2>2, <5>1
      <4> QED
        BY <4>1, <4>2, <4>3
    <3>3. b.order_by = oo[k + 1]
      <4>1. oo[k + 1] = oo[k] \o ks[k + 1]
        BY <1>4, <2>1 DEF Iterates
      <4>2. ks[k + 1] = KeysIn(elem, pair)
        BY <1>2, <2>1, <2>2
      <4>3. b.order_by = a.order_by \o KeysIn(elem, pair) /\ a.order_by = oo[k]
        BY <3>1 DEF PairMeans
      <4> QED
        BY <4>1, <4>2, <4>3
    <3>4. /\ b.limit = LastUpTo(elem, pairs, "limit", k + 1)
          /\ b.offset = LastUpTo(elem, pairs, "offset", k + 1)
      <4>1. DOMAIN pairs \subseteq Nat /\ k + 1 \in DOMAIN pairs
        BY <1>0, <2>1
      <4>2. /\ b.limit = IF IsClause(elem, pair, "limit") THEN pair.value ELSE a.limit
            /\ b.offset = IF IsClause(elem, pair, "offset") THEN pair.value ELSE a.offset
            /\ a.limit = LastUpTo(elem, pairs, "limit", k) /\ a.offset = LastUpTo(elem, pairs, "offset", k)
        BY <3>1 DEF PairMeans
      <4> QED
        BY <2>1, <2>2, <4>1, <4>2, LastStep
    <3>5. ASSUME NEW i \in 1 .. k + 1 PROVE WordIsThere(elem, pairs[i])
      <4>1. CASE i = k + 1
        BY <2>2, <3>1, <4>1 DEF PairMeans, WordIsThere
      <4>2. CASE i # k + 1
        <5>1. i \in 1 .. k
          BY <2>1, <4>2
        <5> QED
          BY <3>1, <5>1
      <4> QED
        BY <4>1, <4>2
    <3> QED
      BY <3>2, <3>3, <3>4, <3>5
  <2> HIDE DEF SaidSo
  <2>7. Done(k + 1, b)
    BY <2>5, <2>6
  <2> HIDE DEF Done
  <2> QED
    BY <2>1, <2>2, <2>7
<1>7. n \in S
  <2> HIDE DEF S
  <2>1. \A k \in 0 .. n : k \in S
    BY <1>5, <1>6, Induction
  <2> QED
    BY <2>1
<1>8. f[n] = p
  BY <1>0, <1>1 DEF PairRun
<1>9. Done(n, p)
  <2> HIDE DEF Done
  <2> QED
    BY <1>7, <1>8
<1>10. KeysSaid(elem, pairs) = oo[n]
  BY <1>0, <1>2, <1>4 DEF KeysSaid, Iterates
<1>11. ConditionsSaid(elem, pairs) = ConditionsUpTo(elem, pairs, n)
  BY <1>0 DEF ConditionsSaid, ConditionsUpTo, ConditionOf
<1>12. /\ LastSaid(elem, pairs, "limit") = LastUpTo(elem, pairs, "limit", n)
       /\ LastSaid(elem, pairs, "offset") = LastUpTo(elem, pairs, "offset", n)
  BY <1>0, LastOfAll
<1>13. ASSUME Fine(p) PROVE Said(elem, pairs, p)
  <2>1. SaidSo(n, p)
    BY <1>9, <1>13
  <2> QED
    BY <1>0, <1>10, <1>11, <1>12, <2>1 DEF Said
<1> QED
  BY <1>9, <1>13

-----------------------------------------------------------------------------
(* The statement and its rows *)

LEMMA PageOfAll ==
  ASSUME NEW from, NEW conditions, NEW group, NEW keys, NEW limit, NEW offset, NEW other,
         other = IF limit = NULL THEN NULL ELSE offset
  PROVE  RowsOf(from, conditions, group, keys, limit, other)
         = RowsOf(from, conditions, group, keys, limit, offset)
<1>1. CASE limit = NULL
  BY <1>1 DEF RowsOf, Paged
<1>2. CASE limit # NULL
  BY <1>2
<1> QED
  BY <1>1, <1>2

\* The cells of the columns that the query names, in the rows asked for.
CellsAsked(elem, pairs) ==
  LET rows == RowsAsked(elem, pairs)
      names == ColumnsNamed(elem)
  IN [i \in DOMAIN rows |-> [j \in DOMAIN names |-> Cell(rows[i], names[j])]]

LEMMA StatementFits ==
  ASSUME NEW q, NEW elem, Built(q, elem), NEW pairs, NEW p, Said(elem, pairs, p),
         NEW stmt, stmt = db_query_generate_sql_statement(q, p), Valid(stmt)
  PROVE  /\ Sensible(elem, pairs)
         /\ Execute(stmt) = CellsAsked(elem, pairs)
<1>1. PICK tables, names, group, limit, offset :
        /\ tables = TablesNamed(elem) /\ names = ColumnsNamed(elem) /\ group = GroupNamed(elem)
        /\ limit = LastSaid(elem, pairs, "limit") /\ offset = LastSaid(elem, pairs, "offset")
  OBVIOUS
<1>2. q.tables = tables /\ q.select_columns_string = names /\ q.group_by = group
  BY <1>1 DEF Built, QueryOf
<1>3. /\ Range(p.where) = ConditionsSaid(elem, pairs) /\ p.order_by = KeysSaid(elem, pairs)
      /\ p.limit = limit /\ p.offset = offset
      /\ \A i \in DOMAIN pairs : WordIsThere(elem, pairs[i])
  BY <1>1 DEF Said
<1>4. /\ stmt.select = names /\ stmt.from = tables /\ stmt.group_by = group
      /\ stmt.where = p.where /\ stmt.order_by = p.order_by /\ stmt.limit = limit
      /\ stmt.offset = IF limit = NULL THEN NULL ELSE offset
  BY <1>2, <1>3 DEF db_query_generate_sql_statement
<1>5. Sensible(elem, pairs)
  <2>1. Joinable(tables)
    BY <1>4 DEF Valid
  <2>2. \A c \in ConditionsSaid(elem, pairs) : c.value.sort = "number"
    BY <1>3, <1>4 DEF Valid
  <2>3. limit # NULL => IF limit.sort = "pair" THEN offset = NULL
                        ELSE \A v \in {limit, offset} : v # NULL => v.sort = "number"
    BY <1>4 DEF Valid, PageIsValid
  <2> QED
    BY <1>1, <1>3, <2>1, <2>2, <2>3 DEF Sensible, WordIsThere
<1>6. PICK rows : rows = RowsAsked(elem, pairs)
  OBVIOUS
<1>7. RowsOf(stmt.from, Range(stmt.where), stmt.group_by, stmt.order_by, stmt.limit, stmt.offset) = rows
  <2>1. PICK conditions, keys, other :
          /\ conditions = ConditionsSaid(elem, pairs) /\ keys = KeysSaid(elem, pairs)
          /\ other = IF limit = NULL THEN NULL ELSE offset
    OBVIOUS
  <2>2. RowsOf(tables, conditions, group, keys, limit, other)
        = RowsOf(tables, conditions, group, keys, limit, offset)
    BY <2>1, PageOfAll
  <2>3. rows = RowsOf(tables, conditions, group, keys, limit, offset)
    BY <1>1, <1>6, <2>1 DEF RowsAsked
  <2>4. /\ stmt.from = tables /\ Range(stmt.where) = conditions /\ stmt.group_by = group
        /\ stmt.order_by = keys /\ stmt.limit = limit /\ stmt.offset = other
    BY <1>3, <1>4, <2>1
  <2> QED
    BY <2>2, <2>3, <2>4
<1>8. Execute(stmt) = CellsAsked(elem, pairs)
  BY <1>1, <1>4, <1>6, <1>7 DEF Execute, CellsAsked
<1> QED
  BY <1>5, <1>8

\* The values under the names of their columns.
LEMMA ListIsShown ==
  ASSUME NEW columns, NEW names, ListFits(columns, names), NEW rows, NEW cells,
         cells = [i \in DOMAIN rows |-> [j \in DOMAIN names |-> Cell(rows[i], names[j])]]
  PROVE  [j \in DOMAIN cells |-> [i \in DOMAIN columns |->
            [label |-> columns[i].fname, value |-> cells[j][i]]]]
         = [j \in DOMAIN rows |-> [i \in DOMAIN names |->
             [label |-> Label(names[i]), value |-> Cell(rows[j], names[i])]]]
<1>1. PICK n \in Nat : n = Len(names) /\ DOMAIN names = 1 .. n /\ DOMAIN columns = 1 .. n
  BY DEF ListFits, IsSequence
<1>2. \A i \in 1 .. n : columns[i].fname = Label(names[i])
  BY <1>1 DEF ListFits, Stands
<1>3. DOMAIN cells = DOMAIN rows
  OBVIOUS
<1>4. \A j \in DOMAIN rows : \A i \in 1 .. n : cells[j][i] = Cell(rows[j], names[i])
  BY <1>1
<1> QED
  BY <1>1, <1>2, <1>3, <1>4

\* The value of a column that the list of a query has stands where its name is.
PlaceOf(columns, column) == CHOOSE i \in DOMAIN columns : columns[i] = column

LEMMA ColumnIsShown ==
  ASSUME NEW q, NEW names, ListFits(q.select_columns, names), NEW row, NEW cells,
         cells = [j \in DOMAIN names |-> Cell(row, names[j])],
         NEW table, NEW id, id # NULL, NEW column,
         column = find_select_column_from_query_by_table_id_and_query_id(q, table, id),
         column # NULL
  PROVE  cells[PlaceOf(q.select_columns, column)] = row[<<table, id>>]
<1>1. PICK columns : columns = q.select_columns
  OBVIOUS
<1>2. PICK n \in Nat : n = Len(names) /\ DOMAIN names = 1 .. n /\ DOMAIN columns = 1 .. n
  BY <1>1 DEF ListFits, IsSequence
<1> DEFINE places == {i \in DOMAIN columns : columns[i].id = id /\ columns[i].table = table}
<1>3. column = IF places = {} THEN NULL ELSE columns[Min(places)]
  BY <1>1 DEF find_select_column_from_query_by_table_id_and_query_id
<1>4. Min(places) \in places
  <2>1. places \subseteq Nat /\ places # {}
    BY <1>2, <1>3
  <2> HIDE DEF places
  <2> QED
    BY <2>1, FirstPlace
<1>5. column.id = id /\ column.table = table /\ \E i \in DOMAIN columns : columns[i] = column
  <2>1. column = columns[Min(places)]
    BY <1>3
  <2> QED
    BY <1>4, <2>1
<1>6. PICK i : i = PlaceOf(columns, column)
  OBVIOUS
<1>7. i \in 1 .. n /\ columns[i] = column
  BY <1>2, <1>5, <1>6 DEF PlaceOf
<1>8. PICK name : name = names[i]
  OBVIOUS
<1>9. Stands(column, name)
  BY <1>1, <1>2, <1>7, <1>8 DEF ListFits
<1>10. PICK a, b : name = <<a, b>>
  BY <1>9 DEF Stands, IsName
<1>11. b # NULL /\ a = table /\ b = id
  BY <1>5, <1>9, <1>10 DEF Stands
<1>12. cells[i] = Cell(row, name)
  BY <1>2, <1>7, <1>8
<1>13. Cell(row, name) = row[<<table, id>>]
  BY <1>10, <1>11 DEF Cell
<1> QED
  BY <1>1, <1>6, <1>12, <1>13

-----------------------------------------------------------------------------
(* What an answer has to be *)

LEMMA AskedParts ==
  ASSUME NEW d \in Documents, NEW i \in Inputs, NEW elem, elem = FindById(d, i.noun),
         NEW asked, asked = Asked[d][i], asked.known
  PROVE  /\ WellFormed(elem) /\ asked.names = ColumnsNamed(elem)
         /\ Sensible(elem, i.pairs) => asked.sensible /\ asked.rows = RowsAsked(elem, i.pairs)
<1>1. asked = LET known == WellFormed(elem)
                  sensible == IF known THEN Sensible(elem, i.pairs) ELSE FALSE
              IN [known |-> known, sensible |-> sensible,
                  names |-> IF known THEN ColumnsNamed(elem) ELSE << >>,
                  rows |-> IF sensible THEN RowsAsked(elem, i.pairs) ELSE << >>]
  BY DEF Asked
<1>2. WellFormed(elem)
  BY <1>1
<1>3. asked.names = ColumnsNamed(elem)
  BY <1>1, <1>2
<1>4. ASSUME Sensible(elem, i.pairs) PROVE asked.sensible /\ asked.rows = RowsAsked(elem, i.pairs)
  BY <1>1, <1>2, <1>4
<1> QED
  BY <1>2, <1>3, <1>4

\* The words of the request of a thread have been read.
Reads(r) ==
  /\ Query(input[r].noun) # NULL
  /\ db_query[r] = Query(input[r].noun)
  /\ parameters[r] = ReadPairs(db_query[r], input[r].pairs)
  /\ ~parameters[r].falls /\ ~parameters[r].aborted
  /\ errors[r] = parameters[r].errors

\* What every request is read by.
Written ==
  /\ document \in Documents /\ queries = generate_app_queries(document).queries
  /\ input \in [Threads -> Inputs]

LEMMA ResultsFit ==
  ASSUME Written, NEW r \in Threads, Reads(r), ~errors[r],
         Valid(Statement(r)), NEW asked, asked = Asked[document][input[r]], asked.known
  PROVE  /\ asked.sensible /\ ListFits(db_query[r].select_columns, asked.names)
         /\ Execute(Statement(r)) = [i \in DOMAIN asked.rows |-> [j \in DOMAIN asked.names |->
                                       Cell(asked.rows[i], asked.names[j])]]
<1>1. PICK d, i, elem, q, p :
        d = document /\ i = input[r] /\ elem = FindById(d, i.noun) /\ q = db_query[r] /\ p = parameters[r]
  OBVIOUS
<1>2. d \in Documents /\ i \in Inputs
  BY <1>1 DEF Written
<1>3. d \in Seq(QueryElem) /\ i \in [noun : Attribute, pairs : Seq([name : STRING, value : Values])]
  BY <1>2, DocumentsAssumption, InputsAssumption
<1>4. /\ WellFormed(elem) /\ asked.names = ColumnsNamed(elem)
      /\ Sensible(elem, i.pairs) => asked.sensible /\ asked.rows = RowsAsked(elem, i.pairs)
  BY <1>1, <1>2, AskedParts
<1>5. q = FindById(generate_app_queries(d).queries, i.noun) /\ q # NULL
  <2>1. q = Query(i.noun) /\ q # NULL
    BY <1>1 DEF Reads
  <2>2. q = find_query_by_id(queries, i.noun)
    BY <2>1 DEF Query
  <2> QED
    BY <1>1, <2>1, <2>2 DEF find_query_by_id, Written
<1>6. Built(q, elem)
  BY <1>1, <1>3, <1>4, <1>5, QueryFound
<1>7. PICK columns : /\ q = QueryOf(elem.id, TablesNamed(elem), columns, ColumnsNamed(elem), GroupNamed(elem))
                     /\ ListFits(columns, ColumnsNamed(elem))
  BY <1>6 DEF Built
<1>8. q.tables = TablesNamed(elem) /\ q.select_columns = columns
  BY <1>7 DEF QueryOf
<1>9. PICK pairs : pairs = i.pairs
  OBVIOUS
<1>10. pairs \in Seq([name : STRING, value : Values])
  BY <1>3, <1>9
<1>11. p = ReadPairs(q, pairs) /\ Fine(p)
  BY <1>1, <1>9 DEF Reads, Fine
<1>12. Said(elem, pairs, p)
  BY <1>8, <1>10, <1>11, WordsAreRead
<1>13. PICK stmt : stmt = Statement(r)
  OBVIOUS
<1>14. stmt = db_query_generate_sql_statement(q, p) /\ Valid(stmt)
  BY <1>1, <1>13 DEF Statement
<1>15. Sensible(elem, pairs) /\ Execute(stmt) = CellsAsked(elem, pairs)
  BY <1>6, <1>12, <1>14, StatementFits
<1>16. asked.sensible /\ asked.rows = RowsAsked(elem, pairs)
  BY <1>4, <1>9, <1>15
<1> QED
  BY <1>1, <1>4, <1>7, <1>8, <1>13, <1>15, <1>16 DEF CellsAsked

LEMMA PullColumnsAreNames ==
  \A i \in DOMAIN PullColumns :
    PullColumns[i][2] # NULL /\ PullColumns[i] = <<PullColumns[i][1], PullColumns[i][2]>>
  BY IdsAssumption DEF PullColumns

\* All rows of a statement, or those before one.
Got(r, all) == results[r] = all \/ (r \in cut /\ \E n \in DOMAIN all : results[r] = Before(all, n))

\* An answer as it has to be.
Suits(r, a) ==
  LET asked == Asked[document][input[r]]
      shown == RowsShown(r, asked)
  IN ~a.errors /\ asked.known /\ (a.kind = "pull" => ~errors[r]) =>
       /\ asked.sensible
       /\ a.rows = shown \/ (r \in cut /\ \E n \in DOMAIN shown : a.rows = Before(shown, n))

LEMMA RowsSuit ==
  ASSUME Written, NEW r \in Threads, Reads(r), Valid(Statement(r)), Got(r, Execute(Statement(r))),
         Kind(r) \in {"rows", "sync"},
         NEW a, a.rows = output_db_result_json(r), ~a.errors => ~errors[r]
  PROVE  Suits(r, a)
<1> SUFFICES ASSUME NEW asked, asked = Asked[document][input[r]], asked.known, ~a.errors
             PROVE  /\ asked.sensible
                    /\ \/ a.rows = RowsShown(r, asked)
                       \/ r \in cut /\ \E n \in DOMAIN RowsShown(r, asked) :
                                         a.rows = Before(RowsShown(r, asked), n)
  BY DEF Suits
<1>1. PICK columns, names, rows, cells : /\ columns = db_query[r].select_columns /\ names = asked.names
                                         /\ rows = asked.rows /\ cells = Execute(Statement(r))
  OBVIOUS
<1>2. asked.sensible /\ ListFits(columns, names)
  BY <1>1, ResultsFit
<1>3. cells = [i \in DOMAIN rows |-> [j \in DOMAIN names |-> Cell(rows[i], names[j])]]
  BY <1>1, ResultsFit
<1>4. PICK shown : shown = [j \in DOMAIN rows |-> [i \in DOMAIN names |->
                              [label |-> Label(names[i]), value |-> Cell(rows[j], names[i])]]]
  OBVIOUS
<1>5. RowsShown(r, asked) = shown
  BY <1>1, <1>4 DEF RowsShown
<1>6. [j \in DOMAIN cells |-> [i \in DOMAIN columns |->
            [label |-> columns[i].fname, value |-> cells[j][i]]]] = shown
  BY <1>2, <1>3, <1>4, ListIsShown, SMTT(20)
<1>7. CASE results[r] = cells
  <2>1. a.rows = shown
    BY <1>1, <1>6, <1>7 DEF output_db_result_json
  <2> QED
    BY <1>2, <1>5, <2>1
<1>8. ASSUME r \in cut, NEW n \in DOMAIN cells, results[r] = Before(cells, n)
      PROVE  n \in DOMAIN shown /\ a.rows = Before(shown, n)
  <2>1. PICK some, D : some = results[r] /\ D = {i \in DOMAIN cells : i < n}
    OBVIOUS
  <2>2. DOMAIN shown = DOMAIN cells
    BY <1>6
  <2>3. DOMAIN some = D /\ \A j \in D : some[j] = cells[j]
    BY <1>8, <2>1 DEF Before, Restrict
  <2>4. a.rows = [j \in D |-> [i \in DOMAIN columns |->
                    [label |-> columns[i].fname, value |-> cells[j][i]]]]
    BY <1>1, <2>1, <2>3 DEF output_db_result_json
  <2>5. \A j \in D : shown[j] = [i \in DOMAIN columns |->
                                  [label |-> columns[i].fname, value |-> cells[j][i]]]
    BY <1>6, <2>1
  <2>6. a.rows = [j \in D |-> shown[j]]
    BY <2>4, <2>5
  <2>7. Before(shown, n) = [j \in D |-> shown[j]]
    BY <2>1, <2>2 DEF Before, Restrict
  <2> QED
    BY <2>2, <2>6, <2>7
<1> QED
  BY <1>1, <1>2, <1>5, <1>7, <1>8 DEF Got

LEMMA RowSuits ==
  ASSUME Written, NEW r \in Threads, Reads(r), Valid(Statement(r)), Got(r, Execute(Statement(r))),
         Kind(r) = "pull", Usable(r),
         NEW a, a.kind = "pull",
         a.rows = <<[i \in DOMAIN PullColumns |->
                       get_column_results_for_row(r, Selected(r, PullColumns[i]))]>>
  PROVE  Suits(r, a)
<1> SUFFICES ASSUME NEW asked, asked = Asked[document][input[r]], asked.known, ~errors[r]
             PROVE  asked.sensible /\ a.rows = RowsShown(r, asked)
  BY DEF Suits
<1>1. PICK q, names, rows, cells : /\ q = db_query[r] /\ names = asked.names
                                   /\ rows = asked.rows /\ cells = Execute(Statement(r))
  OBVIOUS
<1>2. asked.sensible /\ ListFits(q.select_columns, names)
  BY <1>1, ResultsFit
<1>3. cells = [i \in DOMAIN rows |-> [j \in DOMAIN names |-> Cell(rows[i], names[j])]]
  BY <1>1, ResultsFit
<1>4. 1 \in DOMAIN results[r] /\ \A i \in DOMAIN PullColumns : Selected(r, PullColumns[i]) # NULL
  BY DEF Usable, Needed
<1>5. 1 \in DOMAIN cells /\ results[r][1] = cells[1]
  <2>1. CASE results[r] = cells
    BY <1>4, <2>1
  <2>2. ASSUME NEW n, results[r] = Before(cells, n)
        PROVE  1 \in DOMAIN cells /\ results[r][1] = cells[1]
    BY <1>4, <2>2 DEF Before, Restrict
  <2> QED
    BY <1>1, <2>1, <2>2 DEF Got
<1>6. PICK row, first : row = rows[1] /\ first = cells[1]
  OBVIOUS
<1>7. first = [j \in DOMAIN names |-> Cell(row, names[j])]
  BY <1>3, <1>5, <1>6, SMTT(20)
<1>8. ASSUME NEW i \in DOMAIN PullColumns
      PROVE  get_column_results_for_row(r, Selected(r, PullColumns[i])) = row[PullColumns[i]]
  <2>1. PICK table, id, column : /\ table = PullColumns[i][1] /\ id = PullColumns[i][2]
                                 /\ column = Selected(r, PullColumns[i])
    OBVIOUS
  <2>2. id # NULL /\ PullColumns[i] = <<table, id>> /\ column # NULL
    BY <1>4, <2>1, PullColumnsAreNames
  <2>3. column = find_select_column_from_query_by_table_id_and_query_id(q, table, id)
    BY <1>1, <2>1 DEF Selected
  <2>4. first[PlaceOf(q.select_columns, column)] = row[<<table, id>>]
    BY <1>2, <1>7, <2>2, <2>3, ColumnIsShown
  <2> QED
    BY <1>1, <1>5, <1>6, <2>1, <2>2, <2>4 DEF get_column_results_for_row, PlaceOf
<1> QED
  BY <1>1, <1>2, <1>6, <1>8 DEF RowsShown

-----------------------------------------------------------------------------
(* The threads and their answers *)

\* Every variable of a thread or connection has a value for each.
Arrays ==
  /\ DOMAIN db_query = Threads /\ DOMAIN parameters = Threads /\ DOMAIN errors = Threads
  /\ DOMAIN results = Threads /\ DOMAIN answer = Threads /\ DOMAIN cursor = Conns

\* A thread that serves a request works on what the request says, and the rows it finds on
\* its connection, and keeps, are those of its own statement.  Its answer is its last step.
Served(r) ==
  /\ pc[r] \notin {"idle", "done"} => Reads(r)
  /\ pc[r] = "fetch" => Valid(Statement(r)) /\ cursor[node[r]] = Execute(Statement(r))
  /\ pc[r] = "answer" => Valid(Statement(r)) /\ Got(r, Execute(Statement(r)))
  /\ answer[r] # NULL => pc[r] = "done" /\ Suits(r, answer[r])

AnswerInv == Written /\ Arrays /\ \A r \in Threads : Served(r)

LEMMA AnswerInit == Init => AnswerInv
  BY DEF Init, AnswerInv, Written, Arrays, Served

\* What no step of a request changes, and what a step of another one does not.
Given == UNCHANGED <<queries, document, input>> /\ cut \subseteq cut'
Kept(q) ==
  /\ db_query'[q] = db_query[q] /\ parameters'[q] = parameters[q] /\ errors'[q] = errors[q]

LEMMA WrittenStays ==
  ASSUME Given, Written
  PROVE  Written'
  BY DEF Given, Written

LEMMA ReadsStays ==
  ASSUME Given, NEW q, Kept(q), Reads(q)
  PROVE  Reads(q)'
  BY DEF Given, Kept, Reads, Query

LEMMA StatementStays ==
  ASSUME NEW q, Kept(q)
  PROVE  Statement(q)' = Statement(q)
  BY Zenon DEF Kept, Statement

LEMMA GotStays ==
  ASSUME Given, NEW q, results'[q] = results[q], NEW all, Got(q, all)
  PROVE  Got(q, all)'
  BY DEF Given, Got

LEMMA ShownStays ==
  ASSUME Given, NEW q, NEW asked
  PROVE  RowsShown(q, asked)' = RowsShown(q, asked)
  BY Zenon DEF Given, RowsShown, Kind

LEMMA SuitsStays ==
  ASSUME Given, NEW q, errors'[q] = errors[q], NEW a, Suits(q, a)
  PROVE  Suits(q, a)'
<1>1. PICK asked, shown : asked = Asked[document][input[q]] /\ shown = RowsShown(q, asked)
  OBVIOUS
<1>2. Asked[document'][input'[q]] = asked /\ RowsShown(q, asked)' = shown
  BY <1>1, ShownStays DEF Given
<1>3. ASSUME ~a.errors, asked.known, a.kind = "pull" => ~errors[q]
      PROVE  /\ asked.sensible
             /\ a.rows = shown \/ (q \in cut' /\ \E n \in DOMAIN shown : a.rows = Before(shown, n))
  BY <1>1, <1>3 DEF Given, Suits
<1> QED
  BY <1>2, <1>3 DEF Suits

Others(r) ==
  \A q \in Threads : q # r =>
    /\ pc'[q] = pc[q] /\ Kept(q) /\ results'[q] = results[q] /\ answer'[q] = answer[q]
    /\ pc[q] = "fetch" => cursor'[node'[q]] = cursor[node[q]]

LEMMA OneServed ==
  ASSUME AnswerInv, Given, NEW r \in Threads, Others(r), Arrays', Served(r)'
  PROVE  AnswerInv'
<1> SUFFICES ASSUME NEW q \in Threads, q # r
             PROVE  Served(q)'
  BY WrittenStays DEF AnswerInv
<1>1. /\ pc'[q] = pc[q] /\ Kept(q) /\ results'[q] = results[q] /\ answer'[q] = answer[q]
      /\ pc[q] = "fetch" => cursor'[node'[q]] = cursor[node[q]]
      /\ Served(q)
  BY DEF Others, AnswerInv
<1>2. Statement(q)' = Statement(q)
  BY <1>1, StatementStays
<1>3. (pc[q] \notin {"idle", "done"} => Reads(q))'
  BY <1>1, ReadsStays DEF Served
<1>4. (pc[q] = "fetch" => Valid(Statement(q)) /\ cursor[node[q]] = Execute(Statement(q)))'
  BY <1>1, <1>2 DEF Served
<1>5. (pc[q] = "answer" => Valid(Statement(q)) /\ Got(q, Execute(Statement(q))))'
  BY <1>1, <1>2, GotStays DEF Served
<1>6. (answer[q] # NULL => pc[q] = "done" /\ Suits(q, answer[q]))'
  BY <1>1, SuitsStays DEF Served, Kept
<1> QED
  BY <1>3, <1>4, <1>5, <1>6 DEF Served

\* A step that answers: nothing else is changed.
LEMMA Answered ==
  ASSUME LockInv, AnswerInv, NEW r \in Threads, Given,
         UNCHANGED <<db_query, parameters, errors, node, results, cursor>>,
         NEW a, Answers(r, a), Suits(r, a)
  PROVE  AnswerInv'
<1>1. /\ pc' = [pc EXCEPT ![r] = "done"] /\ answer' = [answer EXCEPT ![r] = a]
      /\ DOMAIN pc = Threads /\ DOMAIN answer = Threads
  BY DEF Answers, Goto, LockInv, AnswerInv, Arrays
<1>2. Others(r)
  BY <1>1 DEF Others, Kept
<1>3. Arrays'
  BY <1>1 DEF AnswerInv, Arrays
<1>4. pc'[r] = "done" /\ answer'[r] = a
  BY <1>1
<1>5. Served(r)'
  BY <1>4, SuitsStays DEF Served
<1> QED
  BY <1>2, <1>3, <1>5, OneServed

\* A step that is about the connection only.
LEMMA GoesOn ==
  ASSUME LockInv, AnswerInv, NEW r \in Threads, Given,
         UNCHANGED <<db_query, parameters, errors, results, cursor, answer>>,
         pc[r] \notin {"idle", "done"}, NEW at \in {"take", "lock", "select"}, Goto(r, at),
         \A q \in Threads : q # r => node'[q] = node[q]
  PROVE  AnswerInv'
<1>1. pc' = [pc EXCEPT ![r] = at] /\ DOMAIN pc = Threads
  BY DEF Goto, LockInv
<1>2. Others(r)
  BY <1>1 DEF Others, Kept
<1>3. Arrays'
  BY DEF AnswerInv, Arrays
<1>4. pc'[r] = at /\ Kept(r) /\ answer'[r] = answer[r] /\ Served(r)
  BY <1>1 DEF Kept, AnswerInv
<1>5. Served(r)'
  BY <1>4, ReadsStays, SuitsStays DEF Served
<1> QED
  BY <1>2, <1>3, <1>5, OneServed

\* What an error is reported with fits everything.
LEMMA StatusSuits ==
  ASSUME NEW r
  PROVE  Suits(r, StatusAnswer)
  BY DEF Suits, StatusAnswer

LEMMA ReceiveServes ==
  ASSUME LockInv, AnswerInv, NEW r \in Threads, Receive(r)
  PROVE  AnswerInv'
<1>1. PICK q, p : q = Query(input[r].noun) /\ p = Read(r)
  OBVIOUS
<1>2. /\ pc[r] = "idle" /\ ~Deadly(r) /\ Given
      /\ UNCHANGED <<node, results, cursor>>
  BY DEF Receive, fixed, database, Given
<1>3. CASE Refused(q, p)
  <2>1. Answers(r, StatusAnswer) /\ UNCHANGED <<db_query, parameters, errors>>
    BY <1>1, <1>3 DEF Receive
  <2> QED
    BY <1>2, <2>1, Answered, StatusSuits
<1>4. CASE ~Refused(q, p)
  <2>1. /\ db_query' = [db_query EXCEPT ![r] = q] /\ parameters' = [parameters EXCEPT ![r] = p]
        /\ errors' = [errors EXCEPT ![r] = p.errors] /\ pc' = [pc EXCEPT ![r] = "connect"]
        /\ answer' = answer
    BY <1>1, <1>4 DEF Receive, Goto
  <2>2. /\ DOMAIN pc = Threads /\ DOMAIN db_query = Threads /\ DOMAIN parameters = Threads
        /\ DOMAIN errors = Threads
    BY DEF LockInv, AnswerInv, Arrays
  <2>3. Others(r)
    BY <1>2, <2>1, <2>2 DEF Others, Kept
  <2>4. Arrays'
    BY <1>2, <2>1 DEF AnswerInv, Arrays
  <2>5. /\ pc'[r] = "connect" /\ db_query'[r] = q /\ parameters'[r] = p /\ errors'[r] = p.errors
        /\ answer'[r] = answer[r] /\ Served(r)
    BY <2>1, <2>2 DEF AnswerInv
  <2>6. q # NULL /\ ~p.aborted /\ p = ReadPairs(q, input[r].pairs) /\ ~p.falls
    BY <1>1, <1>2, <1>4 DEF Refused, Read, Deadly
  <2>7. Reads(r)'
    BY <1>1, <1>2, <2>5, <2>6 DEF Reads, Query, Given
  <2>8. Served(r)'
    BY <1>2, <2>5, <2>7, SuitsStays DEF Served
  <2> QED
    BY <1>2, <2>3, <2>4, <2>8, OneServed
<1> QED
  BY <1>3, <1>4

\* The rows go to the connection of the thread and to no other that is being read.
LEMMA SelectServes ==
  ASSUME LockInv, AnswerInv, NEW r \in Threads, Select(r)
  PROVE  AnswerInv'
<1>1. /\ pc[r] = "select" /\ Valid(Statement(r)) /\ Given
      /\ cursor' = [cursor EXCEPT ![node[r]] = Execute(Statement(r))]
      /\ pc' = [pc EXCEPT ![r] = "fetch"]
      /\ UNCHANGED <<db_query, parameters, errors, node, results, answer>>
  BY DEF Select, Goto, query, fixed, Given
<1>2. DOMAIN pc = Threads /\ DOMAIN cursor = Conns /\ node[r] \in Conns
  BY <1>1 DEF LockInv, AnswerInv, Arrays, Running
<1>3. \A q \in Threads : q # r /\ pc[q] = "fetch" => node[q] # node[r]
  BY <1>1 DEF LockInv, Running
<1>4. Others(r)
  BY <1>1, <1>2, <1>3 DEF Others, Kept
<1>5. Arrays'
  BY <1>1, <1>2 DEF AnswerInv, Arrays
<1>6. /\ pc'[r] = "fetch" /\ Kept(r) /\ answer'[r] = answer[r] /\ Served(r)
      /\ cursor'[node'[r]] = Execute(Statement(r))
  BY <1>1, <1>2 DEF Kept, AnswerInv
<1>7. Statement(r)' = Statement(r)
  BY <1>6, StatementStays
<1>8. Reads(r)'
  BY <1>1, <1>6, ReadsStays DEF Served
<1>9. answer'[r] = NULL
  BY <1>1, <1>6 DEF Served
<1>10. Served(r)'
  BY <1>1, <1>6, <1>7, <1>8, <1>9 DEF Served
<1> QED
  BY <1>1, <1>4, <1>5, <1>10, OneServed

LEMMA FetchServes ==
  ASSUME LockInv, AnswerInv, NEW r \in Threads, Fetch(r)
  PROVE  AnswerInv'
<1>1. PICK all : all = cursor[node[r]]
  OBVIOUS
<1>2. PICK rows :
        /\ results' = [results EXCEPT ![r] = rows] /\ cut \subseteq cut'
        /\ rows = all \/ (r \in cut' /\ \E n \in DOMAIN all : rows = Before(all, n))
  <2>1. \/ results' = [results EXCEPT ![r] = all] /\ cut' = cut
        \/ /\ cut' = cut \cup {r}
           /\ \E n \in DOMAIN all : results' = [results EXCEPT ![r] = Before(all, n)]
    BY <1>1 DEF Fetch
  <2> QED
    BY <2>1
<1>3. /\ pc[r] = "fetch" /\ Given /\ pc' = [pc EXCEPT ![r] = "answer"]
      /\ UNCHANGED <<db_query, parameters, errors, node, cursor, answer>>
  BY <1>2 DEF Fetch, Goto, query, fixed, Given
<1>4. DOMAIN pc = Threads /\ DOMAIN results = Threads
  BY DEF LockInv, AnswerInv, Arrays
<1>5. Others(r)
  BY <1>2, <1>3, <1>4 DEF Others, Kept
<1>6. Arrays'
  BY <1>2, <1>3 DEF AnswerInv, Arrays
<1>7. /\ pc'[r] = "answer" /\ Kept(r) /\ answer'[r] = answer[r] /\ Served(r)
      /\ results'[r] = rows
  BY <1>2, <1>3, <1>4 DEF Kept, AnswerInv
<1>8. Statement(r)' = Statement(r)
  BY <1>7, StatementStays
<1>9. Reads(r)'
  BY <1>3, <1>7, ReadsStays DEF Served
<1>10. answer'[r] = NULL
  BY <1>3, <1>7 DEF Served
<1>11. Valid(Statement(r)) /\ all = Execute(Statement(r))
  BY <1>1, <1>3, <1>7 DEF Served
<1>12. Got(r, Execute(Statement(r)))'
  BY <1>2, <1>7, <1>8, <1>11 DEF Got
<1>13. Served(r)'
  BY <1>7, <1>8, <1>9, <1>10, <1>11, <1>12 DEF Served
<1> QED
  BY <1>3, <1>5, <1>6, <1>13, OneServed

LEMMA AnswerServes ==
  ASSUME LockInv, AnswerInv, NEW r \in Threads, PrintRows(r) \/ HandRow(r) \/ HandFails(r)
  PROVE  AnswerInv'
<1>1. /\ Given /\ UNCHANGED <<db_query, parameters, errors, node, results, cursor>>
      /\ pc[r] = "answer"
  BY DEF PrintRows, HandRow, HandFails, query, fixed, database, Given
<1>2. Written /\ Reads(r) /\ Valid(Statement(r)) /\ Got(r, Execute(Statement(r)))
  BY <1>1 DEF AnswerInv, Served
<1>3. CASE PrintRows(r)
  <2>1. PICK a : a = [kind |-> Kind(r), rows |-> output_db_result_json(r),
                      errors |-> errors[r] \/ (Kind(r) = "rows" /\ db_errors)]
    OBVIOUS
  <2>2. /\ Answers(r, a) /\ Kind(r) \in {"rows", "sync"}
        /\ a.rows = output_db_result_json(r) /\ (~a.errors => ~errors[r])
    BY <1>3, <2>1 DEF PrintRows
  <2>3. Suits(r, a)
    BY <1>2, <2>2, RowsSuit
  <2> QED
    BY <1>1, <2>2, <2>3, Answered
<1>4. CASE HandRow(r)
  <2>1. PICK a : a = [kind |-> "pull", errors |-> FALSE, rows |-> <<
                        [i \in DOMAIN PullColumns |-> get_column_results_for_row(r, Selected(r, PullColumns[i]))] >>]
    OBVIOUS
  <2>2. /\ Answers(r, a) /\ Kind(r) = "pull" /\ Usable(r) /\ a.kind = "pull"
        /\ a.rows = <<[i \in DOMAIN PullColumns |-> get_column_results_for_row(r, Selected(r, PullColumns[i]))]>>
    BY <1>4, <2>1 DEF HandRow
  <2>3. Suits(r, a)
    BY <1>2, <2>2, RowSuits
  <2> QED
    BY <1>1, <2>2, <2>3, Answered
<1>5. CASE HandFails(r)
  BY <1>1, <1>5, StatusSuits, Answered DEF HandFails
<1> QED
  BY <1>3, <1>4, <1>5

LEMMA NothingServed ==
  ASSUME AnswerInv, UNCHANGED <<fixed, pc, query, errors, node, results, database, answer, cut>>
  PROVE  AnswerInv'
<1>1. /\ Given /\ Arrays' /\ pc' = pc /\ node' = node /\ cursor' = cursor
      /\ results' = results /\ answer' = answer
      /\ \A q \in Threads : Kept(q)
  BY DEF query, fixed, database, Given, AnswerInv, Arrays, Kept
<1>2. CASE Threads = {}
  BY <1>1, <1>2, WrittenStays DEF AnswerInv
<1>3. ASSUME NEW r \in Threads
      PROVE  AnswerInv'
  <2>1. Others(r) /\ Kept(r) /\ Served(r)
    BY <1>1 DEF Others, AnswerInv
  <2>2. Statement(r)' = Statement(r)
    BY <2>1, StatementStays
  <2>3. errors'[r] = errors[r]
    BY <2>1 DEF Kept
  <2>4. Served(r)'
    BY <1>1, <2>1, <2>2, <2>3, ReadsStays, GotStays, SuitsStays DEF Served
  <2> QED
    BY <1>1, <2>1, <2>4, OneServed
<1> QED
  BY <1>2, <1>3

LEMMA ServeServes ==
  ASSUME LockInv, AnswerInv, NEW r \in Threads, Serve(r)
  PROVE  AnswerInv'
<1> USE DEF query, fixed, database, Given
<1>1. CASE Receive(r)
  BY <1>1, ReceiveServes
<1>2. CASE Falls(r) \/ LooksForOutputType(r)
  BY <1>2, NothingServed DEF Falls, LooksForOutputType
<1>3. CASE ReadHead(r)
  <2>1. /\ Given /\ UNCHANGED <<db_query, parameters, errors, results, cursor, answer>>
        /\ pc[r] \notin {"idle", "done"} /\ Goto(r, "take") /\ node' = [node EXCEPT ![r] = head]
    BY <1>3 DEF ReadHead
  <2>2. \A q \in Threads : q # r => node'[q] = node[q]
    BY <2>1 DEF LockInv
  <2> QED
    BY <2>1, <2>2, GoesOn
<1>4. CASE NoConnection(r)
  BY <1>4, Answered, StatusSuits DEF NoConnection, Failed
<1>5. CASE TakeConnection(r)
  <2>1. /\ Given /\ UNCHANGED <<db_query, parameters, errors, results, cursor, answer, node>>
        /\ pc[r] \notin {"idle", "done"} /\ Goto(r, "lock")
    BY <1>5 DEF TakeConnection
  <2> QED
    BY <2>1, GoesOn
<1>6. CASE Lock(r)
  <2>1. /\ Given /\ UNCHANGED <<db_query, parameters, errors, results, cursor, answer, node>>
        /\ pc[r] \notin {"idle", "done"} /\ Goto(r, "select")
    BY <1>6 DEF Lock
  <2> QED
    BY <2>1, GoesOn
<1>7. CASE Select(r)
  BY <1>7, SelectServes
<1>8. CASE SelectFails(r)
  BY <1>8, Answered, StatusSuits DEF SelectFails, Failed
<1>9. CASE Fetch(r)
  BY <1>9, FetchServes
<1>10. CASE PrintRows(r) \/ HandRow(r) \/ HandFails(r)
  BY <1>10, AnswerServes
<1> QED
  BY <1>1, <1>2, <1>3, <1>4, <1>5, <1>6, <1>7, <1>8, <1>9, <1>10 DEF Serve

LEMMA AnswerInvariant == Spec => []AnswerInv
<1>1. LockInv /\ AnswerInv /\ [Next]_(vars) => AnswerInv'
  <2>1. ASSUME AnswerInv, UNCHANGED vars
        PROVE  AnswerInv'
    BY <2>1, NothingServed DEF vars
  <2> QED
    BY <2>1, ServeServes DEF Next
<1> QED
  BY AnswerInit, <1>1, LockInvariant, PTL DEF Spec

\* An answer that reports no error is the answer to its request: the rows the document
\* and the words ask for, in their order and of the page asked for, each value under the
\* name of its own column, whichever requests share the connection.  Of rows that a lost
\* connection cuts short those that came are right; of a file that is sent although
\* something was reported nothing is said.
THEOREM AnswersAreRight == Spec => []AnswerFits
<1>1. AnswerInv => AnswerFits
  BY DEF AnswerInv, Served, Suits, AnswerFits
<1> QED
  BY <1>1, AnswerInvariant, PTL

=============================================================================
