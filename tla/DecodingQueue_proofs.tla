------------------------ MODULE DecodingQueue_proofs ------------------------
(***************************************************************************)
(* What holds of the decoding queue for every number of slots, every set   *)
(* of threads and every set of jobs, proved with TLAPS.                    *)
(***************************************************************************)
EXTENDS DecodingQueue, Sequences, FiniteSetTheorems, SequenceTheorems,
        WellFoundedInduction, TLAPS

(* The inductive invariant *)

\* A thread that is inside a critical section is the one holder of the mutex.
LockInv == \A t \in Threads : pc[t] # "idle" => lock = {t}

\* A slot whose bit is not set yet is in nobody else's hands.
InHand ==
  \A t \in Threads :
    /\ pc[t] = "get_mark" =>
         index[t] \in Slots \ (waiting \cup working) /\ taken[t] = None
    /\ pc[t] = "add_link" =>
         /\ index[t] \in Slots \ (waiting \cup working)
         /\ waiting = {} => head = index[t]

\* A thread works on a slot that is marked so.
TakenIsWorking == \A t \in Threads : taken[t] # None => taken[t] \in working

QueueInv ==
  /\ TypeOK
  /\ LockInv
  /\ InHand
  /\ TakenIsWorking
  /\ WaitingWorkingDisjoint
  /\ WaitingListLinked
  /\ WorkingHasOneThread

-----------------------------------------------------------------------------
(* The linked list *)

LEMMA SlotsFacts == None \notin Slots /\ IsFiniteSet(Slots)
  BY NumSlotsAssumption, FS_Interval DEF Slots, None

\* The mask of a type-correct state is finite, and not empty has an element.
LEMMA WaitingFinite ==
  ASSUME TypeOK
  PROVE  /\ IsFiniteSet(waiting)
         /\ Cardinality(waiting) \in Nat
         /\ waiting # {} => Cardinality(waiting) >= 1
<1>1. IsFiniteSet(waiting)
  BY SlotsFacts, FS_Subset DEF TypeOK
<1>2. Cardinality(waiting) \in Nat /\ (Cardinality(waiting) = 0 <=> waiting = {})
  BY <1>1, FS_CardinalityType, FS_EmptySet
<1>3. QED
  BY <1>1, <1>2

\* The ends of a list that is not empty are waiting slots.
LEMMA ListEnds ==
  ASSUME TypeOK, WaitingListLinked, waiting # {}
  PROVE  head \in waiting /\ tail \in waiting
<1>1. PICK s \in [1 .. Cardinality(waiting) -> waiting] :
             IsList(s, waiting, head, tail, decoding)
  BY DEF WaitingListLinked
<1>2. Cardinality(waiting) \in Nat /\ Cardinality(waiting) >= 1
  BY WaitingFinite
<1>3. QED
  BY <1>1, <1>2 DEF IsList

\* The list is untouched when neither its ends nor the links of its slots are.
LEMMA ListFrame ==
  ASSUME TypeOK, WaitingListLinked, waiting' = waiting,
         waiting # {} => head' = head /\ tail' = tail,
         \A i \in waiting : decoding'[i].next = decoding[i].next
  PROVE  WaitingListLinked'
<1> SUFFICES ASSUME waiting # {}
             PROVE  \E s \in [1 .. Cardinality(waiting) -> waiting] :
                       IsList(s, waiting', head', tail', decoding')
  BY DEF WaitingListLinked
<1>1. PICK s \in [1 .. Cardinality(waiting) -> waiting] :
             IsList(s, waiting, head, tail, decoding)
  BY DEF WaitingListLinked
<1>2. Cardinality(waiting) \in Nat
  BY WaitingFinite
<1>3. \A k \in 1 .. Cardinality(waiting) - 1 : s[k] \in waiting
  BY <1>2
<1>4. IsList(s, waiting', head', tail', decoding')
  BY <1>1, <1>3 DEF IsList
<1>5. QED
  BY <1>4

\* get_decoding_job_queue takes the first slot off the list.
LEMMA ListTake ==
  ASSUME TypeOK, WaitingListLinked, waiting # {},
         waiting' = waiting \ {head}, head' = decoding[head].next,
         tail' = tail, decoding' = decoding
  PROVE  WaitingListLinked'
<1> DEFINE n == Cardinality(waiting)
<1> SUFFICES ASSUME waiting' # {}
             PROVE  \E s \in [1 .. Cardinality(waiting') -> waiting'] :
                       IsList(s, waiting', head', tail', decoding')
  BY DEF WaitingListLinked
<1>1. PICK s \in [1 .. n -> waiting] :
             IsList(s, waiting, head, tail, decoding)
  BY DEF WaitingListLinked
<1>2. n \in Nat /\ n >= 1 /\ IsFiniteSet(waiting)
  BY WaitingFinite
<1>3. head \in waiting /\ s[1] = head
  BY <1>1, ListEnds DEF IsList
<1>4. Cardinality(waiting') = n - 1
  BY <1>2, <1>3, FS_RemoveElement
<1>5. n # 1
  <2> SUFFICES ASSUME n = 1 PROVE FALSE
    OBVIOUS
  <2>1. PICK i : i \in waiting /\ i # head
    OBVIOUS
  <2>2. PICK k \in 1 .. n : s[k] = i
    BY <1>1, <2>1 DEF IsList
  <2>3. QED
    BY <2>1, <2>2, <1>3
<1> DEFINE r == [k \in 1 .. n - 1 |-> s[k + 1]]
<1>6. \A k \in 1 .. n - 1 : r[k] = s[k + 1] /\ k + 1 \in 1 .. n /\ s[k + 1] # s[1]
  BY <1>1, <1>2 DEF IsList
<1>7. r \in [1 .. n - 1 -> waiting']
  BY <1>3, <1>6
<1>8. \A i \in waiting' : \E k \in 1 .. n - 1 : r[k] = i
  <2> TAKE i \in waiting'
  <2>1. PICK k \in 1 .. n : s[k] = i
    BY <1>1 DEF IsList
  <2>2. k # 1
    BY <2>1, <1>3
  <2>3. k - 1 \in 1 .. n - 1 /\ (k - 1) + 1 = k
    BY <2>2, <1>2
  <2>4. r[k - 1] = i
    BY <2>1, <2>3
  <2>5. QED
    BY <2>3, <2>4
<1>9. \A k, m \in 1 .. n - 1 : r[k] = r[m] => k = m
  <2> TAKE k, m \in 1 .. n - 1
  <2>1. k + 1 = m + 1 => k = m
    BY <1>2
  <2>2. QED
    BY <1>1, <1>6, <2>1 DEF IsList
<1>10. r[1] = head' /\ r[n - 1] = tail'
  <2>1. 1 \in 1 .. n - 1 /\ n - 1 \in 1 .. n - 1 /\ (n - 1) + 1 = n
    BY <1>2, <1>5
  <2>2. s[2] = decoding[s[1]].next /\ s[n] = tail
    BY <1>1, <2>1 DEF IsList
  <2>3. QED
    BY <2>1, <2>2, <1>3, <1>6
<1>11. \A k \in 1 .. (n - 1) - 1 : decoding[r[k]].next = r[k + 1]
  <2> TAKE k \in 1 .. (n - 1) - 1
  <2>1. k \in 1 .. n - 1 /\ k + 1 \in 1 .. n - 1
    BY <1>2
  <2>2. decoding[s[k + 1]].next = s[(k + 1) + 1]
    BY <1>1, <2>1 DEF IsList
  <2>3. QED
    BY <2>1, <2>2, <1>6
<1>12. IsList(r, waiting', head', tail', decoding')
  BY <1>4, <1>8, <1>9, <1>10, <1>11 DEF IsList
<1>13. QED
  BY <1>4, <1>7, <1>12

\* add_decoding_job_queue links a slot behind the last one.
LEMMA ListAppend ==
  ASSUME TypeOK, WaitingListLinked,
         NEW e \in Slots, e \notin waiting,
         waiting = {} => head = e,
         waiting' = waiting \cup {e}, head' = head, tail' = e,
         decoding' = IF tail = None THEN decoding
                     ELSE [decoding EXCEPT ![tail].next = e]
  PROVE  WaitingListLinked'
<1> DEFINE n == Cardinality(waiting)
<1>1. n \in Nat /\ IsFiniteSet(waiting)
  BY WaitingFinite
<1>2. Cardinality(waiting') = n + 1
  BY <1>1, FS_AddElement
<1>3. CASE waiting = {}
  <2>1. waiting' = {e} /\ Cardinality(waiting') = 1 /\ head' = e
    BY <1>3, FS_Singleton
  <2> DEFINE r == [k \in 1 .. 1 |-> e]
  <2>2. r \in [1 .. 1 -> {e}] /\ r[1] = e /\ \A k \in 1 .. 1 : k = 1
    OBVIOUS
  <2>3. IsList(r, waiting', head', tail', decoding')
    <3> HIDE DEF r
    <3>1. \A i \in waiting' : \E k \in 1 .. 1 : r[k] = i
      BY <2>1, <2>2
    <3>2. \A k, m \in 1 .. 1 : k = m
      OBVIOUS
    <3>3. \A k \in 1 .. 1 - 1 : FALSE
      OBVIOUS
    <3>4. QED
      BY <2>1, <2>2, <3>1, <3>2, <3>3 DEF IsList
  <2>4. r \in [1 .. Cardinality(waiting') -> waiting']
    BY <2>1, <2>2
  <2> HIDE DEF r
  <2>5. QED
    BY <2>3, <2>4 DEF WaitingListLinked
<1>4. CASE waiting # {}
  <2>1. PICK s \in [1 .. n -> waiting] :
             IsList(s, waiting, head, tail, decoding)
    BY <1>4 DEF WaitingListLinked
  <2>2. n >= 1 /\ tail \in waiting /\ tail # None
    BY <1>4, WaitingFinite, ListEnds, SlotsFacts DEF TypeOK
  <2> DEFINE r == [k \in 1 .. n + 1 |-> IF k <= n THEN s[k] ELSE e]
  <2>3. /\ \A k \in 1 .. n : r[k] = s[k] /\ r[k] \in waiting
        /\ r[n + 1] = e
        /\ \A k \in 1 .. n + 1 : k \in 1 .. n \/ k = n + 1
    BY <1>1
  <2>4. r \in [1 .. n + 1 -> waiting']
    BY <2>3, <1>1
  <2>5. \A i \in waiting' : \E k \in 1 .. n + 1 : r[k] = i
    <3> TAKE i \in waiting'
    <3>1. CASE i = e
      BY <1>1, <2>3, <3>1
    <3>2. CASE i \in waiting
      <4>1. PICK k \in 1 .. n : s[k] = i
        BY <2>1, <3>2 DEF IsList
      <4>2. k \in 1 .. n + 1 /\ r[k] = i
        BY <1>1, <2>3, <4>1
      <4>3. QED
        BY <4>2
    <3>3. QED
      BY <3>1, <3>2
  <2>6. \A k, m \in 1 .. n + 1 : r[k] = r[m] => k = m
    BY <2>1, <2>3 DEF IsList
  <2>7. r[1] = head' /\ r[n + 1] = tail'
    BY <1>1, <2>1, <2>2, <2>3 DEF IsList
  <2>8. \A k \in 1 .. n : decoding'[r[k]].next = r[k + 1]
    <3> TAKE k \in 1 .. n
    <3>1. CASE k = n
      <4>1. r[k] = tail
        BY <1>1, <2>1, <2>2, <2>3, <3>1 DEF IsList
      <4>2. decoding'[tail].next = e
        BY <2>2 DEF TypeOK
      <4>3. QED
        BY <2>3, <3>1, <4>1, <4>2
    <3>2. CASE k # n
      <4>1. k \in 1 .. n - 1 /\ k + 1 \in 1 .. n /\ n \in 1 .. n
        BY <1>1, <2>2, <3>2
      <4>2. decoding[s[k]].next = s[k + 1] /\ s[n] = tail /\ s[k] # s[n]
        BY <2>1, <3>2, <4>1 DEF IsList
      <4>3. decoding'[s[k]] = decoding[s[k]]
        BY <2>2, <2>3, <4>2 DEF TypeOK
      <4>4. QED
        BY <2>3, <4>1, <4>2, <4>3
    <3>3. QED
      BY <3>1, <3>2
  <2>9. (n + 1) - 1 = n
    BY <1>1
  <2>10. IsList(r, waiting', head', tail', decoding')
    BY <1>2, <2>5, <2>6, <2>7, <2>8, <2>9 DEF IsList
  <2>11. r \in [1 .. Cardinality(waiting') -> waiting']
    BY <1>2, <2>4
  <2> HIDE DEF r
  <2>12. QED
    BY <2>10, <2>11 DEF WaitingListLinked
<1>5. QED
  BY <1>3, <1>4

-----------------------------------------------------------------------------
(* The invariant *)

LEMMA QueueInit == Init => QueueInv
<1> SUFFICES ASSUME Init PROVE QueueInv
  OBVIOUS
<1> USE DEF Init, create_decoding_queue
<1>1. 0 \in Slots
  BY NumSlotsAssumption DEF Slots
<1>2. TypeOK
  BY <1>1 DEF TypeOK
<1>3. LockInv /\ InHand /\ TakenIsWorking
  BY DEF LockInv, InHand, TakenIsWorking
<1>4. WaitingWorkingDisjoint /\ WaitingListLinked /\ WorkingHasOneThread
  BY DEF WaitingWorkingDisjoint, WaitingListLinked, WorkingHasOneThread, Held
<1>5. QED
  BY <1>2, <1>3, <1>4 DEF QueueInv

\* The thread that may take the mutex finds every other thread outside.
LEMMA EnterFacts ==
  ASSUME QueueInv, NEW t \in Threads, NEW label, Enter(t, label)
  PROVE  /\ \A u \in Threads : pc[u] = "idle"
         /\ pc' = [pc EXCEPT ![t] = label]
         /\ lock' = {t}
BY DEF QueueInv, LockInv, Enter

\* The thread inside a critical section finds every other thread outside.
LEMMA InsideFacts ==
  ASSUME QueueInv, NEW t \in Threads, pc[t] # "idle"
  PROVE  /\ lock = {t}
         /\ \A u \in Threads : u # t => pc[u] = "idle"
BY DEF QueueInv, LockInv

LEMMA GetTakeInv ==
  ASSUME QueueInv, NEW t \in Threads, GetTake(t)
  PROVE  QueueInv'
<1> USE DEF GetTake
<1>1. /\ \A u \in Threads : pc[u] = "idle"
      /\ pc' = [pc EXCEPT ![t] = "get_mark"]
      /\ lock' = {t}
  BY EnterFacts
<1>2. head \in waiting /\ head \in Slots /\ head \notin working /\ head # None
  BY ListEnds, SlotsFacts DEF QueueInv, TypeOK, WaitingWorkingDisjoint
<1>3. TypeOK'
  BY <1>1, <1>2 DEF QueueInv, TypeOK
<1>4. LockInv'
  BY <1>1 DEF QueueInv, TypeOK, LockInv
<1>5. InHand'
  BY <1>1, <1>2 DEF QueueInv, TypeOK, InHand
<1>6. TakenIsWorking' /\ WaitingWorkingDisjoint'
  BY DEF QueueInv, TakenIsWorking, WaitingWorkingDisjoint
<1>7. WaitingListLinked'
  BY ListTake DEF QueueInv
<1>8. WorkingHasOneThread'
  BY <1>1, <1>2 DEF QueueInv, TypeOK, WorkingHasOneThread, TakenIsWorking, Held
<1>9. QED
  BY <1>3, <1>4, <1>5, <1>6, <1>7, <1>8 DEF QueueInv

LEMMA GetMarkInv ==
  ASSUME QueueInv, NEW t \in Threads, GetMark(t)
  PROVE  QueueInv'
<1> USE DEF GetMark
<1>1. lock = {t} /\ \A u \in Threads : u # t => pc[u] = "idle"
  BY InsideFacts
<1>2. /\ index[t] \in Slots /\ index[t] # None
      /\ index[t] \notin waiting /\ index[t] \notin working /\ taken[t] = None
  BY SlotsFacts DEF QueueInv, InHand
<1>3. TypeOK'
  BY <1>2 DEF QueueInv, TypeOK
<1>4. LockInv' /\ InHand'
  BY <1>1 DEF QueueInv, TypeOK, LockInv, InHand
<1>5. TakenIsWorking' /\ WaitingWorkingDisjoint'
  BY <1>2 DEF QueueInv, TypeOK, TakenIsWorking, WaitingWorkingDisjoint
<1>6. WaitingListLinked'
  BY ListFrame DEF QueueInv
<1>7. \A u \in Threads : Held(u)' = Held(u)
  BY <1>1, <1>2 DEF QueueInv, TypeOK, Held
<1>8. WorkingHasOneThread'
  <2>1. \A i \in working' : \E u \in Threads : taken'[u] = i
    <3> TAKE i \in working'
    <3>1. CASE i = index[t]
      BY <3>1 DEF QueueInv, TypeOK
    <3>2. CASE i \in working
      <4>1. PICK u \in Threads : taken[u] = i
        BY <3>2 DEF QueueInv, WorkingHasOneThread
      <4>2. u # t
        BY <1>2, <3>2, <4>1, SlotsFacts DEF QueueInv, TypeOK
      <4>3. QED
        BY <4>1, <4>2 DEF QueueInv, TypeOK
    <3>3. QED
      BY <3>1, <3>2
  <2>2. \A u, v \in Threads : Held(u)' = Held(v)' /\ Held(u)' # None => u = v
    BY <1>7 DEF QueueInv, WorkingHasOneThread
  <2>3. \A u \in Threads : Held(u)' \notin waiting'
    BY <1>7 DEF QueueInv, WorkingHasOneThread
  <2>4. QED
    BY <2>1, <2>2, <2>3 DEF WorkingHasOneThread
<1>9. QED
  BY <1>3, <1>4, <1>5, <1>6, <1>8 DEF QueueInv

LEMMA GetEmptyInv ==
  ASSUME QueueInv, NEW t \in Threads, GetEmpty(t)
  PROVE  QueueInv'
<1> USE DEF GetEmpty
<1>1. /\ \A u \in Threads : pc[u] = "idle"
      /\ pc' = [pc EXCEPT ![t] = "unlock"]
      /\ lock' = {t}
  BY EnterFacts
<1>2. TypeOK' /\ LockInv' /\ InHand'
  BY <1>1 DEF QueueInv, TypeOK, LockInv, InHand
<1>3. TakenIsWorking' /\ WaitingWorkingDisjoint'
  BY DEF QueueInv, TakenIsWorking, WaitingWorkingDisjoint
<1>4. WaitingListLinked'
  BY ListFrame DEF QueueInv
<1>5. WorkingHasOneThread'
  BY <1>1 DEF QueueInv, TypeOK, WorkingHasOneThread, Held
<1>6. QED
  BY <1>2, <1>3, <1>4, <1>5 DEF QueueInv

LEMMA AddFullInv ==
  ASSUME QueueInv, NEW t \in Threads, AddFull(t)
  PROVE  QueueInv'
<1> USE DEF AddFull
<1>1. /\ \A u \in Threads : pc[u] = "idle"
      /\ pc' = [pc EXCEPT ![t] = "idle"]
      /\ lock' = {t}
  BY EnterFacts
<1>2. TypeOK' /\ LockInv' /\ InHand'
  BY <1>1 DEF QueueInv, TypeOK, LockInv, InHand
<1>3. TakenIsWorking' /\ WaitingWorkingDisjoint'
  BY DEF QueueInv, TakenIsWorking, WaitingWorkingDisjoint
<1>4. WaitingListLinked'
  BY ListFrame DEF QueueInv
<1>5. WorkingHasOneThread'
  BY <1>1 DEF QueueInv, TypeOK, WorkingHasOneThread, Held
<1>6. QED
  BY <1>2, <1>3, <1>4, <1>5 DEF QueueInv

LEMMA AddSlotInv ==
  ASSUME QueueInv, NEW t \in Threads, NEW j \in Jobs, AddSlot(t, j)
  PROVE  QueueInv'
<1>1. /\ \A u \in Threads : pc[u] = "idle"
      /\ pc' = [pc EXCEPT ![t] = "add_link"]
      /\ lock' = {t}
  BY EnterFacts DEF AddSlot
<1>2. PICK e \in Free :
        /\ head' = IF waiting = {} THEN e ELSE head
        /\ decoding' = [decoding EXCEPT ![e] = [job |-> j, next |-> None]]
        /\ index' = [index EXCEPT ![t] = e]
  BY DEF AddSlot
<1>3. UNCHANGED <<tail, waiting, working, taken>>
  BY DEF AddSlot
<1>4. e \in Slots /\ e \notin waiting /\ e \notin working
  BY DEF Free
<1>5. TypeOK'
  BY <1>1, <1>2, <1>3, <1>4 DEF QueueInv, TypeOK
<1>6. LockInv' /\ InHand'
  BY <1>1, <1>2, <1>3, <1>4 DEF QueueInv, TypeOK, LockInv, InHand
<1>7. TakenIsWorking' /\ WaitingWorkingDisjoint'
  BY <1>3 DEF QueueInv, TakenIsWorking, WaitingWorkingDisjoint
<1>8. \A i \in waiting : decoding'[i].next = decoding[i].next
  BY <1>2, <1>4 DEF QueueInv, TypeOK
<1>9. WaitingListLinked'
  BY <1>2, <1>3, <1>8, ListFrame DEF QueueInv
<1>10. \A u \in Threads : Held(u)' = Held(u)
  BY <1>1, <1>3 DEF QueueInv, TypeOK, Held
<1>11. WorkingHasOneThread'
  BY <1>3, <1>10 DEF QueueInv, WorkingHasOneThread
<1>12. QED
  BY <1>5, <1>6, <1>7, <1>9, <1>11 DEF QueueInv

LEMMA AddLinkInv ==
  ASSUME QueueInv, NEW t \in Threads, AddLink(t)
  PROVE  QueueInv'
<1> USE DEF AddLink
<1>1. lock = {t} /\ \A u \in Threads : u # t => pc[u] = "idle"
  BY InsideFacts
<1>2. /\ index[t] \in Slots /\ index[t] \notin waiting /\ index[t] \notin working
      /\ waiting = {} => head = index[t]
  BY DEF QueueInv, InHand
<1>3. TypeOK'
  BY <1>2 DEF QueueInv, TypeOK
<1>4. LockInv' /\ InHand'
  BY <1>1 DEF QueueInv, TypeOK, LockInv, InHand
<1>5. TakenIsWorking' /\ WaitingWorkingDisjoint'
  BY <1>2 DEF QueueInv, TakenIsWorking, WaitingWorkingDisjoint
<1>6. WaitingListLinked'
  BY <1>2, ListAppend DEF QueueInv
<1>7. \A u \in Threads : Held(u)' = Held(u) /\ Held(u) # index[t]
  BY <1>1, <1>2, SlotsFacts DEF QueueInv, TypeOK, Held, TakenIsWorking
<1>8. WorkingHasOneThread'
  BY <1>7 DEF QueueInv, WorkingHasOneThread
<1>9. QED
  BY <1>3, <1>4, <1>5, <1>6, <1>8 DEF QueueInv

LEMMA FindScanInv ==
  ASSUME QueueInv, NEW t \in Threads, NEW j \in Jobs,
         NEW dec_job \in Slots \cup {None}, FindScan(t, j, dec_job)
  PROVE  QueueInv'
<1>1. /\ \A u \in Threads : pc[u] = "idle"
      /\ pc' = [pc EXCEPT ![t] = "unlock"]
      /\ lock' = {t}
  BY EnterFacts DEF FindScan
<1>2. UNCHANGED <<head, tail, waiting, working, decoding, index, taken>>
  BY DEF FindScan
<1>3. TypeOK' /\ LockInv' /\ InHand'
  BY <1>1, <1>2 DEF QueueInv, TypeOK, LockInv, InHand
<1>4. TakenIsWorking' /\ WaitingWorkingDisjoint'
  BY <1>2 DEF QueueInv, TakenIsWorking, WaitingWorkingDisjoint
<1>5. WaitingListLinked'
  BY <1>2, ListFrame DEF QueueInv
<1>6. WorkingHasOneThread'
  BY <1>1, <1>2 DEF QueueInv, TypeOK, WorkingHasOneThread, Held
<1>7. QED
  BY <1>3, <1>4, <1>5, <1>6 DEF QueueInv

LEMMA RemoveInv ==
  ASSUME QueueInv, NEW t \in Threads, Remove(t)
  PROVE  QueueInv'
<1> USE DEF Remove
<1>1. /\ \A u \in Threads : pc[u] = "idle"
      /\ pc' = [pc EXCEPT ![t] = "unlock"]
      /\ lock' = {t}
  BY EnterFacts
<1>2. \A u \in Threads : Held(u) = taken[u] /\ Held(u)' = taken'[u]
  BY <1>1 DEF QueueInv, TypeOK, Held
<1>3. TypeOK' /\ LockInv' /\ InHand'
  BY <1>1 DEF QueueInv, TypeOK, LockInv, InHand
<1>4. \A u \in Threads : u # t => taken'[u] = taken[u] /\ taken[u] # taken[t]
  BY <1>2 DEF QueueInv, TypeOK, WorkingHasOneThread
<1>5. taken'[t] = None
  BY DEF QueueInv, TypeOK
<1>6. TakenIsWorking' /\ WaitingWorkingDisjoint'
  BY <1>4, <1>5 DEF QueueInv, TakenIsWorking, WaitingWorkingDisjoint
<1>7. WaitingListLinked'
  BY ListFrame DEF QueueInv
<1>8. WorkingHasOneThread'
  <2>1. \A i \in working' : \E u \in Threads : taken'[u] = i
    BY <1>4 DEF QueueInv, WorkingHasOneThread
  <2>2. \A u, v \in Threads : Held(u)' = Held(v)' /\ Held(u)' # None => u = v
    BY <1>2, <1>4, <1>5 DEF QueueInv, WorkingHasOneThread
  <2>3. \A u \in Threads : Held(u)' \notin waiting'
    BY <1>2, <1>4, <1>5, SlotsFacts DEF QueueInv, TypeOK, WorkingHasOneThread
  <2>4. QED
    BY <2>1, <2>2, <2>3 DEF WorkingHasOneThread
<1>9. QED
  BY <1>3, <1>6, <1>7, <1>8 DEF QueueInv

LEMMA UnlockInv ==
  ASSUME QueueInv, NEW t \in Threads, Unlock(t)
  PROVE  QueueInv'
<1> USE DEF Unlock
<1>1. lock = {t} /\ \A u \in Threads : u # t => pc[u] = "idle"
  BY InsideFacts
<1>2. TypeOK' /\ LockInv' /\ InHand'
  BY <1>1 DEF QueueInv, TypeOK, LockInv, InHand
<1>3. TakenIsWorking' /\ WaitingWorkingDisjoint'
  BY DEF QueueInv, TakenIsWorking, WaitingWorkingDisjoint
<1>4. WaitingListLinked'
  BY ListFrame DEF QueueInv
<1>5. WorkingHasOneThread'
  BY DEF QueueInv, TypeOK, WorkingHasOneThread, Held
<1>6. QED
  BY <1>2, <1>3, <1>4, <1>5 DEF QueueInv

LEMMA QueueStep == QueueInv /\ [Next]_vars => QueueInv'
<1> SUFFICES ASSUME QueueInv, [Next]_vars PROVE QueueInv'
  OBVIOUS
<1>1. ASSUME NEW t \in Threads, Step(t)
      PROVE  QueueInv'
  <2>1. CASE GetTake(t) BY <2>1, GetTakeInv
  <2>2. CASE GetMark(t) BY <2>2, GetMarkInv
  <2>3. CASE GetEmpty(t) BY <2>3, GetEmptyInv
  <2>4. CASE AddFull(t) BY <2>4, AddFullInv
  <2>5. CASE AddLink(t) BY <2>5, AddLinkInv
  <2>6. CASE \E j \in Jobs : AddSlot(t, j) BY <2>6, AddSlotInv
  <2>7. CASE \E j \in Jobs, i \in Slots \cup {None} : FindScan(t, j, i)
    BY <2>7, FindScanInv
  <2>8. CASE Remove(t) BY <2>8, RemoveInv
  <2>9. CASE Unlock(t) BY <2>9, UnlockInv
  <2>10. QED
    BY <1>1, <2>1, <2>2, <2>3, <2>4, <2>5, <2>6, <2>7, <2>8, <2>9 DEF Step
<1>2. CASE UNCHANGED vars
  <2> USE <1>2 DEF vars
  <2>1. TypeOK' /\ LockInv' /\ InHand'
    BY DEF QueueInv, TypeOK, LockInv, InHand
  <2>2. TakenIsWorking' /\ WaitingWorkingDisjoint'
    BY DEF QueueInv, TakenIsWorking, WaitingWorkingDisjoint
  <2>3. WaitingListLinked'
    BY ListFrame DEF QueueInv
  <2>4. WorkingHasOneThread'
    BY DEF QueueInv, WorkingHasOneThread, Held
  <2>5. QED
    BY <2>1, <2>2, <2>3, <2>4 DEF QueueInv
<1>3. QED
  BY <1>1, <1>2 DEF Next

\* The inductive invariant holds in every reachable state.
THEOREM QueueInvariant == Spec => []QueueInv
  BY QueueInit, QueueStep, PTL DEF Spec

-----------------------------------------------------------------------------
(* What a reader should know of the queue *)

\* Every field of the queue stays in its range, for any number of slots: in
\* particular the index read from head when something waits ("head is less
\* than 0" in get_decoding_job_queue) is the index of a slot.
THEOREM QueueTypes == Spec => []TypeOK
<1>1. QueueInv => TypeOK
  BY DEF QueueInv
<1>2. QED
  BY <1>1, QueueInvariant, PTL

\* The links of a queue of any size lead from head through every waiting slot
\* to tail: add_decoding_job_queue and get_decoding_job_queue never break the
\* list, lose a job from it or enter one twice.
THEOREM ListNeverBreaks == Spec => []WaitingListLinked
<1>1. QueueInv => WaitingListLinked
  BY DEF QueueInv
<1>2. QED
  BY <1>1, QueueInvariant, PTL

\* A slot is marked waiting or is in the hands of one thread, which will clear its
\* mark: "Working and waiting are set" of does_decoding_job_exsits is never logged,
\* and no slot leaks out of the pool.
THEOREM SlotsHaveOneOwner == Spec => []OneOwner
<1>1. QueueInv => OneOwner
  BY DEF QueueInv, OneOwner
<1>2. QED
  BY <1>1, QueueInvariant, PTL

\* With every return but one the mutex is free again.  Once that one, of a full
\* queue, has happened, nobody enters any more, and the queue stays full.
THEOREM OnlyFullKeepsLock == Spec => []LockKeptWhenFull
<1>1. Init => LockKeptWhenFull
  BY DEF Init, LockKeptWhenFull
<1>2. ASSUME QueueInv, LockKeptWhenFull, NEW t \in Threads, Step(t)
      PROVE  LockKeptWhenFull'
  <2>1. CASE \E label : label # "idle" /\ Enter(t, label)
    BY <1>2, <2>1 DEF Enter, LockKeptWhenFull, QueueInv, TypeOK
  <2>2. CASE AddFull(t)
    BY <1>2, <2>2 DEF AddFull, Enter, LockKeptWhenFull, Free
  <2>3. CASE GetMark(t) \/ AddLink(t)
    <3>1. lock' = {t} /\ pc'[t] = "unlock"
      BY <1>2, <2>3, InsideFacts DEF GetMark, AddLink, QueueInv, TypeOK
    <3>2. QED
      BY <3>1 DEF LockKeptWhenFull
  <2>4. CASE Unlock(t)
    <3>1. lock' = {}
      BY <1>2, <2>4, InsideFacts DEF Unlock
    <3>2. QED
      BY <3>1 DEF LockKeptWhenFull
  <2>5. QED
    BY <1>2, <2>1, <2>2, <2>3, <2>4
       DEF Step, GetTake, GetEmpty, AddSlot, FindScan, Remove
<1>3. QueueInv /\ LockKeptWhenFull /\ [Next]_vars => LockKeptWhenFull'
  BY <1>2 DEF Next, vars, LockKeptWhenFull, Free
<1>4. QED
  BY <1>1, <1>3, QueueInvariant, PTL DEF Spec

\* The job of a slot somebody still needs stays what it is.
LEMMA JobsKept ==
  ASSUME QueueInv, [Next]_vars
  PROVE  \A i \in InUse \ {None} : decoding'[i].job = decoding[i].job
<1> DEFINE Keeps == \A i \in InUse \ {None} : decoding'[i].job = decoding[i].job
<1>1. ASSUME NEW t \in Threads, Step(t)
      PROVE  Keeps
  <2>0. \A i \in InUse \ {None} : i \in Slots
    BY <1>1 DEF QueueInv, InUse, TypeOK, Held
  <2>1. CASE UNCHANGED decoding
    BY <2>1
  <2>2. CASE AddLink(t)
    BY <1>1, <2>0, <2>2 DEF AddLink, QueueInv, TypeOK
  <2>3. CASE \E j \in Jobs : AddSlot(t, j)
    <3>1. PICK e \in Free, j \in Jobs :
            decoding' = [decoding EXCEPT ![e] = [job |-> j, next |-> None]]
      BY <2>3 DEF AddSlot
    <3>2. \A u \in Threads : pc[u] = "idle"
      BY <1>1, <2>3 DEF AddSlot, Enter, QueueInv, LockInv
    <3>3. e \notin InUse \ {None}
      BY <1>1, <3>2 DEF InUse, Held, Free, QueueInv, TakenIsWorking
    <3>4. QED
      BY <1>1, <2>0, <3>1, <3>3 DEF QueueInv, TypeOK
  <2>4. QED
    BY <1>1, <2>1, <2>2, <2>3
       DEF Step, GetTake, GetMark, GetEmpty, AddFull, FindScan, Remove, Unlock
<1>2. QED
  BY <1>1 DEF Next, vars

\* No add copies its job over one that is waiting, worked on or handed over.
THEOREM NoJobOverwritten == Spec => JobsNotOverwritten
<1>1. QueueInv /\ [Next]_vars =>
        [\A i \in InUse \ {None} : decoding'[i].job = decoding[i].job]_vars
  BY JobsKept
<1>2. QED
  BY <1>1, QueueInvariant, PTL DEF Spec, JobsNotOverwritten

-----------------------------------------------------------------------------
(* The order of the links *)

\* A set of natural numbers has a least element: what stands in for induction
\* where a property of a recursive function is needed.
LEMMA Least ==
  ASSUME NEW S, S \subseteq Nat, S # {}
  PROVE  \E x \in S : \A y \in S : x <= y
<1>1. PICK x \in S : \A y \in S : ~ (<<y, x>> \in OpToRel(<, Nat))
  BY NatLessThanWellFounded, WFMin
<1>2. \A y \in S : ~ (y < x)
  BY <1>1 DEF OpToRel
<1>3. QED
  BY <1>2

\* A sequence that begins at h and follows the links is what Links computes.
LEMMA LinksAre ==
  ASSUME NEW n \in Nat, NEW h, NEW d, NEW T, NEW s \in [1 .. n -> T],
         n >= 1 => s[1] = h,
         \A k \in 1 .. n - 1 : d[s[k]].next = s[k + 1]
  PROVE  Links(n, h, d) = s
<1> DEFINE Eq(c) == c = [k \in 1 .. n |-> IF k = 1 THEN h ELSE d[c[k - 1]].next]
<1>1. Eq(s)
  <2>1. \A k \in 1 .. n : s[k] = IF k = 1 THEN h ELSE d[s[k - 1]].next
    <3> TAKE k \in 1 .. n
    <3>1. CASE k = 1
      BY <3>1
    <3>2. CASE k # 1
      <4>1. k - 1 \in 1 .. n - 1 /\ (k - 1) + 1 = k
        BY <3>2
      <4>2. QED
        BY <3>2, <4>1
    <3>3. QED
      BY <3>1, <3>2
  <2>2. QED
    BY <2>1
<1>2. ASSUME NEW c, Eq(c) PROVE c = s
  <2>1. c = [k \in 1 .. n |-> c[k]]
    BY <1>2
  <2>2. ASSUME NEW j \in 1 .. n, c[j] # s[j] PROVE FALSE
    <3> DEFINE Differ == {i \in 1 .. n : c[i] # s[i]}
    <3>1. PICK k \in Differ : \A m \in Differ : k <= m
      <4>1. j \in Differ /\ Differ \subseteq 1 .. n
        BY <2>2
      <4> HIDE DEF Differ
      <4>2. Differ \subseteq Nat
        BY <4>1
      <4>3. QED
        BY <4>1, <4>2, Least
    <3>2. k # 1
      BY <1>1, <1>2, <3>1
    <3>3. k - 1 \in 1 .. n /\ ~(k <= k - 1)
      BY <3>1, <3>2
    <3>4. c[k - 1] = s[k - 1]
      BY <3>1, <3>3
    <3>5. c[k] = d[c[k - 1]].next
      BY <1>2, <3>1, <3>2
    <3>6. s[k] = d[s[k - 1]].next
      BY <1>1, <3>1, <3>2
    <3>7. QED
      BY <3>1, <3>4, <3>5, <3>6
  <2>3. QED
    BY <2>1, <2>2
<1>3. Links(n, h, d) = CHOOSE c : Eq(c)
  BY DEF Links
<1> HIDE DEF Eq
<1>4. QED
  BY <1>1, <1>2, <1>3

\* What the links of a queue that is not empty compute, and its jobs in order.
LEMMA ChainIs ==
  ASSUME QueueInv
  PROVE  \E s \in [1 .. Cardinality(waiting) -> waiting] :
           /\ waiting # {} => IsList(s, waiting, head, tail, decoding)
           /\ Chain = [k \in 1 .. Cardinality(waiting) |-> decoding[s[k]].job]
<1>1. PICK n \in Nat : n = Cardinality(waiting)
  BY WaitingFinite DEF QueueInv
<1>2. waiting # {} <=> n >= 1
  BY <1>1, WaitingFinite, FS_EmptySet DEF QueueInv
<1>3. PICK s \in [1 .. n -> waiting] :
        waiting # {} => IsList(s, waiting, head, tail, decoding)
  <2>1. CASE waiting = {}
    <3> DEFINE none == [k \in 1 .. n |-> head]
    <3>1. none \in [1 .. n -> waiting]
      BY <1>2, <2>1
    <3>2. QED
      BY <2>1, <3>1
  <2>2. QED
    BY <1>1, <2>1 DEF QueueInv, WaitingListLinked
<1>4. /\ n >= 1 => s[1] = head
      /\ \A k \in 1 .. n - 1 : decoding[s[k]].next = s[k + 1]
  BY <1>1, <1>2, <1>3 DEF IsList
<1>5. Links(n, head, decoding) = s
  BY <1>4, LinksAre
<1>6. Chain = [k \in 1 .. n |-> decoding[s[k]].job]
  BY <1>1, <1>5 DEF Chain
<1>7. QED
  BY <1>1, <1>3, <1>6

\* The jobs of the next state, when a sequence follows its links.
LEMMA ChainBecomes ==
  ASSUME NEW n \in Nat, NEW T, NEW r \in [1 .. n -> T],
         n >= 1 => r[1] = head',
         \A k \in 1 .. n - 1 : decoding'[r[k]].next = r[k + 1]
  PROVE  Cardinality(waiting') = n =>
           Chain' = [k \in 1 .. n |-> decoding'[r[k]].job]
<1>1. Links(n, head', decoding') = r
  BY LinksAre
<1>2. QED
  BY <1>1 DEF Chain

\* A slot that a thread works on has a job, and so has one about to be linked.
SlotsHaveJobs ==
  /\ \A i \in InUse \ {None} : decoding[i].job \in Jobs
  /\ \A t \in Threads : pc[t] = "add_link" => decoding[index[t]].job \in Jobs

LEMMA JobsStep ==
  ASSUME QueueInv, SlotsHaveJobs, [Next]_vars
  PROVE  SlotsHaveJobs'
<1>1. \A i \in InUse \ {None} : i \in Slots /\ decoding'[i].job \in Jobs
  BY JobsKept DEF SlotsHaveJobs, QueueInv, InUse, TypeOK, Held
<1>2. ASSUME NEW t \in Threads, Step(t)
      PROVE  SlotsHaveJobs'
  <2> USE DEF Enter
  <2>1. CASE GetTake(t)
    <3>1. head \in waiting
      BY <2>1, ListEnds DEF QueueInv, GetTake
    <3>2. InUse' \subseteq InUse
      BY <2>1, <3>1 DEF GetTake, InUse, Held, QueueInv, TypeOK
    <3>3. \A u \in Threads : pc'[u] # "add_link"
      BY <2>1, EnterFacts DEF GetTake, QueueInv, TypeOK
    <3>4. QED
      BY <1>1, <3>2, <3>3 DEF SlotsHaveJobs
  <2>2. CASE GetMark(t)
    <3>1. InUse' \subseteq InUse
      BY <2>2 DEF GetMark, InUse, Held, QueueInv, TypeOK
    <3>2. \A u \in Threads : pc'[u] # "add_link"
      BY <2>2, InsideFacts DEF GetMark, QueueInv, TypeOK
    <3>3. QED
      BY <1>1, <3>1, <3>2 DEF SlotsHaveJobs
  <2>3. CASE GetEmpty(t) \/ AddFull(t) \/ Unlock(t) \/ \E j \in Jobs, i \in Slots \cup {None} : FindScan(t, j, i)
    <3>1. InUse' \subseteq InUse
      BY <2>3 DEF GetEmpty, AddFull, Unlock, FindScan, InUse, Held, QueueInv, TypeOK
    <3>2. \A u \in Threads : pc'[u] = "add_link" => pc[u] = "add_link" /\ index'[u] = index[u]
      BY <2>3 DEF GetEmpty, AddFull, Unlock, FindScan, QueueInv, TypeOK
    <3>3. decoding' = decoding
      BY <2>3 DEF GetEmpty, AddFull, Unlock, FindScan
    <3>4. QED
      BY <1>1, <3>1, <3>2, <3>3 DEF SlotsHaveJobs
  <2>4. CASE AddLink(t)
    <3>1. InUse' \subseteq InUse \cup {index[t]}
      BY <2>4 DEF AddLink, InUse, Held, QueueInv, TypeOK
    <3>2. \A u \in Threads : pc'[u] # "add_link"
      BY <2>4, InsideFacts DEF AddLink, QueueInv, TypeOK
    <3>3. index[t] \in Slots /\ decoding[index[t]].job \in Jobs
      BY <2>4 DEF AddLink, SlotsHaveJobs, QueueInv, InHand
    <3>4. decoding'[index[t]].job = decoding[index[t]].job
      BY <2>4, <3>3 DEF AddLink, QueueInv, TypeOK
    <3>5. QED
      BY <1>1, <3>1, <3>2, <3>3, <3>4 DEF SlotsHaveJobs
  <2>5. CASE \E j \in Jobs : AddSlot(t, j)
    <3>1. PICK j \in Jobs, e \in Free :
            /\ decoding' = [decoding EXCEPT ![e] = [job |-> j, next |-> None]]
            /\ index' = [index EXCEPT ![t] = e]
      BY <2>5 DEF AddSlot
    <3>2. InUse' \subseteq InUse
      BY <2>5 DEF AddSlot, InUse, Held, QueueInv, TypeOK
    <3>3. \A u \in Threads : pc'[u] = "add_link" => u = t
      BY <2>5, EnterFacts DEF AddSlot, QueueInv, TypeOK
    <3>4. decoding'[index'[t]].job = j
      BY <3>1 DEF QueueInv, TypeOK, Free
    <3>5. QED
      BY <1>1, <3>2, <3>3, <3>4 DEF SlotsHaveJobs
  <2>6. CASE Remove(t)
    <3>1. InUse' \subseteq InUse \cup {None}
      BY <2>6 DEF Remove, InUse, Held, QueueInv, TypeOK
    <3>2. \A u \in Threads : pc'[u] # "add_link"
      BY <2>6, EnterFacts DEF Remove, QueueInv, TypeOK
    <3>3. QED
      BY <1>1, <3>1, <3>2 DEF SlotsHaveJobs
  <2>7. QED
    BY <1>2, <2>1, <2>2, <2>3, <2>4, <2>5, <2>6 DEF Step
<1>3. CASE UNCHANGED vars
  BY <1>3 DEF vars, SlotsHaveJobs, InUse, Held
<1>4. QED
  BY <1>2, <1>3 DEF Next

LEMMA JobsInit == Init => SlotsHaveJobs
  BY DEF Init, create_decoding_queue, SlotsHaveJobs, InUse, Held
-----------------------------------------------------------------------------
(* The queue implements JobFifo *)

\* A step that keeps the jobs and the links of the list keeps the order.
LEMMA ChainFrame ==
  ASSUME QueueInv, waiting' = waiting, waiting # {} => head' = head,
         \A i \in waiting : decoding'[i] = decoding[i]
  PROVE  Chain' = Chain
<1>1. PICK n \in Nat : n = Cardinality(waiting)
  BY WaitingFinite DEF QueueInv
<1>2. PICK s \in [1 .. n -> waiting] :
        /\ waiting # {} => IsList(s, waiting, head, tail, decoding)
        /\ Chain = [k \in 1 .. n |-> decoding[s[k]].job]
  BY <1>1, ChainIs
<1>3. n >= 1 => waiting # {}
  BY <1>1, WaitingFinite, FS_EmptySet DEF QueueInv
<1>4. n >= 1 => s[1] = head'
  BY <1>1, <1>2, <1>3 DEF IsList
<1>5. \A k \in 1 .. n : decoding'[s[k]] = decoding[s[k]]
  BY <1>2
<1>6. \A k \in 1 .. n - 1 : decoding'[s[k]].next = s[k + 1]
  BY <1>1, <1>2, <1>3, <1>5 DEF IsList
<1>7. Chain' = [k \in 1 .. n |-> decoding'[s[k]].job]
  <2>1. Cardinality(waiting') = n => Chain' = [k \in 1 .. n |-> decoding'[s[k]].job]
    BY <1>4, <1>6, ChainBecomes
  <2>2. QED
    BY <1>1, <2>1
<1>8. QED
  BY <1>2, <1>5, <1>7

\* A step in which every thread keeps what it holds changes no running job.
LEMMA RunningFrame ==
  ASSUME QueueInv, [Next]_vars, \A u \in Threads : Held(u)' = Held(u)
  PROVE  Running' = Running
<1>1. \A u \in Threads : Held(u) # None => decoding'[Held(u)].job = decoding[Held(u)].job
  BY JobsKept DEF InUse
<1>2. QED
  BY <1>1 DEF Running

LEMMA HeadAndTail ==
  ASSUME NEW S, NEW q \in Seq(S), NEW n \in Nat, Len(q) = n, n >= 1
  PROVE  /\ q # << >> /\ Head(q) = q[1]
         /\ Tail(q) = [k \in 1 .. n - 1 |-> q[k + 1]]
<1>1. q # << >>
  OBVIOUS
<1>2. Head(q) = q[1]
  BY <1>1
<1>3. Tail(q) = [k \in 1 .. n - 1 |-> q[k + 1]]
  <2>1. /\ Tail(q) \in Seq(S) /\ Len(Tail(q)) = n - 1
        /\ \A i \in 1 .. n - 1 : Tail(q)[i] = q[i + 1]
    BY <1>1, HeadTailProperties
  <2>2. PICK r \in Seq(S) : r = Tail(q)
    BY <2>1
  <2>3. r = [k \in 1 .. n - 1 |-> r[k]]
    <3>1. r \in [1 .. Len(r) -> S] /\ Len(r) = n - 1
      BY <2>1, <2>2, LenProperties
    <3>2. QED
      BY <3>1
  <2>4. QED
    BY <2>1, <2>2, <2>3
<1>4. QED
  BY <1>1, <1>2, <1>3

\* get_decoding_job_queue hands out the job that was added first.
LEMMA TakeIsTake ==
  ASSUME QueueInv, SlotsHaveJobs, NEW t \in Threads, GetTake(t)
  PROVE  Fifo!Take(t)
<1>1. PICK n \in Nat : n = Cardinality(waiting)
  BY WaitingFinite DEF QueueInv
<1>2. n >= 1 /\ waiting # {} /\ head \in waiting /\ head # None
  BY <1>1, WaitingFinite, ListEnds, SlotsFacts DEF QueueInv, TypeOK, GetTake
<1>3. PICK s \in [1 .. n -> waiting] :
        /\ IsList(s, waiting, head, tail, decoding)
        /\ Chain = [k \in 1 .. n |-> decoding[s[k]].job]
  BY <1>1, <1>2, ChainIs
<1>4. s[1] = head /\ \A k \in 1 .. n - 1 : decoding[s[k]].next = s[k + 1]
  BY <1>1, <1>3 DEF IsList
<1>5. head' = decoding[head].next /\ decoding' = decoding /\ waiting' = waiting \ {head}
  BY DEF GetTake
<1> DEFINE r == [k \in 1 .. n - 1 |-> s[k + 1]]
<1>6. Chain' = [k \in 1 .. n - 1 |-> decoding[s[k + 1]].job]
  <2>1. r \in [1 .. n - 1 -> waiting] /\ \A k \in 1 .. n - 1 : r[k] = s[k + 1]
    BY <1>2
  <2>2. n - 1 \in Nat
    BY <1>2
  <2>3. n - 1 >= 1 => r[1] = head'
    BY <1>4, <1>5, <2>1
  <2>4. \A k \in 1 .. (n - 1) - 1 : decoding'[r[k]].next = r[k + 1]
    <3> TAKE k \in 1 .. (n - 1) - 1
    <3>1. k \in 1 .. n - 1 /\ k + 1 \in 1 .. n - 1
      BY <1>2
    <3>2. QED
      BY <1>4, <1>5, <2>1, <3>1
  <2>5. Cardinality(waiting') = n - 1
    BY <1>1, <1>2, <1>5, WaitingFinite, FS_RemoveElement DEF QueueInv
  <2> HIDE DEF r
  <2>6. Cardinality(waiting') = n - 1 =>
          Chain' = [k \in 1 .. n - 1 |-> decoding'[r[k]].job]
    BY <2>1, <2>2, <2>3, <2>4, ChainBecomes
  <2>7. QED
    BY <1>5, <2>1, <2>5, <2>6
<1>7. Chain # << >> /\ Chain' = Tail(Chain) /\ Head(Chain) = decoding[head].job
  <2>1. Chain \in Seq(Jobs) /\ Len(Chain) = n
    <3>1. \A k \in 1 .. n : decoding[s[k]].job \in Jobs
      BY <1>3, SlotsFacts DEF SlotsHaveJobs, InUse, QueueInv, TypeOK
    <3>2. QED
      BY <1>3, <3>1
  <2>2. /\ Chain # << >> /\ Head(Chain) = Chain[1]
        /\ Tail(Chain) = [k \in 1 .. n - 1 |-> Chain[k + 1]]
    BY <1>2, <2>1, HeadAndTail
  <2>3. Chain[1] = decoding[head].job
    BY <1>2, <1>3, <1>4
  <2>4. \A k \in 1 .. n - 1 : Chain[k + 1] = decoding[s[k + 1]].job
    BY <1>3
  <2>5. Tail(Chain) = Chain'
    BY <1>6, <2>2, <2>4
  <2>6. QED
    BY <2>2, <2>3, <2>5
<1>8. Running[t] = NoJob /\ Running' = [Running EXCEPT ![t] = decoding[head].job]
  <2>1. Held(t) = None /\ Held(t)' = head
    BY EnterFacts DEF GetTake, Held, QueueInv, TypeOK
  <2>2. \A u \in Threads : u # t => Held(u)' = Held(u)
    BY EnterFacts DEF GetTake, Held, QueueInv, TypeOK
  <2>3. QED
    BY <1>2, <1>5, <2>1, <2>2 DEF Running
<1>9. QED
  BY <1>7, <1>8 DEF Fifo!Take

\* add_decoding_job_queue puts its job behind the others.
LEMMA LinkIsSubmit ==
  ASSUME QueueInv, SlotsHaveJobs, NEW t \in Threads, AddLink(t)
  PROVE  Fifo!Submit(decoding[index[t]].job)
<1> DEFINE e == index[t]
<1>1. PICK n \in Nat : n = Cardinality(waiting)
  BY WaitingFinite DEF QueueInv
<1>2. n >= 1 <=> waiting # {}
  BY <1>1, WaitingFinite, FS_EmptySet DEF QueueInv
<1>3. PICK s \in [1 .. n -> waiting] :
        /\ waiting # {} => IsList(s, waiting, head, tail, decoding)
        /\ Chain = [k \in 1 .. n |-> decoding[s[k]].job]
  BY <1>1, ChainIs
<1>4. /\ e \in Slots /\ e \notin waiting /\ e \notin working
      /\ waiting = {} => head = e
      /\ decoding[e].job \in Jobs
  BY DEF QueueInv, InHand, SlotsHaveJobs, AddLink
<1>5. /\ waiting' = waiting \cup {e} /\ head' = head
      /\ decoding' = IF tail = None THEN decoding ELSE [decoding EXCEPT ![tail].next = e]
  BY DEF AddLink
<1>6. \A i \in Slots : decoding'[i].job = decoding[i].job
  BY <1>4, <1>5 DEF QueueInv, TypeOK
<1> DEFINE r == [k \in 1 .. n + 1 |-> IF k <= n THEN s[k] ELSE e]
<1>7. /\ r \in [1 .. n + 1 -> Slots]
      /\ \A k \in 1 .. n : r[k] = s[k]
      /\ r[n + 1] = e
  BY <1>4 DEF QueueInv, TypeOK
<1> HIDE DEF r
<1>8. r[1] = head'
  BY <1>1, <1>2, <1>3, <1>4, <1>5, <1>7 DEF IsList
<1>9. \A k \in 1 .. n : decoding'[r[k]].next = r[k + 1]
  <2> TAKE k \in 1 .. n
  <2>0. IsList(s, waiting, head, tail, decoding) /\ tail \in waiting /\ tail # None
    BY <1>2, <1>3, ListEnds, SlotsFacts DEF QueueInv, TypeOK
  <2>1. CASE k = n
    <3>1. r[k] = tail
      BY <1>1, <1>7, <2>0, <2>1 DEF IsList
    <3>2. decoding'[tail].next = e
      BY <1>5, <2>0 DEF QueueInv, TypeOK
    <3>3. QED
      BY <1>7, <2>1, <3>1, <3>2
  <2>2. CASE k # n
    <3>1. k \in 1 .. n - 1 /\ k + 1 \in 1 .. n /\ n \in 1 .. n
      BY <2>2
    <3>2. decoding[s[k]].next = s[k + 1] /\ s[n] = tail /\ s[k] # s[n]
      BY <1>1, <2>0, <2>2, <3>1 DEF IsList
    <3>3. decoding'[s[k]] = decoding[s[k]]
      BY <1>5, <2>0, <3>2 DEF QueueInv, TypeOK
    <3>4. QED
      BY <1>7, <3>1, <3>2, <3>3
  <2>3. QED
    BY <2>1, <2>2
<1>10. Chain' = [k \in 1 .. n + 1 |-> decoding'[r[k]].job]
  <2>1. PICK m \in Nat : m = n + 1 /\ m - 1 = n
    OBVIOUS
  <2>2. Cardinality(waiting') = n + 1
    BY <1>1, <1>4, <1>5, WaitingFinite, FS_AddElement DEF QueueInv
  <2>3. r \in [1 .. m -> Slots] /\ \A k \in 1 .. m - 1 : decoding'[r[k]].next = r[k + 1]
    BY <1>7, <1>9, <2>1
  <2>4. Cardinality(waiting') = m =>
          Chain' = [k \in 1 .. m |-> decoding'[r[k]].job]
    BY <1>8, <2>3, ChainBecomes
  <2>5. QED
    BY <2>1, <2>2, <2>4
<1>11. Chain \in Seq(Jobs) /\ Len(Chain) = n
  <2>1. \A k \in 1 .. n : decoding[s[k]].job \in Jobs
    BY <1>3, SlotsFacts DEF SlotsHaveJobs, InUse, QueueInv, TypeOK
  <2>2. QED
    BY <1>3, <2>1
<1>12. Chain' = Append(Chain, decoding[e].job)
  <2>1. \A k \in 1 .. n : decoding'[r[k]].job = decoding[s[k]].job
    BY <1>6, <1>7
  <2>2. decoding'[r[n + 1]].job = decoding[e].job
    BY <1>4, <1>6, <1>7
  <2>3. QED
    BY <1>3, <1>10, <1>11, <2>1, <2>2
<1>13. \A u \in Threads : Held(u)' = Held(u) /\ Held(u) # e
  BY <1>4, InsideFacts, SlotsFacts DEF QueueInv, TypeOK, Held, TakenIsWorking, AddLink
<1>14. Running' = Running
  BY <1>13, RunningFrame DEF Next, Step
<1>15. n + Cardinality(Fifo!Busy) < NumSlots
  <2> DEFINE used == waiting \cup {e}
             rest == Slots \ used
             holds == [u \in Fifo!Busy |-> Held(u)]
  <2>1. \A u \in Fifo!Busy : u \in Threads /\ Held(u) # None
    BY DEF Fifo!Busy, Running
  <2>2. \A u \in Threads : Held(u) \in Slots \cup {None} /\ Held(u) \notin waiting
    BY DEF QueueInv, TypeOK, Held, WorkingHasOneThread
  <2>3. holds \in Injection(Fifo!Busy, rest)
    <3>1. holds \in [Fifo!Busy -> rest]
      BY <1>13, <2>1, <2>2
    <3>2. \A u, v \in Fifo!Busy : holds[u] = holds[v] => u = v
      BY <2>1 DEF QueueInv, WorkingHasOneThread
    <3>3. QED
      BY <3>1, <3>2 DEF Injection, IsInjective
  <2>4. IsFiniteSet(Slots) /\ Cardinality(Slots) = NumSlots
    BY NumSlotsAssumption, FS_Interval DEF Slots
  <2>5. IsFiniteSet(used) /\ Cardinality(used) = n + 1
    BY <1>1, <1>4, WaitingFinite, FS_AddElement DEF QueueInv
  <2>6. IsFiniteSet(rest)
    BY <2>4, FS_Subset
  <2>7. used \cup rest = Slots /\ used \cap rest = {}
    BY <1>4 DEF QueueInv, TypeOK
  <2> HIDE DEF used, rest, holds
  <2>8. Cardinality(rest) = NumSlots - (n + 1)
    <3>1. Cardinality(Slots) = Cardinality(used) + Cardinality(rest) - Cardinality({})
      BY <2>5, <2>6, <2>7, FS_Union
    <3>2. Cardinality({}) = 0 /\ Cardinality(rest) \in Nat
      BY <2>6, FS_EmptySet, FS_CardinalityType
    <3>3. QED
      BY <2>4, <2>5, <3>1, <3>2, NumSlotsAssumption
  <2>9. IsFiniteSet(Fifo!Busy) /\ Cardinality(Fifo!Busy) <= Cardinality(rest)
    BY <2>3, <2>6, FS_Injection
  <2>10. Cardinality(Fifo!Busy) \in Nat
    BY <2>9, FS_CardinalityType
  <2>11. QED
    BY <2>8, <2>9, <2>10, NumSlotsAssumption
<1>16. Len(Chain) + Cardinality(Fifo!Busy) < NumSlots
  BY <1>11, <1>15
<1>17. PICK j : j = decoding[e].job
  OBVIOUS
<1>18. Len(Chain) + Fifo!Cardinality(Fifo!Busy) < NumSlots
  <2>1. \A S : Fifo!Cardinality(S) = Cardinality(S)
    BY DEF Fifo!Cardinality, Cardinality
  <2>2. QED
    BY <1>16, <2>1
<1>19. Fifo!Submit(j)
  BY <1>12, <1>14, <1>17, <1>18 DEF Fifo!Submit
<1>20. QED
  BY <1>17, <1>19

\* remove_from_queue ends what its thread runs.
LEMMA RemoveIsFinish ==
  ASSUME QueueInv, SlotsHaveJobs, NEW t \in Threads, Remove(t)
  PROVE  Fifo!Finish(t)
<1>1. /\ Held(t) = taken[t] /\ taken[t] # None /\ Held(t)' = None
      /\ \A u \in Threads : u # t => Held(u)' = Held(u)
  BY EnterFacts DEF Remove, Held, QueueInv, TypeOK
<1>2. decoding' = decoding /\ waiting' = waiting /\ head' = head
  BY DEF Remove
<1>3. Running[t] # NoJob
  BY <1>1, NoJobAssumption DEF Running, SlotsHaveJobs, InUse
<1>4. Running' = [Running EXCEPT ![t] = NoJob]
  BY <1>1, <1>2 DEF Running
<1>5. Chain' = Chain
  BY <1>2, ChainFrame
<1>6. QED
  BY <1>3, <1>4, <1>5 DEF Fifo!Finish

\* The other statements change nothing that JobFifo knows of.
LEMMA OthersStutter ==
  ASSUME QueueInv, NEW t \in Threads, Step(t),
         ~ GetTake(t), ~ AddLink(t), ~ Remove(t)
  PROVE  UNCHANGED Fifo!vars
<1>1. CASE \E j \in Jobs : AddSlot(t, j)
  <2>1. PICK j \in Jobs, e \in Free :
          /\ decoding' = [decoding EXCEPT ![e] = [job |-> j, next |-> None]]
          /\ head' = IF waiting = {} THEN e ELSE head
    BY <1>1 DEF AddSlot
  <2>2. waiting' = waiting /\ \A i \in waiting : decoding'[i] = decoding[i]
    BY <1>1, <2>1 DEF AddSlot, Free, QueueInv, TypeOK
  <2>3. Chain' = Chain
    BY <2>1, <2>2, ChainFrame
  <2>4. \A u \in Threads : Held(u)' = Held(u)
    BY <1>1, EnterFacts DEF AddSlot, Held, QueueInv, TypeOK
  <2>5. QED
    BY <2>3, <2>4, RunningFrame DEF Next, Fifo!vars
<1>2. CASE ~ \E j \in Jobs : AddSlot(t, j)
  <2>1. head' = head /\ waiting' = waiting /\ decoding' = decoding
    BY <1>2 DEF Step, GetMark, GetEmpty, AddFull, FindScan, Unlock
  <2>2. Chain' = Chain
    BY <2>1, ChainFrame
  <2>3. \A u \in Threads : Held(u)' = Held(u)
    <3>1. CASE GetMark(t)
      BY <3>1, InsideFacts DEF GetMark, Held, QueueInv, TypeOK
    <3>2. CASE Unlock(t)
      BY <3>2 DEF Unlock, Held, QueueInv, TypeOK
    <3>3. CASE GetEmpty(t) \/ AddFull(t) \/ \E j \in Jobs, i \in Slots \cup {None} : FindScan(t, j, i)
      BY <3>3 DEF GetEmpty, AddFull, FindScan, Enter, Held, QueueInv, TypeOK
    <3>4. QED
      BY <1>2, <3>1, <3>2, <3>3 DEF Step
  <2>4. QED
    BY <2>2, <2>3, RunningFrame DEF Next, Fifo!vars
<1>3. QED
  BY <1>1, <1>2

LEMMA FifoInit == Init => Fifo!Init
<1> SUFFICES ASSUME Init PROVE Fifo!Init
  OBVIOUS
<1>1. waiting = {} /\ Cardinality({}) = 0
  BY FS_EmptySet DEF Init, create_decoding_queue
<1>2. Chain = << >>
  BY <1>1 DEF Chain
<1>3. Running = [t \in Threads |-> NoJob]
  BY DEF Init, Running, Held
<1>4. QED
  BY <1>2, <1>3 DEF Fifo!Init

LEMMA FifoStep ==
  ASSUME QueueInv, SlotsHaveJobs, [Next]_vars
  PROVE  [Fifo!Next]_(Fifo!vars)
<1>1. ASSUME NEW t \in Threads, Step(t)
      PROVE  [Fifo!Next]_(Fifo!vars)
  <2>1. CASE GetTake(t)
    BY <2>1, TakeIsTake DEF Fifo!Next
  <2>2. CASE AddLink(t)
    <3>1. decoding[index[t]].job \in Jobs
      BY <2>2 DEF SlotsHaveJobs, AddLink
    <3>2. QED
      BY <2>2, <3>1, LinkIsSubmit DEF Fifo!Next
  <2>3. CASE Remove(t)
    BY <2>3, RemoveIsFinish DEF Fifo!Next
  <2>4. QED
    BY <1>1, <2>1, <2>2, <2>3, OthersStutter
<1>2. CASE UNCHANGED vars
  <2>1. Chain' = Chain
    BY <1>2, ChainFrame DEF vars
  <2>2. Running' = Running
    BY <1>2, RunningFrame DEF vars, Held
  <2>3. QED
    BY <2>1, <2>2 DEF Fifo!vars
<1>3. QED
  BY <1>1, <1>2 DEF Next

\* For any number of threads and slots the queue implements JobFifo: whatever
\* add_decoding_job_queue, get_decoding_job_queue and remove_from_queue do to
\* masks and links, jobs are handed out in the order in which they were added,
\* each to one thread, and a running job stays what it is.
THEOREM QueueIsFifo == Spec => ImplementsFifo
<1>1. QueueInv /\ SlotsHaveJobs /\ [Next]_vars => SlotsHaveJobs' /\ [Fifo!Next]_(Fifo!vars)
  BY JobsStep, FifoStep
<1>2. QED
  BY <1>1, JobsInit, FifoInit, QueueInvariant, PTL DEF Spec, ImplementsFifo, Fifo!Spec
=============================================================================
