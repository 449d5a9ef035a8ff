------------------------- MODULE Transcoder_proofs -------------------------
(***************************************************************************)
(* What holds of requests and encoder threads for every number of them,    *)
(* of jobs and of slots, proved with TLAPS.  First, that they use the      *)
(* queue as DecodingQueue specifies; from then on what is proved of the    *)
(* queue in DecodingQueue_proofs holds here too and is cited as QP.        *)
(***************************************************************************)
EXTENDS Transcoder, FiniteSetTheorems, TLAPS

QP == INSTANCE DecodingQueue_proofs

(* The transcoder uses the queue as it is specified *)

\* A request that is at work knows its job.
Asking ==
  /\ at \in [Threads -> RequestAt \cup EncoderAt]
  /\ job \in [Requests -> Jobs \cup {NoJob}]
  /\ \A r \in Requests : at[r] # "idle" => job[r] \in Jobs

LEMMA AskingInit == Init => Asking
  BY ThreadsAssumption DEF Init, Asking, RequestAt, EncoderAt, Threads

\* Encoder threads have nothing to do with it.
LEMMA AskingEncoder ==
  ASSUME Asking, NEW e \in Encoders, EncoderStep(e)
  PROVE  Asking'
<1>1. job' = job
  BY DEF EncoderStep, Start, GetTake, GetMark, GetEmpty, Prepare, Encode, EncodeForever, Close,
         InsertSource, InsertLink, Remove, Stop, Unlock, answer
<1>2. at' = at \/ \E label \in EncoderAt : at' = [at EXCEPT ![e] = label]
  BY DEF EncoderStep, Start, GetTake, GetMark, GetEmpty, Prepare, Encode, EncodeForever, Close,
         InsertSource, InsertLink, Remove, Stop, Unlock, answer, Goto, EncoderAt
<1>3. e \in Threads /\ \A r \in Requests : r \in Threads /\ r # e
  BY ThreadsAssumption DEF Threads
<1>4. \A r \in Requests : at'[r] = at[r]
  BY <1>2, <1>3 DEF Asking
<1>5. at' \in [Threads -> RequestAt \cup EncoderAt]
  BY <1>2, <1>3 DEF Asking
<1>6. QED
  BY <1>1, <1>4, <1>5 DEF Asking

LEMMA AskingRequest ==
  ASSUME Asking, NEW r \in Requests, RequestStep(r)
  PROVE  Asking'
<1> USE DEF Goto, RequestAt, EncoderAt, Threads, answer
<1>1. job' = job /\ (at[r] # "idle" \/ at' = at)
  BY DEF RequestStep, CheckDb, Exists, AddSlot, AddLink, AddFull, Spawn, Respond, Unlock
<1>2. CASE Spawn(r)
  BY <1>1, <1>2, ThreadsAssumption DEF Spawn, Asking
<1>3. CASE ~Spawn(r)
  <2>1. at' = at \/ \E label \in RequestAt : at' = [at EXCEPT ![r] = label]
    BY <1>3 DEF RequestStep, CheckDb, Exists, AddSlot, AddLink, AddFull, Respond, Unlock
  <2>2. QED
    BY <1>1, <2>1 DEF Asking
<1>4. QED
  BY <1>2, <1>3

LEMMA AskingStep == Asking /\ [Next]_vars => Asking'
<1> SUFFICES ASSUME Asking, [Next]_vars PROVE Asking'
  OBVIOUS
<1>1. CASE \E r \in Requests, j \in Jobs : Receive(r, j)
  BY <1>1 DEF Receive, Goto, Asking, RequestAt, Threads
<1>2. CASE \E r \in Requests : RequestStep(r)
  BY <1>2, AskingRequest
<1>3. CASE \E e \in Encoders : EncoderStep(e)
  BY <1>3, AskingEncoder
<1>4. CASE UNCHANGED vars
  BY <1>4 DEF vars, answer, Asking
<1>5. QED
  BY <1>1, <1>2, <1>3, <1>4 DEF Next

LEMMA AlwaysAsking == Spec => []Asking
  BY AskingInit, AskingStep, PTL DEF Spec

\* What a thread does to the queue is a step of the queue, or nothing.
LEMMA QueueSteps == Asking /\ [Next]_vars => [Q!Next]_(Q!vars)
<1> SUFFICES ASSUME Asking, [Next]_vars, ~UNCHANGED queue
             PROVE  \E t \in Threads : Q!Step(t)
  BY DEF queue, Q!vars, Q!Next
<1>1. CASE \E r \in Requests : RequestStep(r)
  <2>1. PICK r \in Requests : RequestStep(r)
    BY <1>1
  <2>2. r \in Threads
    BY DEF Threads
  <2>3. AddSlot(r) \/ AddLink(r) \/ AddFull(r) \/ Exists(r) \/ Unlock(r)
    BY <2>1 DEF RequestStep, CheckDb, Spawn, Respond
  <2>4. CASE AddSlot(r) \/ Exists(r)
    <3>1. job[r] \in Jobs
      BY <2>4 DEF AddSlot, Exists, Asking
    <3>2. QED
      BY <2>2, <2>4, <3>1 DEF AddSlot, Exists, Slots, None, Q!Step
  <2>5. QED
    BY <2>2, <2>3, <2>4 DEF AddLink, AddFull, Unlock, Q!Step
<1>2. CASE \E e \in Encoders : EncoderStep(e)
  <2>1. PICK e \in Encoders : EncoderStep(e)
    BY <1>2
  <2>2. e \in Threads
    BY DEF Threads
  <2>3. GetTake(e) \/ GetMark(e) \/ GetEmpty(e) \/ Remove(e) \/ Unlock(e)
    BY <2>1 DEF EncoderStep, Start, Prepare, Encode, EncodeForever, Close, InsertSource, InsertLink, Stop
  <2>4. QED
    BY <2>2, <2>3 DEF GetTake, GetMark, GetEmpty, Remove, Unlock, Q!Step
<1>3. QED
  BY <1>1, <1>2 DEF Next, Receive, vars

\* Whatever fails, requests and encoder threads do to the queue only what it allows:
\* every step of the transcoder is a step of DecodingQueue or leaves the queue alone.
THEOREM QueueIsUsedAsSpecified == Spec => UsesQueueAsSpecified
<1>1. Init => Q!Init
  BY DEF Init
<1>2. QED
  BY <1>1, AlwaysAsking, QueueSteps, PTL DEF Spec, UsesQueueAsSpecified, Q!Spec

-----------------------------------------------------------------------------
(* What is proved of the queue holds here *)

\* The queue that was used here and the one that was proved about are the same.
LEMMA SameQueueStep == [Q!Next]_(Q!vars) => [QP!Next]_(QP!vars)
<1>1. ASSUME NEW t \in Threads, Q!Step(t) PROVE QP!Step(t)
  <2> USE DEF Q!Enter, QP!Enter, Q!None, QP!None, Q!Slots, QP!Slots, Q!Free, QP!Free
  <2>1. Q!GetTake(t) => QP!GetTake(t)
    BY DEF Q!GetTake, QP!GetTake
  <2>2. Q!GetMark(t) => QP!GetMark(t)
    BY DEF Q!GetMark, QP!GetMark
  <2>3. Q!GetEmpty(t) => QP!GetEmpty(t)
    BY DEF Q!GetEmpty, QP!GetEmpty
  <2>4. Q!AddFull(t) => QP!AddFull(t)
    BY DEF Q!AddFull, QP!AddFull
  <2>5. Q!AddLink(t) => QP!AddLink(t)
    BY DEF Q!AddLink, QP!AddLink
  <2>6. \A j : Q!AddSlot(t, j) => QP!AddSlot(t, j)
    BY DEF Q!AddSlot, QP!AddSlot, Q!IsLowest, QP!IsLowest
  <2>7. \A j, i : Q!FindScan(t, j, i) => QP!FindScan(t, j, i)
    BY DEF Q!FindScan, QP!FindScan, Q!Matches, QP!Matches
  <2>8. Q!Remove(t) => QP!Remove(t)
    BY DEF Q!Remove, QP!Remove
  <2>9. Q!Unlock(t) => QP!Unlock(t)
    BY DEF Q!Unlock, QP!Unlock
  <2> HIDE DEF Q!Enter, QP!Enter, Q!None, QP!None, Q!Free, QP!Free
  <2>10. Slots = Q!Slots /\ Q!None = QP!None
    BY DEF Slots, Q!None, QP!None
  <2>11. QED
    BY <1>1, <2>1, <2>2, <2>3, <2>4, <2>5, <2>6, <2>7, <2>8, <2>9, <2>10 DEF Q!Step, QP!Step
<1>2. QED
  BY <1>1 DEF Q!Next, QP!Next, Q!vars, QP!vars

LEMMA SameQueue == Q!Spec => QP!Spec
<1>1. Q!Init => QP!Init
  BY DEF Q!Init, QP!Init, Q!create_decoding_queue, QP!create_decoding_queue,
         Q!Slots, QP!Slots, Q!None, QP!None
<1>2. QED
  BY <1>1, SameQueueStep, PTL DEF Q!Spec, QP!Spec

LEMMA QueueHolds == Spec => []QP!QueueInv
<1>1. NumSlots \in Nat \ {0} /\ NoJob \notin Jobs
  BY QueueAssumption
<1>2. QP!Spec => []QP!QueueInv
  BY <1>1, QP!QueueInvariant
<1>3. QED
  BY <1>2, SameQueue, QueueIsUsedAsSpecified, PTL DEF UsesQueueAsSpecified

\* The queue promises requests and encoder threads what JobFifo says: the jobs of
\* transcode_audio are run in the order in which they were added, each by one
\* encoder_thread at a time, and no request disturbs a job that runs.
THEOREM JobsRunInOrder == Spec => QP!ImplementsFifo
<1>1. NumSlots \in Nat \ {0} /\ NoJob \notin Jobs
  BY QueueAssumption
<1>2. QP!Spec => QP!ImplementsFifo
  BY <1>1, QP!QueueIsFifo
<1>3. QED
  BY <1>2, SameQueue, QueueIsUsedAsSpecified, PTL DEF UsesQueueAsSpecified

-----------------------------------------------------------------------------
(* No lost wake-up *)

\* The threads that have yet to look at the queue, and the requests that will start one.
Lookers == {e \in Encoders : at[e] \in {"start", "get"}}
Starters == {r \in Requests : at[r] = "spawn"}

LEMMA FiniteThreads ==
  /\ IsFiniteSet(Lookers) /\ Cardinality(Lookers) \in Nat
  /\ IsFiniteSet(Starters) /\ Cardinality(Starters) \in Nat
  BY FiniteAssumption, FS_Subset, FS_CardinalityType DEF Lookers, Starters

LEMMA FiniteWaiting ==
  ASSUME QP!QueueInv
  PROVE  IsFiniteSet(waiting) /\ Cardinality(waiting) \in Nat
<1>1. waiting \subseteq 0 .. NumSlots - 1
  BY DEF QP!QueueInv, QP!TypeOK, QP!Slots
<1>2. IsFiniteSet(0 .. NumSlots - 1)
  BY QueueAssumption, FS_Interval
<1>3. QED
  BY <1>1, <1>2, FS_Subset, FS_CardinalityType

\* The head of a list that is not empty waits.
LEMMA TakesHead ==
  ASSUME QP!QueueInv, NEW e \in Encoders, GetTake(e)
  PROVE  waiting' = waiting \ {head} /\ head \in waiting
<1>1. waiting' = waiting \ {head} /\ waiting # {}
  BY DEF GetTake, Q!GetTake
<1>2. NumSlots \in Nat \ {0} /\ NoJob \notin Jobs
  BY QueueAssumption
<1>3. QED
  BY <1>1, <1>2, QP!ListEnds DEF QP!QueueInv

\* A request brings its job and, in the same step, the thread it will start.
LEMMA WakesRequest ==
  ASSUME Asking, QP!QueueInv, WaitingJobHasEncoder, "spawn" \notin Faults,
         NEW r \in Requests, RequestStep(r)
  PROVE  WaitingJobHasEncoder'
<1> USE DEF Asking, Threads, Goto
<1>1. r \in Threads /\ r \notin Encoders
  BY ThreadsAssumption
<1>2. Cardinality(waiting) <= Cardinality(Lookers) + Cardinality(Starters)
  BY DEF WaitingJobHasEncoder, Lookers, Starters
<1>3. SUFFICES Cardinality(waiting') <= Cardinality(Lookers') + Cardinality(Starters')
  BY DEF WaitingJobHasEncoder, Lookers, Starters
<1>4. CASE AddLink(r)
  <2>1. Lookers' = Lookers
    BY <1>1, <1>4 DEF AddLink, Lookers
  <2>2. Starters' = Starters \cup {r} /\ r \notin Starters
    BY <1>1, <1>4 DEF AddLink, Starters
  <2>3. Cardinality(Starters') = Cardinality(Starters) + 1
    BY <2>2, FiniteThreads, FS_AddElement
  <2>4. \E i : waiting' = waiting \cup {i}
    BY <1>4 DEF AddLink, Q!AddLink
  <2>5. Cardinality(waiting') \in {Cardinality(waiting), Cardinality(waiting) + 1}
    <3>1. PICK i : waiting' = waiting \cup {i}
      BY <2>4
    <3>2. CASE i \in waiting
      <4>1. waiting' = waiting
        BY <3>1, <3>2
      <4>2. QED
        BY <4>1
    <3>3. CASE i \notin waiting
      BY <3>1, <3>3, FiniteWaiting, FS_AddElement
    <3>4. QED
      BY <3>2, <3>3
  <2>6. QED
    BY <1>2, <2>1, <2>3, <2>5, FiniteThreads, FiniteWaiting
<1>5. CASE Spawn(r)
  <2>1. PICK e \in Encoders : at[e] = "off" /\ at' = [at EXCEPT ![r] = "respond", ![e] = "start"]
    BY <1>5, BoundsAssumption DEF Spawn, num_decoding_threads
  <2>2. e \in Threads /\ e # r /\ at[r] = "spawn" /\ waiting' = waiting
    BY <1>1, <1>5, <2>1 DEF Spawn, queue
  <2>3. Lookers' = Lookers \cup {e} /\ e \notin Lookers
    BY <1>1, <2>1, <2>2 DEF Lookers
  <2>4. Starters' = Starters \ {r} /\ r \in Starters
    BY <1>1, <2>1, <2>2, ThreadsAssumption DEF Starters
  <2>5. Cardinality(Lookers') = Cardinality(Lookers) + 1
    BY <2>3, FiniteThreads, FS_AddElement
  <2>6. Cardinality(Starters') = Cardinality(Starters) - 1
    BY <2>4, FiniteThreads, FS_RemoveElement
  <2>7. QED
    BY <1>2, <2>2, <2>5, <2>6, FiniteThreads, FiniteWaiting
<1>6. CASE ~AddLink(r) /\ ~Spawn(r)
  <2>1. waiting' = waiting
    BY <1>6 DEF RequestStep, CheckDb, Exists, AddSlot, AddFull, Respond, Unlock, queue,
         Q!FindScan, Q!AddSlot, Q!AddFull, Q!Unlock
  <2>2. at' = at \/ (at[r] # "spawn"
                      /\ \E label : label # "spawn" /\ at' = [at EXCEPT ![r] = label])
    BY <1>6 DEF RequestStep, CheckDb, Exists, AddSlot, AddFull, Respond, Unlock
  <2>3. Lookers' = Lookers /\ Starters' = Starters
    BY <1>1, <2>2 DEF Lookers, Starters
  <2>4. QED
    BY <1>2, <2>1, <2>3
<1>7. QED
  BY <1>4, <1>5, <1>6

\* An encoder thread takes one job for its one look at the queue, or finds it empty.
LEMMA WakesEncoder ==
  ASSUME Asking, QP!QueueInv, WaitingJobHasEncoder, NEW e \in Encoders, EncoderStep(e)
  PROVE  WaitingJobHasEncoder'
<1> USE DEF Asking, Threads, Goto
<1>1. e \in Threads /\ e \notin Requests
  BY ThreadsAssumption
<1>2. Cardinality(waiting) <= Cardinality(Lookers) + Cardinality(Starters)
  BY DEF WaitingJobHasEncoder, Lookers, Starters
<1>3. SUFFICES Cardinality(waiting') <= Cardinality(Lookers') + Cardinality(Starters')
  BY DEF WaitingJobHasEncoder, Lookers, Starters
<1>4. Starters' = Starters
  <2>1. at' = at \/ \E label : at' = [at EXCEPT ![e] = label]
    BY DEF EncoderStep, Start, GetTake, GetMark, GetEmpty, Prepare, Encode, EncodeForever, Close,
       InsertSource, InsertLink, Remove, Stop, Unlock
  <2>2. \A r \in Requests : at'[r] = at[r]
    BY <1>1, <2>1
  <2>3. QED
    BY <2>2 DEF Starters
<1>5. CASE GetTake(e)
  <2>1. Lookers' = Lookers \ {e} /\ e \in Lookers
    BY <1>1, <1>5 DEF GetTake, Lookers
  <2>2. Cardinality(Lookers') = Cardinality(Lookers) - 1
    BY <2>1, FiniteThreads, FS_RemoveElement
  <2>3. waiting' = waiting \ {head} /\ head \in waiting
    BY <1>5, TakesHead
  <2>4. Cardinality(waiting') = Cardinality(waiting) - 1
    BY <2>3, FiniteWaiting, FS_RemoveElement
  <2>5. QED
    BY <1>2, <1>4, <2>2, <2>4, FiniteThreads, FiniteWaiting
<1>6. CASE GetEmpty(e)
  <2>1. waiting' = {}
    BY <1>6 DEF GetEmpty, Q!GetEmpty
  <2>2. Lookers' = Lookers \ {e}
    BY <1>1, <1>6 DEF GetEmpty, Lookers
  <2>3. Cardinality(Lookers') \in Nat
    BY <2>2, FiniteThreads, FS_Subset, FS_CardinalityType
  <2>4. QED
    BY <1>4, <2>1, <2>3, FiniteThreads, FS_EmptySet
<1>7. CASE ~GetTake(e) /\ ~GetEmpty(e)
  <2>1. waiting' = waiting
    BY <1>7 DEF EncoderStep, Start, GetMark, Prepare, Encode, EncodeForever, Close, InsertSource,
       InsertLink, Remove, Stop, Unlock, queue, Q!GetMark, Q!Remove, Q!Unlock
  <2>2. at' = at \/ (at[e] # "get" /\ \E label : at' = [at EXCEPT ![e] = label])
    BY <1>7 DEF EncoderStep, Start, GetMark, Prepare, Encode, EncodeForever, Close, InsertSource,
       InsertLink, Remove, Stop, Unlock
  <2>3. at[e] = "start" => at' = at \/ at' = [at EXCEPT ![e] = "get"]
    BY <1>7 DEF EncoderStep, Start, GetMark, Prepare, Encode, EncodeForever, Close, InsertSource,
       InsertLink, Remove, Stop, Unlock
  <2>4. Lookers' = Lookers \/ (e \notin Lookers /\ Lookers' = Lookers \cup {e})
    BY <1>1, <2>2, <2>3 DEF Lookers
  <2>5. Cardinality(Lookers') \in {Cardinality(Lookers), Cardinality(Lookers) + 1}
    BY <2>4, FiniteThreads, FS_AddElement, SMTT(30)
  <2>6. QED
    BY <1>2, <1>4, <2>1, <2>5, FiniteThreads, FiniteWaiting
<1>8. QED
  BY <1>5, <1>6, <1>7

\* While threads can be started, every job that waits has an encoder thread of its own
\* that will look at the queue, or the request that added it is about to start one: no
\* end of an encoder thread comes between an add and the thread started for it, and a
\* thread that encodes for ever leaves no job behind.
THEOREM NoLostWakeUp ==
  ASSUME "spawn" \notin Faults
  PROVE  Spec => []WaitingJobHasEncoder
<1>1. Init => WaitingJobHasEncoder
  <2> SUFFICES ASSUME Init PROVE WaitingJobHasEncoder
    OBVIOUS
  <2>1. waiting = {}
    BY DEF Init, Q!Init, Q!create_decoding_queue
  <2>2. Cardinality(waiting) = 0
    BY <2>1, FS_EmptySet
  <2>3. QED
    BY <2>2, FiniteThreads DEF WaitingJobHasEncoder, Lookers, Starters
<1>2. ASSUME Asking, WaitingJobHasEncoder, NEW r \in Requests, NEW j \in Jobs, Receive(r, j)
      PROVE  WaitingJobHasEncoder'
  <2>1. UNCHANGED <<waiting, Lookers, Starters>>
    BY <1>2, ThreadsAssumption DEF Receive, queue, Goto, Lookers, Starters, Asking, Threads
  <2>2. QED
    BY <1>2, <2>1 DEF WaitingJobHasEncoder, Lookers, Starters
<1>3. ASSUME UNCHANGED vars, WaitingJobHasEncoder PROVE WaitingJobHasEncoder'
  BY <1>3 DEF vars, queue, WaitingJobHasEncoder
<1>4. Asking /\ QP!QueueInv /\ WaitingJobHasEncoder /\ [Next]_vars => WaitingJobHasEncoder'
  BY <1>2, <1>3, WakesRequest, WakesEncoder DEF Next
<1>5. QED
  BY <1>1, <1>4, AlwaysAsking, QueueHolds, PTL DEF Spec

-----------------------------------------------------------------------------
(* What encoder threads hold, and what they have written *)

\* Between taking a job and clearing its mark a thread has the slot of the job.
Holding ==
  \A e \in Encoders :
    /\ pc[e] = "get_mark" => at[e] = "prepare"
    /\ at[e] = "prepare" => pc[e] = "get_mark" \/ taken[e] # None
    /\ at[e] \in {"encode", "endless", "close", "insert_source", "insert_link", "remove"} => taken[e] # None

\* Only one thread is between the two inserts.
DbHeld == \A e \in Encoders : at[e] = "insert_link" => db_lock = {e}

JobOf(e) == decoding[taken[e]].job

\* That thread has a source in advance.
Linked ==
  /\ LinkHasSource
  /\ \A e \in Encoders :
       at[e] = "insert_link" /\ JobOf(e) \in Jobs => links[JobOf(e)] < sources[JobOf(e)]

\* num_working_threads counts the threads between their start and their end.
Counted ==
  num_working_threads = Cardinality({e \in Encoders : at[e] \notin {"off", "start"}})

TranscoderInv == Asking /\ TypeOK /\ Counted /\ Holding /\ DbHeld /\ Linked

LEMMA TranscoderInit == Init => TranscoderInv
<1> SUFFICES ASSUME Init PROVE TranscoderInv
  OBVIOUS
<1> USE DEF Init
<1>1. Asking
  BY AskingInit
<1>2. {e \in Encoders : at[e] \notin {"off", "start"}} = {}
  BY ThreadsAssumption DEF Threads
<1>3. Counted
  BY <1>2, FS_EmptySet DEF Counted
<1>4. NumSlots \in Nat \ {0} /\ NoJob \notin Jobs
  BY QueueAssumption
<1>5. QP!Init
  BY DEF Q!Init, QP!Init, Q!create_decoding_queue, QP!create_decoding_queue,
         Q!Slots, QP!Slots, Q!None, QP!None
<1>6. QP!TypeOK
  BY <1>4, <1>5, QP!QueueInit DEF QP!QueueInv
<1>7. Q!TypeOK
  BY <1>6 DEF Q!TypeOK, QP!TypeOK, Q!Slots, QP!Slots, Q!None, QP!None
<1>8. num_working_threads \in 0 .. Cardinality(Encoders)
  BY FiniteAssumption, FS_CardinalityType
<1>9. TypeOK
  BY <1>1, <1>7, <1>8, ThreadsAssumption, BoundsAssumption
     DEF TypeOK, Asking, RequestAt, EncoderAt, Threads
<1>10. Holding /\ DbHeld /\ Linked
  BY ThreadsAssumption
     DEF Holding, DbHeld, Linked, LinkHasSource, Threads, Q!Init
<1>11. QED
  BY <1>1, <1>3, <1>9, <1>10 DEF TranscoderInv

\* Threads are counted up at their start and down at their end.
LEMMA CountedStep ==
  ASSUME TypeOK, Counted, [Next]_vars
  PROVE  Counted' /\ num_working_threads' \in 0 .. Cardinality(Encoders)
<1> DEFINE W == {e \in Encoders : at[e] \notin {"off", "start"}}
<1> USE DEF Goto, Threads
<1>1. \A S : S \subseteq Encoders => IsFiniteSet(S) /\ Cardinality(S) \in Nat
                                     /\ Cardinality(S) <= Cardinality(Encoders)
  BY FiniteAssumption, FS_Subset, FS_CardinalityType
<1>2. Cardinality(Encoders) \in Nat
  BY FiniteAssumption, FS_CardinalityType
<1>3. CASE \E e \in Encoders : Start(e)
  <2>1. PICK e \in Encoders : Start(e)
    BY <1>3
  <2>2. W' = W \cup {e} /\ e \notin W
    BY <2>1 DEF Start, TypeOK
  <2>3. Cardinality(W') = Cardinality(W) + 1
    BY <1>1, <2>2, FS_AddElement
  <2>4. QED
    BY <1>1, <1>2, <2>1, <2>3 DEF Start, Counted
<1>4. CASE \E e \in Encoders : Stop(e)
  <2>1. PICK e \in Encoders : Stop(e)
    BY <1>4
  <2>2. W' = W \ {e} /\ e \in W
    BY <2>1 DEF Stop, TypeOK
  <2>3. Cardinality(W') = Cardinality(W) - 1
    BY <1>1, <2>2, FS_RemoveElement
  <2>4. QED
    BY <1>1, <1>2, <2>1, <2>3 DEF Stop, Counted
<1>5. CASE ~(\E e \in Encoders : Start(e) \/ Stop(e))
  <2>1. num_working_threads' = num_working_threads
    BY <1>5 DEF Next, Receive, RequestStep, EncoderStep, CheckDb, Exists, AddSlot, AddLink, AddFull,
         Spawn, Respond, Unlock, GetTake, GetMark, GetEmpty, Prepare, Encode, EncodeForever, Close,
         InsertSource, InsertLink, Remove, vars
  <2>2. W' = W
    <3>1. CASE \E r \in Requests, j \in Jobs : Receive(r, j)
      BY <3>1, ThreadsAssumption DEF Receive, TypeOK
    <3>2. CASE \E r \in Requests : RequestStep(r)
      <4>1. PICK r \in Requests : RequestStep(r)
        BY <3>2
      <4>2. r \notin Encoders /\ r \in Threads
        BY ThreadsAssumption
      <4>3. CASE Spawn(r)
        BY <4>2, <4>3 DEF Spawn, TypeOK
      <4>4. CASE ~Spawn(r)
        <5>1. at' = at \/ \E label : at' = [at EXCEPT ![r] = label]
          BY <4>1, <4>4 DEF RequestStep, CheckDb, Exists, AddSlot, AddLink, AddFull, Respond, Unlock
        <5>2. QED
          BY <4>2, <5>1 DEF TypeOK
      <4>5. QED
        BY <4>3, <4>4
    <3>3. CASE \E e \in Encoders : EncoderStep(e)
      <4>1. PICK e \in Encoders : EncoderStep(e)
        BY <3>3
      <4>2. CASE at' = at
        BY <4>2
      <4>3. CASE at' # at
        <5>1. at[e] \notin {"off", "start"}
              /\ \E label : label \notin {"off", "start"} /\ at' = [at EXCEPT ![e] = label]
          BY <1>5, <4>1, <4>3 DEF EncoderStep, GetTake, GetMark, GetEmpty, Prepare, Encode, EncodeForever, Close,
             InsertSource, InsertLink, Remove, Unlock
        <5>2. QED
          BY <4>1, <5>1 DEF TypeOK
      <4>4. QED
        BY <4>2, <4>3
    <3>4. CASE UNCHANGED vars
      BY <3>4 DEF vars
    <3>5. QED
      BY <3>1, <3>2, <3>3, <3>4 DEF Next
  <2>3. QED
    BY <2>1, <2>2 DEF Counted, TypeOK
<1>6. QED
  BY <1>3, <1>4, <1>5

\* A step of another thread leaves an encoder thread where it is, or starts it.
LEMMA OthersKeep ==
  ASSUME TypeOK, [Next]_vars, NEW e \in Encoders, ~EncoderStep(e)
  PROVE  /\ at'[e] = at[e] \/ (at[e] = "off" /\ at'[e] = "start")
         /\ pc'[e] = pc[e] /\ taken'[e] = taken[e]
<1> USE DEF TypeOK, Goto, Threads, queue
<1>1. CASE \E r \in Requests, j \in Jobs : Receive(r, j)
  BY <1>1, ThreadsAssumption DEF Receive
<1>2. CASE \E r \in Requests : RequestStep(r)
  <2>1. PICK r \in Requests : RequestStep(r)
    BY <1>2
  <2>2. r # e /\ r \in Threads /\ e \in Threads
    BY ThreadsAssumption
  <2>3. pc'[e] = pc[e] /\ taken'[e] = taken[e]
    BY <2>1, <2>2 DEF RequestStep, CheckDb, Exists, AddSlot, AddLink, AddFull, Spawn, Respond, Unlock,
       Q!TypeOK, Q!FindScan, Q!AddSlot, Q!AddLink, Q!AddFull, Q!Unlock, Q!Enter
  <2>4. at'[e] = at[e] \/ (at[e] = "off" /\ at'[e] = "start")
    BY <2>1, <2>2 DEF RequestStep, CheckDb, Exists, AddSlot, AddLink, AddFull, Spawn, Respond, Unlock
  <2>5. QED
    BY <2>3, <2>4
<1>3. CASE \E f \in Encoders : EncoderStep(f)
  <2>1. PICK f \in Encoders : EncoderStep(f)
    BY <1>3
  <2>2. f # e /\ f \in Threads /\ e \in Threads
    BY <2>1
  <2>3. at'[e] = at[e]
    BY <2>1, <2>2 DEF EncoderStep, Start, GetTake, GetMark, GetEmpty, Prepare, Encode, EncodeForever, Close,
       InsertSource, InsertLink, Remove, Stop, Unlock
  <2>4. pc'[e] = pc[e] /\ taken'[e] = taken[e]
    BY <2>1, <2>2 DEF EncoderStep, Start, GetTake, GetMark, GetEmpty, Prepare, Encode, EncodeForever, Close,
       InsertSource, InsertLink, Remove, Stop, Unlock,
       Q!TypeOK, Q!GetTake, Q!GetMark, Q!GetEmpty, Q!Remove, Q!Unlock, Q!Enter
  <2>5. QED
    BY <2>3, <2>4
<1>4. CASE UNCHANGED vars
  BY <1>4 DEF vars
<1>5. QED
  BY <1>1, <1>2, <1>3, <1>4 DEF Next

\* A thread has a slot from the moment it marks it to the moment it clears the mark.
LEMMA HoldingStep ==
  ASSUME TypeOK, Holding, QP!QueueInv, [Next]_vars
  PROVE  Holding'
<1> SUFFICES ASSUME NEW e \in Encoders
             PROVE  /\ pc'[e] = "get_mark" => at'[e] = "prepare"
                    /\ at'[e] = "prepare" => pc'[e] = "get_mark" \/ taken'[e] # None
                    /\ at'[e] \in {"encode", "endless", "close", "insert_source", "insert_link", "remove"}
                         => taken'[e] # None
  BY DEF Holding, None, Q!None
<1> USE DEF Goto, Threads, queue
<1>1. CASE ~EncoderStep(e)
  BY <1>1, OthersKeep DEF Holding
<1>2. CASE GetTake(e)
  BY <1>2 DEF GetTake, Q!GetTake, Q!Enter, TypeOK, Q!TypeOK
<1>3. CASE GetMark(e)
  <2>1. pc[e] = "get_mark" /\ at'[e] = "prepare"
    BY <1>3 DEF GetMark, Q!GetMark, Holding
  <2>2. index[e] \in Slots
    BY <2>1 DEF QP!QueueInv, QP!InHand, Slots, Q!Slots, QP!Slots
  <2>3. index[e] # None
    BY <2>2 DEF Slots, Q!Slots, None, Q!None
  <2>4. pc'[e] = "unlock" /\ taken'[e] = index[e]
    BY <1>3 DEF GetMark, Q!GetMark, TypeOK, Q!TypeOK
  <2>5. QED
    BY <2>1, <2>3, <2>4
<1>4. CASE GetEmpty(e) \/ Remove(e)
  BY <1>4 DEF GetEmpty, Q!GetEmpty, Remove, Q!Remove, Q!Enter, TypeOK, Q!TypeOK
<1>5. CASE Unlock(e)
  BY <1>5 DEF Unlock, Q!Unlock, Holding, TypeOK, Q!TypeOK
<1>6. CASE Start(e) \/ Prepare(e) \/ Encode(e) \/ EncodeForever(e) \/ Close(e) \/ InsertSource(e)
           \/ InsertLink(e) \/ Stop(e)
  BY <1>6 DEF Start, Prepare, Encode, EncodeForever, Close, InsertSource, InsertLink, Stop, Holding, TypeOK
<1>7. QED
  BY <1>1, <1>2, <1>3, <1>4, <1>5, <1>6 DEF EncoderStep

\* The database mutex keeps the two inserts of a thread together.
LEMMA DbHeldStep ==
  ASSUME TypeOK, DbHeld, [Next]_vars
  PROVE  DbHeld'
<1> SUFFICES ASSUME NEW e \in Encoders, at'[e] = "insert_link"
             PROVE  db_lock' = {e}
  BY DEF DbHeld
<1> USE DEF Goto, Threads
<1>1. CASE \E f \in Encoders : InsertSource(f) \/ InsertLink(f)
  <2>1. PICK f \in Encoders : InsertSource(f) \/ InsertLink(f)
    BY <1>1
  <2>2. CASE e = f
    BY <2>1, <2>2 DEF InsertSource, InsertLink, TypeOK
  <2>3. CASE e # f
    <3>1. at[e] = "insert_link"
      BY <2>1, <2>3 DEF InsertSource, InsertLink, TypeOK
    <3>2. db_lock = {e} /\ (at[f] = "insert_link" => db_lock = {f})
      BY <3>1 DEF DbHeld
    <3>3. QED
      BY <2>1, <2>3, <3>2 DEF InsertSource, InsertLink
  <2>4. QED
    BY <2>2, <2>3
<1>2. CASE ~(\E f \in Encoders : InsertSource(f) \/ InsertLink(f))
  <2>1. db_lock' = db_lock
    BY <1>2 DEF Next, Receive, RequestStep, EncoderStep, CheckDb, Exists, AddSlot, AddLink, AddFull,
         Spawn, Respond, Start, Unlock, GetTake, GetMark, GetEmpty, Prepare, Encode, EncodeForever, Close,
         Remove, Stop, vars
  <2>2. at[e] = "insert_link"
    <3>1. CASE ~EncoderStep(e)
      BY <3>1, OthersKeep
    <3>2. CASE EncoderStep(e)
      BY <1>2, <3>2 DEF EncoderStep, Start, Unlock, GetTake, GetMark, GetEmpty, Prepare, Encode, EncodeForever, Close,
         Remove, Stop, TypeOK
    <3>3. QED
      BY <3>1, <3>2
  <2>3. QED
    BY <2>1, <2>2 DEF DbHeld
<1>3. QED
  BY <1>1, <1>2

\* The job of the slot a thread has is not overwritten.
LEMMA JobOfKept ==
  ASSUME QP!QueueInv, [QP!Next]_(QP!vars), NEW e \in Encoders,
         taken[e] # None, taken'[e] = taken[e]
  PROVE  JobOf(e)' = JobOf(e)
<1>1. e \in Threads /\ None = QP!None
  BY DEF Threads, None, Q!None, QP!None
<1>2. taken[e] \in QP!InUse \ {QP!None}
  BY <1>1 DEF QP!QueueInv, QP!TakenIsWorking, QP!InUse
<1>3. NumSlots \in Nat \ {0} /\ NoJob \notin Jobs
  BY QueueAssumption
<1>4. \A i \in QP!InUse \ {QP!None} : decoding'[i].job = decoding[i].job
  BY <1>3, QP!JobsKept
<1>5. QED
  BY <1>2, <1>4 DEF JobOf

\* A source goes before its link, for the same job.
LEMMA LinkedStep ==
  ASSUME TypeOK, Holding, DbHeld, Linked, QP!QueueInv, [QP!Next]_(QP!vars), [Next]_vars
  PROVE  Linked'
<1> USE DEF Goto, Threads
<1>1. CASE \E f \in Encoders : InsertSource(f)
  <2>1. PICK f \in Encoders : InsertSource(f)
    BY <1>1
  <2>2. \A e \in Encoders : at[e] # "insert_link"
    BY <2>1 DEF DbHeld, InsertSource
  <2>3. \A e \in Encoders : at'[e] = "insert_link" => e = f
    BY <2>1, <2>2 DEF InsertSource, TypeOK
  <2>4. links' = links /\ JobOf(f)' = JobOf(f)
    BY <2>1 DEF InsertSource, queue, JobOf
  <2>5. \/ sources' = [sources EXCEPT ![JobOf(f)] = @ + 1]
        \/ sources' = sources /\ at' = [at EXCEPT ![f] = "remove"]
    BY <2>1 DEF InsertSource, JobOf
  <2>6. LinkHasSource'
    BY <2>4, <2>5 DEF Linked, LinkHasSource, TypeOK
  <2>7. at'[f] = "insert_link" /\ JobOf(f) \in Jobs => links[JobOf(f)] < sources'[JobOf(f)]
    BY <2>5 DEF Linked, LinkHasSource, TypeOK
  <2>8. QED
    BY <2>3, <2>4, <2>6, <2>7 DEF Linked
<1>2. CASE \E f \in Encoders : InsertLink(f)
  <2>1. PICK f \in Encoders : InsertLink(f)
    BY <1>2
  <2>2. \A e \in Encoders : at'[e] # "insert_link"
    BY <2>1 DEF DbHeld, InsertLink, TypeOK
  <2>3. sources' = sources /\ (links' = links \/ links' = [links EXCEPT ![JobOf(f)] = @ + 1])
    BY <2>1 DEF InsertLink, JobOf
  <2>4. JobOf(f) \in Jobs => links[JobOf(f)] < sources[JobOf(f)]
    BY <2>1 DEF InsertLink, Linked
  <2>5. LinkHasSource'
    BY <2>3, <2>4 DEF Linked, LinkHasSource, TypeOK
  <2>6. QED
    BY <2>2, <2>5 DEF Linked
<1>3. CASE ~(\E f \in Encoders : InsertSource(f) \/ InsertLink(f))
  <2>1. sources' = sources /\ links' = links
    BY <1>3 DEF Next, Receive, RequestStep, EncoderStep, CheckDb, Exists, AddSlot, AddLink, AddFull,
         Spawn, Respond, Start, Unlock, GetTake, GetMark, GetEmpty, Prepare, Encode, EncodeForever, Close,
         Remove, Stop, vars, rows
  <2>2. ASSUME NEW e \in Encoders, at'[e] = "insert_link"
        PROVE  at[e] = "insert_link" /\ JobOf(e)' = JobOf(e)
    <3>1. at[e] = "insert_link" /\ taken'[e] = taken[e]
      <4>1. CASE ~EncoderStep(e)
        BY <2>2, <4>1, OthersKeep
      <4>2. CASE EncoderStep(e)
        <5>1. at[e] = "insert_link"
          BY <1>3, <2>2, <4>2 DEF EncoderStep, Start, Unlock, GetTake, GetMark, GetEmpty, Prepare,
             Encode, EncodeForever, Close, Remove, Stop, TypeOK
        <5>2. pc[e] # "get_mark"
          BY <5>1 DEF Holding
        <5>3. Unlock(e)
          BY <1>3, <4>2, <5>1, <5>2 DEF EncoderStep, Start, GetTake, GetMark, GetEmpty, Prepare,
             Encode, EncodeForever, Close, Remove, Stop, Q!GetMark
        <5>4. QED
          BY <5>1, <5>3 DEF Unlock, Q!Unlock
      <4>3. QED
        BY <4>1, <4>2
    <3>2. taken[e] # None
      BY <3>1 DEF Holding
    <3>3. QED
      BY <3>1, <3>2, JobOfKept
  <2>3. QED
    BY <2>1, <2>2 DEF Linked, LinkHasSource
<1>4. QED
  BY <1>1, <1>2, <1>3

\* The slots of the queue and what encoder threads write stay in their ranges.
LEMMA TypesEncoder ==
  ASSUME TypeOK, Holding, Q!TypeOK', NEW e \in Encoders, EncoderStep(e),
         num_working_threads' \in 0 .. Cardinality(Encoders)
  PROVE  TypeOK'
<1> USE DEF Goto, EncoderAt, RequestAt, answer, rows
<1>1. e \in Threads /\ e \notin Requests /\ Requests \subseteq Threads /\ Encoders \subseteq Threads
  BY ThreadsAssumption DEF Threads
<1>2. UNCHANGED answer
  BY DEF EncoderStep, Start, GetTake, GetMark, GetEmpty, Prepare, Encode, EncodeForever, Close,
         InsertSource, InsertLink, Remove, Stop, Unlock
<1>3. at' = at \/ \E label \in EncoderAt : at' = [at EXCEPT ![e] = label]
  BY DEF EncoderStep, Start, GetTake, GetMark, GetEmpty, Prepare, Encode, EncodeForever, Close,
         InsertSource, InsertLink, Remove, Stop, Unlock
<1>4. /\ at' \in [Threads -> RequestAt \cup EncoderAt]
      /\ \A r \in Requests : at'[r] \in RequestAt
      /\ \A f \in Encoders : at'[f] \in EncoderAt
  BY <1>1, <1>3 DEF TypeOK
<1>5. progress' \in [Slots -> {0, 100}]
  <2>1. progress' = progress \/ progress' = [progress EXCEPT ![taken[e]] = 100]
    BY DEF EncoderStep, Start, GetTake, GetMark, GetEmpty, Prepare, Encode, EncodeForever, Close,
       InsertSource, InsertLink, Remove, Stop, Unlock
  <2>2. QED
    BY <2>1 DEF TypeOK
<1>6. db_lock' \subseteq Encoders
  BY DEF EncoderStep, Start, GetTake, GetMark, GetEmpty, Prepare, Encode, EncodeForever, Close,
     InsertSource, InsertLink, Remove, Stop, Unlock, TypeOK
<1>7. sources' \in [Jobs -> Nat] /\ links' \in [Jobs -> Nat]
  <2>1. /\ sources' = sources \/ sources' = [sources EXCEPT ![decoding[taken[e]].job] = @ + 1]
        /\ links' = links \/ links' = [links EXCEPT ![decoding[taken[e]].job] = @ + 1]
    BY DEF EncoderStep, Start, GetTake, GetMark, GetEmpty, Prepare, Encode, EncodeForever, Close,
       InsertSource, InsertLink, Remove, Stop, Unlock
  <2>2. QED
    BY <2>1 DEF TypeOK
<1>8. QED
  BY <1>2, <1>4, <1>5, <1>6, <1>7 DEF TypeOK, Answers, NoAnswer

\* So do what requests are told, which may point to any slot.
LEMMA TypesRequest ==
  ASSUME TypeOK, Asking, Q!TypeOK', NEW r \in Requests, RequestStep(r),
         num_working_threads' \in 0 .. Cardinality(Encoders)
  PROVE  TypeOK'
<1> USE DEF Goto, EncoderAt, RequestAt, answer, rows
<1>1. r \in Threads /\ r \notin Encoders /\ Requests \subseteq Threads /\ Encoders \subseteq Threads
  BY ThreadsAssumption DEF Threads
<1>2. UNCHANGED <<db_lock, sources, links, job, requests>>
  BY DEF RequestStep, CheckDb, Exists, AddSlot, AddLink, AddFull, Spawn, Respond, Unlock
<1>3. \/ at' = at
      \/ \E label \in RequestAt : at' = [at EXCEPT ![r] = label]
      \/ \E e \in Encoders : at' = [at EXCEPT ![r] = "respond", ![e] = "start"]
  BY DEF RequestStep, CheckDb, Exists, AddSlot, AddLink, AddFull, Spawn, Respond, Unlock
<1>4. /\ at' \in [Threads -> RequestAt \cup EncoderAt]
      /\ \A q \in Requests : at'[q] \in RequestAt
      /\ \A f \in Encoders : at'[f] \in EncoderAt
  BY <1>1, <1>3, ThreadsAssumption DEF TypeOK
<1>5. progress' \in [Slots -> {0, 100}]
  <2>1. progress' = progress \/ \E i : progress' = [progress EXCEPT ![i] = 0]
    BY DEF RequestStep, CheckDb, Exists, AddSlot, AddLink, AddFull, Spawn, Respond, Unlock
  <2>2. QED
    BY <2>1 DEF TypeOK
<1>6. dec_job' \in [Requests -> Slots \cup {None}]
  BY DEF RequestStep, CheckDb, Exists, AddSlot, AddLink, AddFull, Spawn, Respond, Unlock, TypeOK
<1>7. response' \in [Requests -> Answers \cup {NoAnswer}]
  <2>1. CASE Respond(r)
    <3> DEFINE answered == [asked    |-> job[r],
                            shown    |-> IF dec_job[r] = None THEN job[r] ELSE decoding[dec_job[r]].job,
                            progress |-> IF dec_job[r] # None THEN progress[dec_job[r]]
                                         ELSE IF at[r] = "known" THEN 100 ELSE 0,
                            source   |-> at[r] = "known"]
    <3>1. job[r] \in Jobs
      BY <2>1 DEF Respond, Asking
    <3>2. dec_job[r] # None => /\ progress[dec_job[r]] \in {0, 100}
                               /\ decoding[dec_job[r]].job \in Jobs \cup {NoJob}
      BY DEF TypeOK, Q!TypeOK, Slots, None
    <3>3. answered \in Answers
      BY <3>1, <3>2 DEF Answers
    <3>4. response' = [response EXCEPT ![r] = answered]
      BY <2>1 DEF Respond
    <3>5. QED
      BY <3>3, <3>4 DEF TypeOK
  <2>2. CASE ~Respond(r)
    BY <2>2 DEF RequestStep, CheckDb, Exists, AddSlot, AddLink, AddFull, Spawn, Unlock, TypeOK
  <2>3. QED
    BY <2>1, <2>2
<1>8. QED
  BY <1>2, <1>4, <1>5, <1>6, <1>7 DEF TypeOK

LEMMA TypesStep ==
  ASSUME TypeOK, Asking, Holding, Counted, QP!QueueInv', [Next]_vars
  PROVE  TypeOK'
<1>1. Q!TypeOK'
  BY DEF QP!QueueInv, Q!TypeOK, QP!TypeOK, Q!Slots, QP!Slots, Q!None, QP!None
<1>2. num_working_threads' \in 0 .. Cardinality(Encoders)
  BY CountedStep
<1>3. CASE \E r \in Requests, j \in Jobs : Receive(r, j)
  <2>1. PICK r \in Requests, j \in Jobs : Receive(r, j)
    BY <1>3
  <2>2. requests' \in 0 .. MaxRequests
    BY <2>1, BoundsAssumption DEF Receive, TypeOK
  <2>3. at' \in [Threads -> RequestAt \cup EncoderAt]
        /\ (\A q \in Requests : at'[q] \in RequestAt) /\ (\A f \in Encoders : at'[f] \in EncoderAt)
    BY <2>1, ThreadsAssumption DEF Receive, Goto, TypeOK, RequestAt, Threads
  <2>4. UNCHANGED <<progress, db_lock, rows>>
    BY <2>1 DEF Receive
  <2>5. /\ job' \in [Requests -> Jobs \cup {NoJob}]
        /\ dec_job' \in [Requests -> Slots \cup {None}]
        /\ response' \in [Requests -> Answers \cup {NoAnswer}]
    BY <2>1 DEF Receive, TypeOK
  <2>6. QED
    BY <1>1, <1>2, <2>2, <2>3, <2>4, <2>5 DEF TypeOK, rows
<1>4. CASE \E r \in Requests : RequestStep(r)
  BY <1>1, <1>2, <1>4, TypesRequest
<1>5. CASE \E e \in Encoders : EncoderStep(e)
  BY <1>1, <1>2, <1>5, TypesEncoder
<1>6. CASE UNCHANGED vars
  BY <1>1, <1>2, <1>6 DEF vars, rows, answer, TypeOK, Answers, NoAnswer
<1>7. QED
  BY <1>3, <1>4, <1>5, <1>6 DEF Next

-----------------------------------------------------------------------------
(* What a reader should know of the transcoder *)

\* Together with what is proved of the queue, the parts of TranscoderInv are inductive:
\* a thread has a slot between the two marks, the database mutex keeps its two inserts
\* together, and the job of its slot is the same for both.
THEOREM TranscoderInvariant == Spec => []TranscoderInv
<1>1. TranscoderInv /\ QP!QueueInv /\ QP!QueueInv' /\ [Q!Next]_(Q!vars) /\ [Next]_vars
        => TranscoderInv'
  <2> SUFFICES ASSUME TranscoderInv, QP!QueueInv, QP!QueueInv', [Q!Next]_(Q!vars), [Next]_vars
               PROVE  TranscoderInv'
    OBVIOUS
  <2> USE DEF TranscoderInv
  <2>1. [QP!Next]_(QP!vars)
    BY SameQueueStep
  <2>2. Asking' /\ TypeOK' /\ Counted'
    BY AskingStep, TypesStep, CountedStep
  <2>3. Holding' /\ DbHeld'
    BY HoldingStep, DbHeldStep
  <2>4. Linked'
    BY <2>1, LinkedStep
  <2>5. QED
    BY <2>2, <2>3, <2>4
<1>2. QED
  BY <1>1, TranscoderInit, QueueHolds, AlwaysAsking, QueueSteps, PTL DEF Spec

\* The fields and locals of requests and encoder threads stay in their ranges; in
\* particular num_working_threads, which is never more than the threads there are and
\* never below zero.
THEOREM TranscoderTypes == Spec => []TypeOK
<1>1. TranscoderInv => TypeOK
  BY DEF TranscoderInv
<1>2. QED
  BY <1>1, TranscoderInvariant, PTL

\* A link row is only ever written for a job that has a source row of its own for it,
\* though both inserts read the job anew from the slot in shared memory, any of them
\* may fail, and the same job may be encoded twice at a time.
THEOREM LinksHaveSources == Spec => []LinkHasSource
<1>1. TranscoderInv => LinkHasSource
  BY DEF TranscoderInv, Linked
<1>2. QED
  BY <1>1, TranscoderInvariant, PTL

=============================================================================
