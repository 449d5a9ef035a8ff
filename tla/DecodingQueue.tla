--------------------------- MODULE DecodingQueue ---------------------------
(***************************************************************************)
(* The decoding queue of src/src/indexers/music/decoding_queue.[ch]: an    *)
(* array of job slots in shared memory, threaded by `next` links between   *)
(* `head` and `tail`, with two bit masks saying which slots are waiting    *)
(* and which are being worked on, and one global mutex.  Any thread of any *)
(* server process may call any operation; this module lets them.           *)
(*                                                                         *)
(* A critical section is entered in the step that runs its first           *)
(* statements: taking a free mutex commutes with all that other threads    *)
(* may do at that moment.  The later statements of a section, and the      *)
(* release, are steps of their own.                                        *)
(***************************************************************************)
EXTENDS Integers, FiniteSets

CONSTANTS
  Threads,    \* the threads of all server processes
  Jobs,       \* <<source_id, output_file_type>>: what jobs are compared by
  NoJob,      \* the content of a slot never used
  NumSlots    \* 64 in the code

ASSUME NumSlotsAssumption == NumSlots \in Nat \ {0}
ASSUME NoJobAssumption == NoJob \notin Jobs

Slots == 0 .. NumSlots - 1
None == -1    \* next = -1, tail = -1, or a NULL decoding_job_t*

VARIABLES
  head, tail, waiting, working, decoding,   \* queue_t, in shared memory
  lock,       \* the mutex: the set of its holders, {} or {t}
  pc,         \* where in a critical section each thread is
  index,      \* the local index / empty_index of a thread inside get or add
  taken       \* the job pointer get_decoding_job_queue gave the thread

queue == <<head, tail, waiting, working, decoding>>
vars == <<head, tail, waiting, working, decoding, lock, pc, index, taken>>

TypeOK ==
  /\ head \in Slots \cup {None}
  /\ tail \in Slots \cup {None}
  /\ waiting \subseteq Slots
  /\ working \subseteq Slots
  /\ decoding \in [Slots -> [job : Jobs \cup {NoJob}, next : Slots \cup {None}]]
  /\ lock \subseteq Threads
  /\ pc \in [Threads -> {"idle", "get_mark", "add_link", "unlock"}]
  /\ index \in [Threads -> Slots \cup {None}]
  /\ taken \in [Threads -> Slots \cup {None}]

\* create_decoding_queue: the segment is new, so the slots are all zero.
create_decoding_queue ==
  /\ head = 0
  /\ tail = None
  /\ waiting = {}
  /\ working = {}
  /\ decoding = [i \in Slots |-> [job |-> NoJob, next |-> 0]]

Init ==
  /\ create_decoding_queue
  /\ lock = {}
  /\ pc = [t \in Threads |-> "idle"]
  /\ index = [t \in Threads |-> None]
  /\ taken = [t \in Threads |-> None]

-----------------------------------------------------------------------------
\* A mutated form, for the mutants of this module: the mutex does not exclude.
Enter_NoMutex(t, label) ==
  /\ pc[t] = "idle"
  /\ lock' = {t}
  /\ pc' = [pc EXCEPT ![t] = label]

\* LOCK_CHECK_ERRORS and the label the section continues at.
Enter(t, label) ==
  /\ pc[t] = "idle"
  /\ lock = {}
  /\ lock' = {t}
  /\ pc' = [pc EXCEPT ![t] = label]

\* UNLOCK_CHECK_ERRORS: the section is over and the call returns.
Unlock(t) ==
  /\ pc[t] = "unlock"
  /\ lock' = lock \ {t}
  /\ pc' = [pc EXCEPT ![t] = "idle"]
  /\ UNCHANGED <<head, tail, waiting, working, decoding, index, taken>>

-----------------------------------------------------------------------------
(* get_decoding_job_queue, called by a thread that works on nothing. *)

\* Mutated: the waiting bit stays.
GetTake_KeepsWaiting(t) ==
  /\ Enter(t, "get_mark")
  /\ taken[t] = None
  /\ waiting # {}
  /\ index' = [index EXCEPT ![t] = head]
  /\ head' = decoding[head].next
  /\ UNCHANGED <<tail, waiting, working, decoding, taken>>

\* The waiting bit is cleared and head moves on; the job is in no mask.
GetTake(t) ==
  /\ Enter(t, "get_mark")
  /\ taken[t] = None
  /\ waiting # {}
  /\ index' = [index EXCEPT ![t] = head]
  /\ waiting' = waiting \ {head}
  /\ head' = decoding[head].next
  /\ UNCHANGED <<tail, working, decoding, taken>>

\* The working bit is set; the pointer to the slot is returned.
GetMark(t) ==
  /\ pc[t] = "get_mark"
  /\ working' = working \cup {index[t]}
  /\ taken' = [taken EXCEPT ![t] = index[t]]
  /\ index' = [index EXCEPT ![t] = None]
  /\ pc' = [pc EXCEPT ![t] = "unlock"]
  /\ UNCHANGED <<head, tail, waiting, decoding, lock>>

\* Mutated: the return for an empty queue keeps the mutex.
GetEmpty_Locked(t) ==
  /\ Enter(t, "idle")
  /\ taken[t] = None
  /\ waiting = {}
  /\ UNCHANGED <<head, tail, waiting, working, decoding, index, taken>>

\* Nothing waits: NULL is returned.
GetEmpty(t) ==
  /\ Enter(t, "unlock")
  /\ taken[t] = None
  /\ waiting = {}
  /\ UNCHANGED <<head, tail, waiting, working, decoding, index, taken>>

-----------------------------------------------------------------------------
(* add_decoding_job_queue *)

\* Mutated: one slot too many; the slots being worked on count as free.
Free_OffByOne == (0 .. NumSlots) \ (waiting \cup working)
Free_IgnoresWorking == Slots \ waiting

Free == Slots \ (waiting \cup working)

\* __builtin_clzll of the mask: bit 63-i stands for slot i.
IsLowest(i, S) == i \in S /\ \A k \in S : i <= k

\* "Queue is FULL!": the early return leaves the mutex locked.
AddFull(t) ==
  /\ Enter(t, "idle")
  /\ Free = {}
  /\ UNCHANGED <<head, tail, waiting, working, decoding, index, taken>>

\* Mutated: head is set only for the first job ever.
AddSlot_HeadOnce(t, j) ==
  /\ Enter(t, "add_link")
  /\ \E empty_index \in Free :
       /\ IsLowest(empty_index, Free)
       /\ head' = IF tail = None THEN empty_index ELSE head
       /\ decoding' = [decoding EXCEPT ![empty_index] = [job |-> j, next |-> None]]
       /\ index' = [index EXCEPT ![t] = empty_index]
  /\ UNCHANGED <<tail, waiting, working, taken>>

\* The job is copied into the lowest free slot, which points nowhere.
AddSlot(t, j) ==
  /\ Enter(t, "add_link")
  /\ \E empty_index \in Free :
       /\ IsLowest(empty_index, Free)
       /\ head' = IF waiting = {} THEN empty_index ELSE head
       /\ decoding' = [decoding EXCEPT ![empty_index] = [job |-> j, next |-> None]]
       /\ index' = [index EXCEPT ![t] = empty_index]
  /\ UNCHANGED <<tail, waiting, working, taken>>

\* The slot is marked waiting and linked behind the tail.  The tail is never
\* reset: when nothing waits, the link goes from a slot no longer in the list,
\* which may be the very slot that is being added.
AddLink(t) ==
  /\ pc[t] = "add_link"
  /\ waiting' = waiting \cup {index[t]}
  /\ decoding' = IF tail = None THEN decoding
                 ELSE [decoding EXCEPT ![tail].next = index[t]]
  /\ tail' = index[t]
  /\ index' = [index EXCEPT ![t] = None]
  /\ pc' = [pc EXCEPT ![t] = "unlock"]
  /\ UNCHANGED <<head, working, lock, taken>>

-----------------------------------------------------------------------------
\* The slots does_decoding_job_exsits counts as found.
Matches(j) == {i \in waiting \cup working : decoding[i].job = j}

\* does_decoding_job_exsits: the scan leaves the last match in *dec_job, and
\* None stands for "return 0".
FindScan(t, j, dec_job) ==
  /\ Enter(t, "unlock")
  /\ \/ Matches(j) = {} /\ dec_job = None
     \/ dec_job \in Matches(j) /\ \A i \in Matches(j) : i <= dec_job
  /\ UNCHANGED <<head, tail, waiting, working, decoding, index, taken>>

\* Mutated: the working bit stays.
Remove_KeepsWorking(t) ==
  /\ taken[t] # None
  /\ Enter(t, "unlock")
  /\ taken' = [taken EXCEPT ![t] = None]
  /\ UNCHANGED <<head, tail, waiting, working, decoding, index>>

\* remove_from_queue in encoder_thread: the thread clears its working bit.
Remove(t) ==
  /\ taken[t] # None
  /\ Enter(t, "unlock")
  /\ working' = working \ {taken[t]}
  /\ taken' = [taken EXCEPT ![t] = None]
  /\ UNCHANGED <<head, tail, waiting, decoding, index>>

Step(t) ==
  \/ GetTake(t) \/ GetMark(t) \/ GetEmpty(t)
  \/ AddFull(t) \/ AddLink(t)
  \/ \E j \in Jobs : AddSlot(t, j)
  \/ \E j \in Jobs, i \in Slots \cup {None} : FindScan(t, j, i)
  \/ Remove(t) \/ Unlock(t)

Next == \E t \in Threads : Step(t)

Spec == Init /\ [][Next]_vars

-----------------------------------------------------------------------------
(* Properties *)

\* The slot a thread holds between two statements of get_decoding_job_queue or
\* until it calls remove_from_queue.
Held(t) == IF pc[t] = "get_mark" THEN index[t] ELSE taken[t]

\* "Working and waiting are set": the assertion of does_decoding_job_exsits,
\* which never fires, even for a thread that reads the masks without the mutex.
WaitingWorkingDisjoint == waiting \cap working = {}

\* s goes through the slots of S, once each, from h to t along the links of d.
IsList(s, S, h, t, d) ==
  LET n == Cardinality(S) IN
  /\ \A i \in S : \E k \in 1 .. n : s[k] = i
  /\ \A k, m \in 1 .. n : s[k] = s[m] => k = m
  /\ s[1] = h
  /\ s[n] = t
  /\ \A k \in 1 .. n - 1 : d[s[k]].next = s[k + 1]

\* While anything waits, the links lead from head through every waiting slot,
\* once, to tail: no job of add_decoding_job_queue is lost from the list and
\* none is handed out twice, although the tail is never reset, the head of an
\* empty list is garbage, and slots are reused in another order than taken.
WaitingListLinked ==
  waiting # {} =>
    \E s \in [1 .. Cardinality(waiting) -> waiting] :
      IsList(s, waiting, head, tail, decoding)

\* Every slot marked working is the slot of exactly one thread, which will
\* clear it (encoder_thread, remove_from_queue), and no slot is run by two
\* threads: no slot leaks out of the pool of 64 and no job runs twice.
WorkingHasOneThread ==
  /\ \A i \in working : \E t \in Threads : taken[t] = i
  /\ \A t, u \in Threads : Held(t) = Held(u) /\ Held(t) # None => t = u
  /\ \A t \in Threads : Held(t) \notin waiting

\* Every slot has one owner at most: the list, or one thread.  No job is handed out
\* while it still waits, no job runs twice, and no slot leaks out of the pool of 64.
OneOwner == WaitingWorkingDisjoint /\ WorkingHasOneThread

\* The slots whose job somebody still needs.
InUse == waiting \cup working \cup {Held(t) : t \in Threads}

\* The copy of a job into its slot never lands on a job that waits, is worked
\* on, or is just being handed over, the moment when it is in neither mask.
JobsNotOverwritten ==
  [][\A i \in InUse \ {None} : decoding'[i].job = decoding[i].job]_vars

\* A call that has returned keeps the mutex only if it was add_decoding_job_queue
\* with a queue that was full, which is then full for ever: no other return does,
\* and the mutex is never the reason that a queue with a free slot stands still.
LockKeptWhenFull == \A t \in lock : pc[t] = "idle" => Free = {}

\* The first n slots to which the links of d lead from h.
Links(n, h, d) ==
  LET c[k \in 1 .. n] == IF k = 1 THEN h ELSE d[c[k - 1]].next IN c

\* The jobs in the order in which the links deliver them.
Chain ==
  LET n == Cardinality(waiting)
  IN  [k \in 1 .. n |-> decoding[Links(n, head, decoding)[k]].job]

Running ==
  [t \in Threads |-> IF Held(t) = None THEN NoJob ELSE decoding[Held(t)].job]

Fifo == INSTANCE JobFifo
          WITH pending <- Chain, running <- Running, Capacity <- NumSlots

\* The queue implements JobFifo: it hands jobs out in the order they were
\* added, and never overwrites the slot of a job that is pending or running.
ImplementsFifo == Fifo!Spec

=============================================================================
