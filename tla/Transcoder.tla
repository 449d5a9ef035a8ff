----------------------------- MODULE Transcoder -----------------------------
(***************************************************************************)
(* Transcoding on demand, src/src/indexers/music/transcoder.c: the HTTP    *)
(* request threads (transcode_audio) that look for a job in the database   *)
(* and in the decoding queue before they add it and start an encoder       *)
(* thread, and the encoder threads (encoder_thread) that empty the queue   *)
(* and record what they encoded (add_new_source_db).  The queue is the one *)
(* of DecodingQueue; every step on it is a step of that module.            *)
(*                                                                         *)
(* transcode_audio builds the source id of a job from the song id asked    *)
(* for, so a job is a song and an output type, in the queue as in the      *)
(* database.  What fails outside this code (a query, an insert, a codec,   *)
(* the start of a thread) fails at any time, if Faults has its name.       *)
(***************************************************************************)
EXTENDS Integers, FiniteSets

CONSTANTS
  Requests,     \* threads of the server that serve requests, one at a time
  Encoders,     \* threads started by transcode_audio; an ended one may restart
  Jobs, NoJob, NumSlots,    \* as in DecodingQueue
  Supported,    \* the jobs with a decoder and an encoder built in
  MaxWorkers,   \* MAX_NUM_WORKERS, the 4 of transcode_audio
  Faults,       \* a subset of {"query", "insert", "codec", "first_frame", "spawn"}
  MaxRequests   \* bound on the number of requests in a behaviour

ASSUME ThreadsAssumption == Requests \cap Encoders = {}
ASSUME FiniteAssumption == IsFiniteSet(Requests) /\ IsFiniteSet(Encoders)
ASSUME SupportedAssumption == Supported \subseteq Jobs
ASSUME QueueAssumption == NumSlots \in Nat \ {0} /\ NoJob \notin Jobs
ASSUME BoundsAssumption == MaxRequests \in Nat /\ MaxWorkers \in Nat \ {0}

Threads == Requests \cup Encoders

VARIABLES
  head, tail, waiting, working, decoding, lock, pc, index, taken,
  progress,             \* decoding[i].progress: 100, or 0 for anything less
  num_working_threads,  \* of queue_t
  db_lock,              \* the holders of dbd_config->mutex
  sources, links,       \* rows of the two tables, counted for each job
  at,                   \* where in transcode_audio or encoder_thread a thread is
  job,                  \* the decoding_job a request filled in
  dec_job,              \* the slot its pointer was redirected to, or None
  response,             \* the last JSON answer of each request thread
  requests              \* requests received

Q == INSTANCE DecodingQueue

None == Q!None
Slots == Q!Slots

queue == <<head, tail, waiting, working, decoding, lock, pc, index, taken>>
rows == <<sources, links>>
answer == <<job, dec_job, response, requests>>
vars == <<queue, progress, num_working_threads, db_lock, rows, at, answer>>

RequestAt == {"idle", "check_db", "exists", "add", "spawn", "respond", "known"}
EncoderAt == {"off", "start", "get", "prepare", "encode", "endless", "close",
              "insert_source", "insert_link", "remove", "stop"}

\* An answer: the job it was for, then what it says: "input_source_id" with
\* "output_type", "progress", and whether "output_source_id" is more than "0".
Answers == [asked : Jobs, shown : Jobs \cup {NoJob}, progress : {0, 100}, source : BOOLEAN]
NoAnswer == [asked |-> NoJob]

TypeOK ==
  /\ Q!TypeOK
  /\ progress \in [Slots -> {0, 100}]
  /\ num_working_threads \in 0 .. Cardinality(Encoders)
  /\ db_lock \subseteq Encoders
  /\ sources \in [Jobs -> Nat] /\ links \in [Jobs -> Nat]
  /\ at \in [Threads -> RequestAt \cup EncoderAt]
  /\ \A r \in Requests : at[r] \in RequestAt
  /\ \A e \in Encoders : at[e] \in EncoderAt
  /\ job \in [Requests -> Jobs \cup {NoJob}]
  /\ dec_job \in [Requests -> Slots \cup {None}]
  /\ response \in [Requests -> Answers \cup {NoAnswer}]
  /\ requests \in 0 .. MaxRequests

Init ==
  /\ Q!Init
  /\ progress = [i \in Slots |-> 0]
  /\ num_working_threads = 0
  /\ db_lock = {}
  /\ sources = [j \in Jobs |-> 0]
  /\ links = [j \in Jobs |-> 0]
  /\ at = [t \in Threads |-> IF t \in Requests THEN "idle" ELSE "off"]
  /\ job = [r \in Requests |-> NoJob]
  /\ dec_job = [r \in Requests |-> None]
  /\ response = [r \in Requests |-> NoAnswer]
  /\ requests = 0

Goto(t, label) == at' = [at EXCEPT ![t] = label]

-----------------------------------------------------------------------------
(* transcode_audio *)

\* The request is parsed into a private decoding_job.
Receive(r, j) ==
  /\ at[r] = "idle" /\ pc[r] = "idle" /\ requests < MaxRequests
  /\ Goto(r, "check_db")
  /\ job' = [job EXCEPT ![r] = j]
  /\ dec_job' = [dec_job EXCEPT ![r] = None]
  /\ response' = [response EXCEPT ![r] = NoAnswer]
  /\ requests' = requests + 1
  /\ UNCHANGED <<queue, progress, num_working_threads, db_lock, rows>>

\* check_db_for_decoding_job: a failed query counts as a miss.
CheckDb(r) ==
  /\ at[r] = "check_db"
  /\ \/ links[job[r]] > 0 /\ Goto(r, "known")
     \/ (links[job[r]] = 0 \/ "query" \in Faults) /\ Goto(r, "exists")
  /\ UNCHANGED <<queue, progress, num_working_threads, db_lock, rows, answer>>

\* does_decoding_job_exsits: a slot found replaces the private job.
Exists(r) ==
  /\ at[r] = "exists"
  /\ \E i \in Slots \cup {None} :
       /\ Q!FindScan(r, job[r], i)
       /\ dec_job' = [dec_job EXCEPT ![r] = i]
       /\ Goto(r, IF i = None THEN "add" ELSE "respond")
  /\ UNCHANGED <<progress, num_working_threads, db_lock, rows, job, response, requests>>

\* add_decoding_job_queue: the new slot starts with progress 0.0.
AddSlot(r) ==
  /\ at[r] = "add"
  /\ Q!AddSlot(r, job[r])
  /\ progress' = [progress EXCEPT ![index'[r]] = 0]
  /\ UNCHANGED <<num_working_threads, db_lock, rows, at, answer>>

AddLink(r) ==
  /\ at[r] = "add"
  /\ Q!AddLink(r)
  /\ Goto(r, "spawn")
  /\ UNCHANGED <<progress, num_working_threads, db_lock, rows, answer>>

\* The error of a full queue is logged; the answer shows the private job.
AddFull(r) ==
  /\ at[r] = "add"
  /\ Q!AddFull(r)
  /\ Goto(r, "respond")
  /\ UNCHANGED <<progress, num_working_threads, db_lock, rows, answer>>

\* Nothing ever increments num_decoding_threads, which apr_pcalloc zeroed.
num_decoding_threads == 0

\* A mutated form, for the mutants of this module: a thread is started only
\* when none is counted as working, read without the mutex.
Spawn_OnlyWhenNone(r) ==
  /\ at[r] = "spawn" /\ pc[r] = "idle"
  /\ \/ /\ num_working_threads = 0
        /\ \E e \in Encoders :
             /\ at[e] = "off"
             /\ at' = [at EXCEPT ![r] = "respond", ![e] = "start"]
     \/ /\ num_working_threads > 0
        /\ Goto(r, "respond")
  /\ UNCHANGED <<queue, progress, num_working_threads, db_lock, rows, answer>>

\* apr_thread_create, whose status is not looked at.
Spawn(r) ==
  /\ at[r] = "spawn" /\ pc[r] = "idle"
  /\ \/ /\ num_decoding_threads < MaxWorkers
        /\ \E e \in Encoders :
             /\ at[e] = "off"
             /\ at' = [at EXCEPT ![r] = "respond", ![e] = "start"]
     \/ /\ num_decoding_threads >= MaxWorkers \/ "spawn" \in Faults
        /\ Goto(r, "respond")
  /\ UNCHANGED <<queue, progress, num_working_threads, db_lock, rows, answer>>

\* The answer is printed: through the pointer into the shared slot, without the
\* mutex, if a slot was found; else from the private job, whose new_source_id
\* is set only by a hit in the database.
Respond(r) ==
  /\ at[r] \in {"respond", "known"} /\ pc[r] = "idle"
  /\ response' = [response EXCEPT ![r] =
       [asked    |-> job[r],
        shown    |-> IF dec_job[r] = None THEN job[r] ELSE decoding[dec_job[r]].job,
        progress |-> IF dec_job[r] # None THEN progress[dec_job[r]]
                     ELSE IF at[r] = "known" THEN 100 ELSE 0,
        source   |-> at[r] = "known"]]
  /\ Goto(r, "idle")
  /\ UNCHANGED <<queue, progress, num_working_threads, db_lock, rows, job, dec_job, requests>>

-----------------------------------------------------------------------------
(* encoder_thread *)

\* The mutex is taken for the one increment and released.
Start(e) ==
  /\ at[e] = "start" /\ lock = {}
  /\ num_working_threads' = num_working_threads + 1
  /\ Goto(e, "get")
  /\ UNCHANGED <<queue, progress, db_lock, rows, answer>>

\* The head of the loop: get_decoding_job_queue.
GetTake(e) ==
  /\ at[e] = "get"
  /\ Q!GetTake(e)
  /\ Goto(e, "prepare")
  /\ UNCHANGED <<progress, num_working_threads, db_lock, rows, answer>>

GetMark(e) ==
  /\ Q!GetMark(e)
  /\ UNCHANGED <<progress, num_working_threads, db_lock, rows, at, answer>>

GetEmpty(e) ==
  /\ at[e] = "get"
  /\ Q!GetEmpty(e)
  /\ Goto(e, "stop")
  /\ UNCHANGED <<progress, num_working_threads, db_lock, rows, answer>>

\* Mutated: a job that cannot be encoded is not taken out of the mask.
Prepare_SkipsRemove(e) ==
  /\ at[e] = "prepare" /\ pc[e] = "idle"
  /\ \/ decoding[taken[e]].job \in Supported /\ Goto(e, "encode")
     \/ decoding[taken[e]].job \notin Supported /\ Goto(e, "get")
  /\ UNCHANGED <<queue, progress, num_working_threads, db_lock, rows, answer>>

\* Decoder, input file and encoder are looked up; any failure gives the job up.
Prepare(e) ==
  /\ at[e] = "prepare" /\ pc[e] = "idle"
  /\ \/ decoding[taken[e]].job \in Supported /\ Goto(e, "encode")
     \/ /\ decoding[taken[e]].job \notin Supported \/ "codec" \in Faults
        /\ Goto(e, "remove")
  /\ UNCHANGED <<queue, progress, num_working_threads, db_lock, rows, answer>>

\* ogg_encode up to the last progress it writes into the shared slot: a write is
\* due only every 40 packets, so the last one may say 100, or less.
Encode(e) ==
  /\ at[e] = "encode"
  /\ \/ progress' = [progress EXCEPT ![taken[e]] = 100]
     \/ UNCHANGED progress
  /\ Goto(e, "close")
  /\ UNCHANGED <<queue, num_working_threads, db_lock, rows, answer>>

\* The flac decoder gave up at its first frame, in open_flac_file, which looks at the
\* status of the call before: the decoder then says "true" and brings no frame for
\* ever, and the loop of process_flac_file, called by ogg_encode, never ends.
EncodeForever(e) ==
  /\ at[e] = "encode" /\ "first_frame" \in Faults
  /\ Goto(e, "endless")
  /\ UNCHANGED <<queue, progress, num_working_threads, db_lock, rows, answer>>

\* The packets after the last progress, and close_input_file; both may fail.
Close(e) ==
  /\ at[e] = "close"
  /\ \/ Goto(e, "insert_source")
     \/ "codec" \in Faults /\ Goto(e, "remove")
  /\ UNCHANGED <<queue, progress, num_working_threads, db_lock, rows, answer>>

\* A mutated form: the link is inserted although the source was not.
InsertSource_NoCheck(e) ==
  /\ at[e] = "insert_source" /\ db_lock = {}
  /\ \/ sources' = [sources EXCEPT ![decoding[taken[e]].job] = @ + 1]
     \/ "insert" \in Faults /\ UNCHANGED sources
  /\ db_lock' = {e}
  /\ Goto(e, "insert_link")
  /\ UNCHANGED <<queue, progress, num_working_threads, links, answer>>

\* add_new_source_db takes the database mutex and inserts the source ...
InsertSource(e) ==
  /\ at[e] = "insert_source" /\ db_lock = {}
  /\ \/ /\ sources' = [sources EXCEPT ![decoding[taken[e]].job] = @ + 1]
        /\ db_lock' = {e}
        /\ Goto(e, "insert_link")
     \/ /\ "insert" \in Faults
        /\ Goto(e, "remove")
        /\ UNCHANGED <<sources, db_lock>>
  /\ UNCHANGED <<queue, progress, num_working_threads, links, answer>>

\* ... then the link; when that fails the source row stays, linked by nothing.
InsertLink(e) ==
  /\ at[e] = "insert_link"
  /\ \/ links' = [links EXCEPT ![decoding[taken[e]].job] = @ + 1]
     \/ "insert" \in Faults /\ UNCHANGED links
  /\ db_lock' = {}
  /\ Goto(e, "remove")
  /\ UNCHANGED <<queue, progress, num_working_threads, sources, answer>>

\* Mutated: the working bit is cleared without the mutex.
Remove_NoMutex(e) ==
  /\ at[e] = "remove"
  /\ working' = working \ {taken[e]}
  /\ taken' = [taken EXCEPT ![e] = None]
  /\ Goto(e, "get")
  /\ UNCHANGED <<head, tail, waiting, decoding, lock, pc, index>>
  /\ UNCHANGED <<progress, num_working_threads, db_lock, rows, answer>>

\* remove_from_queue, whatever became of the job.
Remove(e) ==
  /\ at[e] = "remove"
  /\ Q!Remove(e)
  /\ Goto(e, "get")
  /\ UNCHANGED <<progress, num_working_threads, db_lock, rows, answer>>

\* Mutated: the thread ends without releasing the mutex; the counter goes down
\* twice.
Stop_KeepsMutex(e) ==
  /\ at[e] = "stop" /\ pc[e] = "idle" /\ lock = {}
  /\ lock' = {e}
  /\ num_working_threads' = num_working_threads - 1
  /\ Goto(e, "off")
  /\ UNCHANGED <<head, tail, waiting, working, decoding, pc, index, taken>>
  /\ UNCHANGED <<progress, db_lock, rows, answer>>
Stop_Twice(e) ==
  /\ at[e] = "stop" /\ pc[e] = "idle" /\ lock = {}
  /\ num_working_threads' = num_working_threads - 2
  /\ Goto(e, "off")
  /\ UNCHANGED <<queue, progress, db_lock, rows, answer>>

\* The mutex is taken for the one decrement and released; the thread ends.
Stop(e) ==
  /\ at[e] = "stop" /\ pc[e] = "idle" /\ lock = {}
  /\ num_working_threads' = num_working_threads - 1
  /\ Goto(e, "off")
  /\ UNCHANGED <<queue, progress, db_lock, rows, answer>>

-----------------------------------------------------------------------------
Unlock(t) ==
  /\ Q!Unlock(t)
  /\ UNCHANGED <<progress, num_working_threads, db_lock, rows, at, answer>>

RequestStep(r) ==
  \/ CheckDb(r) \/ Exists(r) \/ AddSlot(r) \/ AddLink(r) \/ AddFull(r)
  \/ Spawn(r) \/ Respond(r) \/ Unlock(r)

EncoderStep(e) ==
  \/ Start(e) \/ GetTake(e) \/ GetMark(e) \/ GetEmpty(e)
  \/ Prepare(e) \/ Encode(e) \/ EncodeForever(e) \/ Close(e)
  \/ InsertSource(e) \/ InsertLink(e) \/ Remove(e) \/ Stop(e) \/ Unlock(e)

\* All requests were answered, and all encoder threads have ended that ever do.
Quiet ==
  /\ requests = MaxRequests
  /\ \A r \in Requests : at[r] = "idle" /\ pc[r] = "idle"
  /\ \A e \in Encoders : at[e] \in {"off", "endless"}

Next ==
  \/ \E r \in Requests, j \in Jobs : Receive(r, j)
  \/ \E r \in Requests : RequestStep(r)
  \/ \E e \in Encoders : EncoderStep(e)
  \/ Quiet /\ UNCHANGED vars

Spec == Init /\ [][Next]_vars

\* The scheduler lets every thread run, and a mutex that is free goes to one of
\* those that wait for it.
Fairness ==
  /\ \A r \in Requests : WF_vars(RequestStep(r))
  /\ \A e \in Encoders : WF_vars(EncoderStep(e))

FairSpec == Spec /\ Fairness

-----------------------------------------------------------------------------
(* Properties *)

\* Request and encoder threads use the queue only as DecodingQueue lets them,
\* so that all that is proved there holds here.
UsesQueueAsSpecified == Q!Spec

\* No lost wake-up: every job that waits has a thread of its own that has yet to look
\* at the queue, or a request that has yet to start one.  A thread that works may never
\* come back (EncodeForever), so that one thread for all of them would not do.
WaitingJobHasEncoder ==
  Cardinality(waiting) <=
    Cardinality({e \in Encoders : at[e] \in {"start", "get"}})
      + Cardinality({r \in Requests : at[r] = "spawn"})

\* A job's link row is only ever written for a source row of the same job, though
\* both inserts read the job anew from its slot in shared memory, any insert may
\* fail, and the slot may be given to another job as soon as it is free.
LinkHasSource == \A j \in Jobs : links[j] <= sources[j]

\* Every request is answered: no thread keeps the mutex or waits for it forever.
RequestIsAnswered == \A r \in Requests : at[r] # "idle" ~> at[r] = "idle"

\* While the queue is never full and threads can be started, every job that was added
\* is taken by an encoder, also when others encode for ever, and its slot is free again
\* some day, whatever fails in between, unless its own encoding is such a one.
SlotIsFreed ==
  \A i \in Slots :
    /\ i \in waiting ~> i \notin waiting
    /\ i \in working ~> \/ i \notin working
                         \/ \E e \in Encoders : at[e] = "endless" /\ taken[e] = i

\* "Decdoing job generates" new_source_id: an answer that says 100 has it.
CompleteAnswerHasSource ==
  \A r \in Requests :
    response[r] # NoAnswer /\ response[r].progress = 100 => response[r].source

=============================================================================
