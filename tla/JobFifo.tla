------------------------------ MODULE JobFifo ------------------------------
(***************************************************************************)
(* What the decoding queue promises its clients, without slots, masks,     *)
(* links or a lock: jobs are handed to encoder threads in the order in     *)
(* which they were added, a job is run by exactly one thread, the job a    *)
(* thread runs never changes under it, and at most Capacity jobs are       *)
(* pending or running.                                                     *)
(***************************************************************************)
EXTENDS Integers, Sequences, FiniteSets

CONSTANTS
  Threads,    \* the threads of all server processes
  Jobs,       \* what can be asked for: a source and an output type
  NoJob,      \* "this thread runs nothing"
  Capacity    \* decoding[64]

VARIABLES
  pending,    \* the jobs nobody has taken, oldest first
  running     \* the job each thread is working on, or NoJob

vars == <<pending, running>>

TypeOK ==
  /\ pending \in Seq(Jobs)
  /\ running \in [Threads -> Jobs \cup {NoJob}]

Busy == {t \in Threads : running[t] # NoJob}

Init ==
  /\ pending = << >>
  /\ running = [t \in Threads |-> NoJob]

Submit(j) ==
  /\ Len(pending) + Cardinality(Busy) < Capacity
  /\ pending' = Append(pending, j)
  /\ UNCHANGED running

Take(t) ==
  /\ running[t] = NoJob
  /\ pending # << >>
  /\ running' = [running EXCEPT ![t] = Head(pending)]
  /\ pending' = Tail(pending)

Finish(t) ==
  /\ running[t] # NoJob
  /\ running' = [running EXCEPT ![t] = NoJob]
  /\ UNCHANGED pending

Next ==
  \/ \E j \in Jobs : Submit(j)
  \/ \E t \in Threads : Take(t) \/ Finish(t)

Spec == Init /\ [][Next]_vars

=============================================================================
