--------------------------- MODULE ErrorMessages ---------------------------
(***************************************************************************)
(* The error log of src/src/error_messages.c: one table in shared memory,  *)
(* to which the threads of all server processes add without a lock, and    *)
(* which every request copies into the list of its own answer, entry by    *)
(* entry, while others still write.                                        *)
(*                                                                         *)
(* A text stands for the type, the header and the message of one call.     *)
(* Type and header are one value here; header and message are written, and *)
(* copied, one after the other.                                            *)
(***************************************************************************)
EXTENDS Integers, Sequences, FiniteSets

CONSTANTS
  Adders,     \* threads that report errors
  Readers,    \* threads that copy the log into an answer
  Limit,      \* 1024
  MaxAdds,    \* bound: errors each thread reports
  Empty,      \* the zero bytes of a new segment
  Torn        \* part of a string that is being written

ASSUME ThreadsAssumption == IsFiniteSet(Adders) /\ Adders \cap Readers = {}
ASSUME LimitAssumption == Limit \in Nat \ {0}
ASSUME MaxAddsAssumption == MaxAdds \in Nat

Texts == Adders \X (1 .. MaxAdds)

ASSUME EmptyAssumption == Empty \notin Texts /\ Torn \notin Texts /\ Empty # Torn

\* The table and what lies behind it, as far as the adders can get.
Entries == 0 .. Limit + Cardinality(Adders) - 1

VARIABLES
  num_errors, header, message,  \* error_messages_t, in shared memory
  pc,                           \* where each thread is
  error_num,                    \* the entry an adder was given
  adds,                         \* errors an adder has reported, or is reporting
  added,                        \* auxiliary: the texts of the adds that are over
  new                           \* the private list of each reader

table == <<num_errors, header, message>>
vars == <<table, pc, error_num, adds, added, new>>

Copies == [header : Texts \cup {Empty, Torn}, message : Texts \cup {Empty, Torn}]

TypeOK ==
  /\ num_errors \in Nat
  /\ header \in [Entries -> Texts \cup {Empty}]
  /\ message \in [Entries -> Texts \cup {Empty}]
  /\ pc \in [Adders \cup Readers -> {"idle", "claim", "header", "message"}]
  /\ error_num \in [Adders -> Entries]
  /\ adds \in [Adders -> 0 .. MaxAdds]
  /\ added \subseteq Texts
  /\ new \in [Readers -> Seq(Copies)]

\* error_messages_init_shared
Init ==
  /\ num_errors = 0
  /\ header = [i \in Entries |-> Empty]
  /\ message = [i \in Entries |-> Empty]
  /\ pc = [t \in Adders \cup Readers |-> "idle"]
  /\ error_num = [t \in Adders |-> 0]
  /\ adds = [t \in Adders |-> 0]
  /\ added = {}
  /\ new = [r \in Readers |-> << >>]

Goto(t, label) == pc' = [pc EXCEPT ![t] = label]
Text(t) == <<t, adds[t]>>

-----------------------------------------------------------------------------
(* error_messages_add *)

\* Mutated forms of Check: no limit; one entry too many; a cleanup when full.
Check_NoLimit(t) ==
  /\ pc[t] = "idle" /\ adds[t] < MaxAdds
  /\ adds' = [adds EXCEPT ![t] = @ + 1]
  /\ Goto(t, "claim")
  /\ UNCHANGED <<table, error_num, added, new>>
Check_OffByOne(t) ==
  /\ pc[t] = "idle" /\ adds[t] < MaxAdds
  /\ adds' = [adds EXCEPT ![t] = @ + 1]
  /\ IF num_errors > Limit THEN UNCHANGED pc ELSE Goto(t, "claim")
  /\ UNCHANGED <<table, error_num, added, new>>
Check_Cleanup(t) ==
  /\ pc[t] = "idle" /\ adds[t] < MaxAdds
  /\ adds' = [adds EXCEPT ![t] = @ + 1]
  /\ Goto(t, "claim")
  /\ num_errors' = IF num_errors >= Limit THEN 0 ELSE num_errors
  /\ UNCHANGED <<header, message, error_num, added, new>>

\* The check: a log that has its 1024 entries takes no more (return -1).
Check(t) ==
  /\ pc[t] = "idle" /\ adds[t] < MaxAdds
  /\ adds' = [adds EXCEPT ![t] = @ + 1]
  /\ IF num_errors >= Limit THEN UNCHANGED pc ELSE Goto(t, "claim")
  /\ UNCHANGED <<table, error_num, added, new>>

\* Mutated: __sync_add_and_fetch.
Claim_AddAndFetch(t) ==
  /\ pc[t] = "claim"
  /\ error_num' = [error_num EXCEPT ![t] = num_errors + 1]
  /\ num_errors' = num_errors + 1
  /\ Goto(t, "header")
  /\ UNCHANGED <<header, message, adds, added, new>>

\* __sync_fetch_and_add: the entry is claimed, and visible from here on.
Claim(t) ==
  /\ pc[t] = "claim"
  /\ error_num' = [error_num EXCEPT ![t] = num_errors]
  /\ num_errors' = num_errors + 1
  /\ Goto(t, "header")
  /\ UNCHANGED <<header, message, adds, added, new>>

WriteHeader(t) ==
  /\ pc[t] = "header"
  /\ header' = [header EXCEPT ![error_num[t]] = Text(t)]
  /\ Goto(t, "message")
  /\ UNCHANGED <<num_errors, message, error_num, adds, added, new>>

\* What is written behind the table is not counted as reported.
WriteMessage(t) ==
  /\ pc[t] = "message"
  /\ message' = [message EXCEPT ![error_num[t]] = Text(t)]
  /\ added' = IF error_num[t] < Limit THEN added \cup {Text(t)} ELSE added
  /\ Goto(t, "idle")
  /\ UNCHANGED <<num_errors, header, error_num, adds, new>>

-----------------------------------------------------------------------------
(* error_messages_duplicate, into the empty list of a new answer *)

\* What a read of an entry may see while a thread is writing it, or behind the
\* table, where other data lies.
Seen(field, label, i) ==
  {field[i]} \cup
    IF i >= Limit \/ \E t \in Adders : pc[t] = label /\ error_num[t] = i
    THEN {Torn} ELSE {}

\* mp_handler: a new request with a new list.
Begin(r) ==
  /\ pc[r] = "idle"
  /\ new' = [new EXCEPT ![r] = << >>]
  /\ Goto(r, "header")
  /\ UNCHANGED <<table, error_num, adds, added>>

\* The loop reads num_errors anew for every entry.
CopyHeader(r) ==
  /\ pc[r] = "header" /\ Len(new[r]) < num_errors
  /\ \E h \in Seen(header, "header", Len(new[r])) :
       new' = [new EXCEPT ![r] = Append(@, [header |-> h, message |-> Empty])]
  /\ Goto(r, "message")
  /\ UNCHANGED <<table, error_num, adds, added>>

CopyMessage(r) ==
  /\ pc[r] = "message"
  /\ \E m \in Seen(message, "message", Len(new[r]) - 1) :
       new' = [new EXCEPT ![r][Len(new[r])].message = m]
  /\ Goto(r, "header")
  /\ UNCHANGED <<table, error_num, adds, added>>

\* The loop ends; the list is printed.
End(r) ==
  /\ pc[r] = "header" /\ Len(new[r]) >= num_errors
  /\ Goto(r, "idle")
  /\ UNCHANGED <<table, error_num, adds, added, new>>

Next ==
  \/ \E t \in Adders : Check(t) \/ Claim(t) \/ WriteHeader(t) \/ WriteMessage(t)
  \/ \E r \in Readers : Begin(r) \/ CopyHeader(r) \/ CopyMessage(r) \/ End(r)

Spec == Init /\ [][Next]_vars

-----------------------------------------------------------------------------
(* Properties *)

\* The check and the claim are two steps, so the log can grow beyond its limit,
\* but by fewer entries than there are threads: num_errors never runs away.
OverrunBounded == num_errors <= Limit + Cardinality(Adders) - 1

\* No report that found room in the table is lost or overwritten, and none has
\* its header in one entry and its message in another.
NothingLost ==
  \A x \in added : \E i \in 0 .. num_errors - 1 : header[i] = x /\ message[i] = x

\* What a request copied is what the log still says, apart from entries that
\* were being written at that moment.
CopyAgrees ==
  \A r \in Readers : \A i \in 1 .. Len(new[r]) :
    /\ new[r][i].header \in {header[i - 1], Empty, Torn}
    /\ new[r][i].message \in {message[i - 1], Empty, Torn}

=============================================================================
