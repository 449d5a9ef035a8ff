SPECIFICATION Spec
CONSTANTS
  t1 = t1
  t2 = t2
  t3 = t3
  j1 = j1
  j2 = j2
  Threads = {t1, t2, t3}
  Jobs = {j1, j2}
  NoJob = NoJob
  NumSlots = 3
INVARIANTS
  TypeOK
  OneOwner
  WaitingListLinked
  LockKeptWhenFull
SYMMETRY Symmetry
PROPERTIES
  ImplementsFifo
  JobsNotOverwritten
\* A full queue keeps the mutex locked for good: the code really stops.
CHECK_DEADLOCK FALSE
