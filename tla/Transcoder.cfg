SPECIFICATION Spec
CONSTANTS
  r1 = r1
  r2 = r2
  e1 = e1
  e2 = e2
  e3 = e3
  j1 = j1
  j2 = j2
  Requests = {r1, r2}
  Encoders = {e1, e2, e3}
  Jobs = {j1, j2}
  NoJob = NoJob
  NumSlots = 2
  Supported = {j1}
  MaxWorkers = 2
  Faults = {"query", "insert", "codec", "first_frame", "spawn"}
  MaxRequests = 3
SYMMETRY Symmetry
INVARIANTS
  TypeOK
  LinkHasSource
PROPERTY UsesQueueAsSpecified
\* The third job may find both slots in use: the mutex then stays locked.
CHECK_DEADLOCK FALSE
