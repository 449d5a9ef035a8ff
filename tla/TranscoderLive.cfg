SPECIFICATION FairSpec
CONSTANTS
  r1 = r1
  r2 = r2
  e1 = e1
  e2 = e2
  j1 = j1
  j2 = j2
  Requests = {r1, r2}
  Encoders = {e1, e2}
  Jobs = {j1, j2}
  NoJob = NoJob
  NumSlots = 2
  Supported = {j1}
  MaxWorkers = 2
  Faults = {"query", "insert", "codec", "first_frame"}
  MaxRequests = 2
INVARIANT WaitingJobHasEncoder
PROPERTIES
  SlotIsFreed
  RequestIsAnswered
