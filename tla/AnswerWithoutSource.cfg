SPECIFICATION Spec
CONSTANTS
  r1 = r1
  r2 = r2
  e1 = e1
  e2 = e2
  e3 = e3
  j1 = j1
  j2 = j2
  Requests = {r1, r2}
  Encoders = {e1, e2, e3}
  Jobs = {j1, j2}
  NoJob = NoJob
  NumSlots = 3
  Supported = {j1, j2}
  MaxWorkers = 1
  Faults = {}
  MaxRequests = 3
INVARIANT CompleteAnswerHasSource
