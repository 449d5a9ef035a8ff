SPECIFICATION Spec
CONSTANTS
  Threads = {r1, r2, r3}
  NULL = NULL
  TableElems <- MCTableElems
  Inputs <- MCInputs
  Documents <- MCDocuments
  TableRows <- MCRows
  Connections = 2
  Faults = {"select", "lost", "open"}
INVARIANTS
  AnswerFits
  LockReleased
SYMMETRY MCSymmetry
