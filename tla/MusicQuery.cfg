SPECIFICATION FairSpec
CONSTANTS
  Params <- MCParams
  Answer <- MCAnswer
  PageSize = 2
  Faults = {"garbage", "bad", "missing"}
  MaxLoads = 4
  MaxRows = 5
INVARIANTS
  TypeOK
  HasFirstPages
PROPERTY QueryEnds
