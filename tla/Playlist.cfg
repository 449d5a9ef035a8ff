SPECIFICATION PlaylistSpec
CONSTANTS
  Params <- MCParams
  Columns <- MCColumns
  Orders <- MCOrders
  FirstOrder = "+"
  Answer <- MCAnswer
  PageSize = 2
  Faults = {"garbage", "missing"}
  MaxLoads = 3
  MaxRows = 3
  Undefined = Undefined
INVARIANT SearchShowsResults
