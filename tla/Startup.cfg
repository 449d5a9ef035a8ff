CONSTANTS
  NumServers = 2
  Children = {p1, p2}
  Faults = {"create", "owner", "dbd", "xml"}
  Nothing = Nothing
  MaxStarts = 2
SPECIFICATION Spec
INVARIANTS TypeOK ServedIsComplete OneLog NoSegmentLost
  ShowsReports
SYMMETRY Exchange
CHECK_DEADLOCK FALSE
