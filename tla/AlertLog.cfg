CONSTANTS
  Conn <- TwoConns
  SourceOf <- SameSource
  Silent = {}
  Loud = {1}
  MaxClients = 1
  Limit = 2
  FileLimit = 0
  EmptySweeps = 2
  MaxNotices = 1
  MaxBreaks = 1
SPECIFICATION AlertFairSpec
INVARIANTS LogInvariant
PROPERTIES ToldOnce FirstContactIsTold AlertsReachThePage
CHECK_DEADLOCK FALSE
