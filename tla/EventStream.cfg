CONSTANTS
  Page = {"p1", "p2"}
  MaxConns = 2
  MaxBreaks = 2
  MaxLive = 2
  MAX_EVENTS = 2
  MAX_STREAMS = 1
SPECIFICATION StreamFairSpec
INVARIANTS StreamIsExact SlotsAreExact
PROPERTIES PageSeesTheEnd
CHECK_DEADLOCK FALSE
