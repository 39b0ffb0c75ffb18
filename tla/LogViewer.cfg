SPECIFICATION ViewerSpec
CONSTANTS
  Loggers = {p1, p2}
  Listeners <- MCListeners
  BufCap = 2
  ChanCap = 1
  MaxEntries = 3
  MaxShown = 2
  MaxActs = 2
INVARIANT RingIsLatest
INVARIANT NothingBetween
PROPERTY ImplementsBroadcast
PROPERTY RingReachesPanel
CHECK_DEADLOCK FALSE
