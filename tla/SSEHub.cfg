SPECIFICATION FairHubSpec
CONSTANTS
  Publishers = {p1, p2}
  Listeners = {l1, l2}
  Readers = {l1}
  MaxHistory = 2
  ChanCap = 2
  MaxEvents = 2
INVARIANT NothingBetween
PROPERTY ImplementsBroadcast
PROPERTY ReplayComplete
PROPERTY HistoryReachesAll
CHECK_DEADLOCK FALSE
