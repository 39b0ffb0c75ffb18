SPECIFICATION PageSpec
CONSTANTS
  NumItems = 2
  NumChannels = 2
  Intervals = {0, 2}
  MaxActs = 3
  Status0 <- OneOfEach
  Null = Null
  Refused = Refused
  Done = Done
INVARIANT BusyEnds
INVARIANT ShownIsStored
PROPERTY ScheduledAsReviewed
CHECK_DEADLOCK FALSE
CONSTRAINT Bounded
