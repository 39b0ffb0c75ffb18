SPECIFICATION PageSpec
CONSTANTS
  Channels = {1, 2}
  Profiles = {1, 2}
  MaxSessions = 2
  PollMax = 2
  Starts <- ThreeStarts
  MaxActs = 3
  MaxPending = 2
  Null = Null
  Done = Done
  Refused = Refused
INVARIANT EntryIsLatest
INVARIANT EntryNotGone
PROPERTY PortReleased
PROPERTY AuthorizingEnds
PROPERTY EndsForAReason
CHECK_DEADLOCK FALSE
