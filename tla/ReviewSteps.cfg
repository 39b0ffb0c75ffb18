SPECIFICATION Spec
CONSTANTS
  NumClips = 1
  Cli = TRUE
  MaxActs = 4
  Null = Null
  Refused = Refused
CONSTRAINT Bounded
INVARIANT GeneratingEnds
INVARIANT LoadingEnds
INVARIANT ShownIsStored
CHECK_DEADLOCK FALSE
