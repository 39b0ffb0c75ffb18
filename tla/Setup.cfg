SPECIFICATION Spec
CONSTANTS
  Starts <- NothingOrAll
  Elsewhere <- OneElsewhere
  MaxActs = 3
  Null = Null
  Refused = Refused
INVARIANT WaitingEnds
INVARIANT DoneIsSeen
INVARIANT MissingIsPolled
CHECK_DEADLOCK FALSE
CONSTRAINT Bounded
