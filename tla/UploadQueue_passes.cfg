SPECIFICATION FairSpec
CONSTANTS
  NumClips = 2
  Keyed = {1}
  MaxRows = 1
  Confirmers = {c1}
  Schedulers = {b1}
  Loop = loop
  Triggers = {t1}
  MaxAsked = 2
  Aborts = TRUE
  MaxRestarts = 1
PROPERTY ImplementsLedger
PROPERTY DueIsTried
PROPERTY RunningEnds
CHECK_DEADLOCK FALSE
