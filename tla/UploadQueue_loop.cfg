SPECIFICATION Spec
CONSTANTS
  NumClips = 2
  Keyed = {1, 2}
  MaxRows = 2
  Confirmers = {c1, c2}
  Schedulers = {}
  Loop = loop
  Triggers = {}
  MaxAsked = 2
  Aborts = TRUE
  MaxRestarts = 1
SYMMETRY Symmetry
INVARIANT RunningIsWorked
PROPERTY ImplementsLedger
CHECK_DEADLOCK FALSE
