SPECIFICATION Spec
CONSTANTS
  Runs = {r1}
  Clients = {c1, c2}
  Slots = {s1, s2, s3}
  NoSlot = NoSlot
  NoRun = NoRun
  PriorVideo = TRUE
  Aborts = TRUE
  MaxRestarts = 1
SYMMETRY Symmetry
INVARIANTS
  PhaseMatchesState
  OneWorkerPerRun
  CancelFollowsDatabase
  CancelMapLive
  ExecutionFollowsMode
PROPERTY
  ImplementsLifecycleSafety
CHECK_DEADLOCK FALSE
