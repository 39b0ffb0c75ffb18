SPECIFICATION FairSpec
CONSTANTS
  Runs = {r1}
  Clients = {c1, c2}
  Slots = {s1, s2, s3}
  NoSlot = NoSlot
  NoRun = NoRun
  PriorVideo = TRUE
  Aborts = FALSE
  MaxRestarts = 0
PROPERTIES
  ImplementsLifecycle
  DownloadResolves
CHECK_DEADLOCK FALSE
