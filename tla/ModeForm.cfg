SPECIFICATION FormSpec
CONSTANTS
  Durations = {1200}
  Names = {p}
  Earlier = {}
  MaxClicks = 5
  MaxEdits = 2
  MaxFaults = 1
  None = None
INVARIANT FormIsTheConfig
INVARIANT Remembered
CHECK_DEADLOCK FALSE
CONSTRAINT Bounded
