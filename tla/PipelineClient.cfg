SPECIFICATION Spec
CONSTANTS
  MaxRuns = 2
  Jobs = {j1, j2}
  MaxJobs = 6
  MaxMixed = 3
  MaxFaults = 1
  Null = Null
SYMMETRY Symmetry
INVARIANT RunKnown
INVARIANT NavIsOfTheRun
INVARIANT GatesRecorded
CHECK_DEADLOCK FALSE
