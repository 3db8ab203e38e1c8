SPECIFICATION FairSpec
CONSTANTS
  MaxInputs = 2
  MaxCancels = 1
  MaxFailures = 1
CHECK_DEADLOCK FALSE
INVARIANTS
  InputsAreWrittenTruly
PROPERTIES
  StoppedRunsRelease
