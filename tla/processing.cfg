SPECIFICATION ProcessingFairSpec
CONSTANTS
  Requests = {q1, q2}
  MaxStalls = 1
  Faults = {"crash", "database", "redis"}
  MaxFaults = 2
  NoRun = NoRun
INVARIANTS
  ProcessingTypeOK
  ActiveRunHasJob
  OneActiveRun
PROPERTIES
  ActiveRunsEnd
CHECK_DEADLOCK FALSE
