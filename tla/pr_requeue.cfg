SPECIFICATION Spec
CONSTANTS
  Repositories = {r1}
  Commits = {c1}
  MaxPushes = 1
  MaxSends = 2
  Retained = 100
  MaxStalls = 1
  Faults = {"ollama"}
  MaxFaults = 1
  NoRepository = NoRepository
  NoCommit = NoCommit
INVARIANT QueuedRunsWait
