SPECIFICATION FairSpec
CONSTANTS
  Repositories = {r1}
  Commits = {c1, c2}
  MaxPushes = 2
  MaxSends = 1
  Retained = 2
  MaxStalls = 1
  Faults = {"crash", "database", "redis", "github", "lostReply", "ollama"}
  MaxFaults = 1
  NoRepository = NoRepository
  NoCommit = NoCommit
PROPERTIES
  RunsSettle
  HeadSettles
