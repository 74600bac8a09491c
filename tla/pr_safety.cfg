SPECIFICATION Spec
SYMMETRY Symmetry
CONSTANTS
  Repositories = {r1}
  Commits = {c1, c2}
  MaxPushes = 3
  MaxSends = 1
  Retained = 1
  MaxStalls = 1
  Faults = {"crash", "database", "redis", "github", "lostReply", "ollama"}
  MaxFaults = 1
  NoRepository = NoRepository
  NoCommit = NoCommit
INVARIANTS
  TypeOK
  CompletedIsPublished
  ChecksClosed
  HeadNotSkipped
  ReviewIsNotOlder
PROPERTY SettledIsFinal
