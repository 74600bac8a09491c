SPECIFICATION Spec
SYMMETRY RepositorySymmetry
CONSTANTS
  Repositories = {r1, r2}
  Commits = {c1}
  MaxPushes = 2
  MaxSends = 1
  Retained = 2
  MaxStalls = 1
  Faults = {"crash", "redis"}
  MaxFaults = 2
  NoRepository = NoRepository
  NoCommit = NoCommit
INVARIANTS
  RunningHasJob
  OneReviewPerExecution
  AnswerCoversEveryRepository
