SPECIFICATION FairSpec
CONSTANTS
  Workspaces = {w1, w2}
  FirstWorkspace = w1
  Repositories = {r1}
  WorkspaceOf <- SmallWorkspaceOf
  MaxLoads = 2
  MaxPolls = 2
  Prepares = {p1}
  Operations = {o1}
  MaxSelections = 2
  NoWorkspace = NoWorkspace
  NoRepository = NoRepository
INVARIANTS
  DashboardTypeOK
PROPERTIES
  ChosenWorkspaceStays
  DashboardCatchesUp
CHECK_DEADLOCK FALSE
