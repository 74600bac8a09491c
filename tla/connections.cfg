SPECIFICATION Spec
SYMMETRY Symmetry
CONSTANTS
  o1 = o1
  o2 = o2
  u1 = u1
  u2 = u2
  a1 = a1
  a2 = a2
  w1 = w1
  w2 = w2
  r1 = r1
  Organizations = {o1, o2}
  Users = {u1, u2}
  Accounts = {a1}
  Workspaces = {w1, w2}
  OrganizationOf <- SmallOrganizationOf
  MaxInstallation = 2
  AccountOf <- SmallAccountOf
  Repositories = {r1}
  HolderOf <- SmallHolderOf
  Completions = {q1, q2}
  Imports = {m1}
  FirstRoles <- SmallRoles
  NewRoles = {"NONE"}
  MaxRoleChanges = 1
  NoOne = NoOne
INVARIANTS
  ConnectionsTypeOK
  ConnectedByRequester
  ImportedThroughItsConnection
PROPERTY InstallationsForward
CHECK_DEADLOCK FALSE
