SPECIFICATION MCSpec
CONSTANTS
  Calls = {c1, c2, c3, c4}
  Users = {u1}
  MaxFaults = 1
  NoToken = NoToken
INVARIANTS
  WebTypeOK
  JarNotStranded
  SignedOutOnlyWhenOver
  LogoutAloneEnds
CHECK_DEADLOCK FALSE
