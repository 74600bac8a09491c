SPECIFICATION Spec
CONSTANTS
  Users = {u1, u2, u3}
  Requests = {q1, q2, q3, q4}
  MaxUnderWay = 2
  FirstUser = u1
  FirstRow = m1
SYMMETRY Symmetry
INVARIANTS
  TypeOK
  OwnersKeptUnlessOvertaken
PROPERTIES
  AdminsSpareOwners
CHECK_DEADLOCK FALSE
