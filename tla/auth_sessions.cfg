SPECIFICATION AuthSpec
CONSTANTS
  Calls = {c1, c2, c3, c4, c5}
  Users = {u1}
SYMMETRY Symmetry
INVARIANT AuthTypeOK
PROPERTY ImplementsSessionTokens
