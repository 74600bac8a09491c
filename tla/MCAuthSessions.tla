--------------------------- MODULE MCAuthSessions ---------------------------
(* A small instance of AuthSessions for TLC.                               *)
EXTENDS AuthSessions, TLC

\* Calls, and users, are told apart only by what happens to them.
Symmetry == Permutations(Calls) \cup Permutations(Users)
=============================================================================
