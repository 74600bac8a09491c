----------------------- MODULE MCOrganizationMembers -----------------------
(* A small instance of OrganizationMembers for TLC.                        *)
EXTENDS OrganizationMembers, TLC

\* Requests, and the users who join later, are interchangeable.
Symmetry == Permutations(Requests) \cup Permutations(Users \ {FirstUser})
=============================================================================
