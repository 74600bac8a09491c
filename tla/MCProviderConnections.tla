----------------------- MODULE MCProviderConnections -----------------------
(* A small instance of ProviderConnections for TLC: two organizations with  *)
(* a workspace each and a manager of its own; the manager of the first is   *)
(* a developer in the second.                                               *)
EXTENDS ProviderConnections, TLC

CONSTANTS o1, o2, u1, u2, a1, a2, w1, w2, r1

SmallOrganizationOf == w1 :> o1 @@ w2 :> o2
SmallAccountOf == [i \in 1..MaxInstallation |-> IF i = 3 THEN a2 ELSE a1]
SmallHolderOf == r1 :> a1
SmallRoles ==
  <<o1, u1>> :> "MANAGER" @@ <<o1, u2>> :> "NONE" @@
  <<o2, u1>> :> "DEVELOPER" @@ <<o2, u2>> :> "MANAGER"

Symmetry == Permutations(Completions)
=============================================================================
