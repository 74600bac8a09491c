------------------------ MODULE OrganizationMembers ------------------------
(***************************************************************************)
(* The members of one organization and their roles (OrganizationMembers-   *)
(* Service).  A handler reads the membership of the user who asks, reads   *)
(* the membership to be changed, counts the other owners, and writes; each *)
(* is a query of its own, no transaction spans them, and handlers of       *)
(* several users run at the same time.                                     *)
(*                                                                         *)
(* A Membership row has a random id: it bears the name of the request that *)
(* created it.                                                             *)
(***************************************************************************)
EXTENDS Naturals, FiniteSets

CONSTANTS Users,
          Requests,     \* calls of add, updateRole and remove
          MaxUnderWay,  \* bound: handlers under way at the same time
          FirstUser,    \* who created the organization
          FirstRow      \* the membership row made with the organization

ASSUME FoundingAssumption ==
  FirstUser \in Users /\ FirstRow \notin Requests /\ MaxUnderWay \in Nat

VARIABLES
  user,                 \* user[m]: userId of row m
  role,                 \* role[m]: role of row m, "NONE" if there is no row m
  request,              \* request[q]: the handler that serves request q
  stale                 \* history: the handlers that were under way while
                        \* another one changed a membership

vars == <<user, role, request, stale>>

\* DEVELOPER stands for VIEWER too: neither manages anything.
Roles == {"OWNER", "ADMIN", "DEVELOPER"}
Rows == Requests \cup {FirstRow}
Members == {m \in Rows : role[m] # "NONE"}
Owners == {m \in Rows : role[m] = "OWNER"}

Idle == [at |-> "idle", asked |-> "NONE", actor |-> "NONE",
         who |-> FirstUser, row |-> FirstRow]


\* OrganizationsService.create inserts the organization and its first row.
Init ==
  /\ user = [m \in Rows |-> FirstUser]
  /\ role = [m \in Rows |-> IF m = FirstRow THEN "OWNER" ELSE "NONE"]
  /\ request = [q \in Requests |-> Idle]
  /\ stale = {}

UnderWay(q) == request[q].at \in {"creating", "finding", "counting", "writing"}

Free(q) ==
  /\ request[q].at = "idle"
  /\ Cardinality({p \in Requests : UnderWay(p)}) < MaxUnderWay

\* The handler goes on with the state of its call changed.
Becomes(q, call) ==
  /\ request' = [request EXCEPT ![q] = call]
  /\ UNCHANGED <<user, role, stale>>
\* A handler that answers with an error has changed nothing; its name may
\* serve another request.
Refuse(q) ==
  /\ request' = [request EXCEPT ![q] = Idle]
  /\ stale' = stale \ {q}
  /\ UNCHANGED <<user, role>>

\* The role of a user as findActorMembership reads it.
RoleOf(u) ==
  IF \E m \in Members : user[m] = u
  THEN role[CHOOSE m \in Members : user[m] = u] ELSE "NONE"
Manages(r) == r \in {"OWNER", "ADMIN"}

\* The write of q goes through: what other handlers have read may be wrong.
Wrote(q) ==
  /\ request' = [request EXCEPT ![q] = [Idle EXCEPT !.at = "done"]]
  /\ stale' = stale \cup {p \in Requests \ {q} : UnderWay(p)}

-----------------------------------------------------------------------------
(* add                                                                     *)

Add(q, u, v, new) ==
  /\ Free(q)
  /\ Manages(RoleOf(u)) /\ (new = "OWNER" => RoleOf(u) = "OWNER")
  /\ Becomes(q, [at |-> "creating", asked |-> new, actor |-> RoleOf(u),
                 who |-> v, row |-> q])

\* Mutation: the pair of user and organization is not unique.
CreateMemberAgain(q) ==
  /\ request[q].at = "creating"
  /\ user' = [user EXCEPT ![q] = request[q].who]
  /\ role' = [role EXCEPT ![q] = request[q].asked]
  /\ Wrote(q)

\* The insert succeeds unless the user is a member (@@unique).
CreateMember(q) ==
  /\ request[q].at = "creating"
  /\ IF \E m \in Members : user[m] = request[q].who
     THEN Refuse(q)
     ELSE /\ user' = [user EXCEPT ![q] = request[q].who]
          /\ role' = [role EXCEPT ![q] = request[q].asked]
          /\ Wrote(q)

-----------------------------------------------------------------------------
(* updateRole and remove                                                   *)

\* User u asks to give row m another role, or to remove it ("NONE").
Ask(q, u, m, new) ==
  /\ Free(q)
  /\ Manages(RoleOf(u))
  /\ Becomes(q, [Idle EXCEPT !.at = "finding", !.asked = new,
                             !.actor = RoleOf(u), !.row = m])

\* Mutation: only the role asked for is compared with OWNER.
VerdictByAsked(q, r) ==
  LET asked == request[q].asked IN
  IF \/ r = "NONE"
     \/ request[q].actor # "OWNER" /\ asked = "OWNER"
  THEN "error"
  ELSE IF r = "OWNER" /\ asked # "OWNER" THEN "counting" ELSE "writing"

\* What the handler does next, given that it has read role r in the row.
Verdict(q, r) ==
  LET asked == request[q].asked IN
  IF \/ r = "NONE"
     \/ request[q].actor # "OWNER" /\ "OWNER" \in {r, asked}
  THEN "error"
  ELSE IF r = "OWNER" /\ asked # "OWNER" THEN "counting" ELSE "writing"

FindTarget(q) ==
  LET r == role[request[q].row] IN
  /\ request[q].at = "finding"
  /\ IF Verdict(q, r) = "error"
     THEN Refuse(q)
     ELSE Becomes(q, [request[q] EXCEPT !.at = Verdict(q, r)])

\* Mutation: the row to be changed is counted too.
CountAllOwners(q) ==
  /\ request[q].at = "counting"
  /\ IF Owners = {}
     THEN Refuse(q)
     ELSE Becomes(q, [request[q] EXCEPT !.at = "writing"])

\* assertAnotherOwnerExists
CountOwners(q) ==
  /\ request[q].at = "counting"
  /\ IF Owners \ {request[q].row} = {}
     THEN Refuse(q)
     ELSE Becomes(q, [request[q] EXCEPT !.at = "writing"])

\* The update or delete names the row by its id alone; it fails when the
\* row is gone.
Write(q) ==
  LET m == request[q].row IN
  /\ request[q].at = "writing"
  /\ IF m \notin Members
     THEN Refuse(q)
     ELSE /\ role' = [role EXCEPT ![m] = request[q].asked]
          /\ UNCHANGED user
          /\ Wrote(q)

\* A query fails, or the API dies: nothing undoes what others have read.
Fail(q) == UnderWay(q) /\ Refuse(q)

Next ==
  \E q \in Requests :
    \/ \E u, v \in Users, new \in Roles : Add(q, u, v, new)
    \/ \E u \in Users, m \in Rows, new \in Roles \cup {"NONE"} : Ask(q, u, m, new)
    \/ CreateMember(q) \/ FindTarget(q) \/ CountOwners(q) \/ Write(q)
    \/ Fail(q)

Spec == Init /\ [][Next]_vars

-----------------------------------------------------------------------------
\* Every variable has its type, and a user has at most one membership.
TypeOK ==
  /\ user \in [Rows -> Users]
  /\ role \in [Rows -> Roles \cup {"NONE"}]
  /\ request \in [Requests ->
       [at : {"idle", "creating", "finding", "counting", "writing", "done"},
        asked : Roles \cup {"NONE"}, actor : Roles \cup {"NONE"},
        who : Users, row : Rows]]
  /\ stale \subseteq Requests
  /\ \A m, n \in Members : user[m] = user[n] => m = n

\* The organization loses its last owner only through a handler that was
\* overtaken: another one changed a membership after it had begun.
OwnersKeptUnlessOvertaken ==
  Owners # {} \/ \E q \in stale : request[q].at = "done"

\* An owner's membership is changed for somebody who is not an owner only
\* when the row became an owner's after the handler had read it.
AdminsSpareOwners ==
  [][\A q \in Requests, m \in Rows :
       (/\ request[q].at = "writing" /\ request'[q].at = "done"
        /\ role[m] = "OWNER" /\ role'[m] # "OWNER")
       => request[q].actor = "OWNER" \/ q \in stale]_vars
=============================================================================
