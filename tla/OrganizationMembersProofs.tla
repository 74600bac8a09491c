--------------------- MODULE OrganizationMembersProofs ---------------------
(***************************************************************************)
(* For any number of users and requests: the type invariant, with one      *)
(* membership per user, that an organization loses its last owner only     *)
(* through a handler that was overtaken by the write of another, and that  *)
(* an administrator whose handler was not overtaken changes no owner.      *)
(***************************************************************************)
EXTENDS OrganizationMembers, TLAPS

AnyRole == Roles \cup {"NONE"}

\* A request makes its row when it ends.
FreshRows == \A q \in Requests : request[q].at # "done" => role[q] = "NONE"

\* What a handler that was not overtaken has read still holds when it
\* writes: it takes nothing from an owner, or there is another one.
ReadingsHold ==
  \A q \in Requests \ stale :
    request[q].at = "writing"
      => \/ request[q].asked = "OWNER"
         \/ role[request[q].row] # "OWNER"
         \/ \E m \in Rows : m # request[q].row /\ role[m] = "OWNER"

Overtaken == \E q \in stale : request[q].at = "done"
OwnerExists == \E m \in Rows : role[m] = "OWNER"

OwnerInv == FreshRows /\ (Overtaken \/ (OwnerExists /\ ReadingsHold))

-----------------------------------------------------------------------------
(* The type invariant                                                      *)

Call ==
  [at : {"idle", "creating", "finding", "counting", "writing", "done"},
   asked : AnyRole, actor : AnyRole, who : Users, row : Rows]

VarsTyped ==
  /\ user \in [Rows -> Users]
  /\ role \in [Rows -> AnyRole]
  /\ request \in [Requests -> Call]
  /\ stale \subseteq Requests
OneRowPerUser ==
  \A m, n \in Rows :
    role[m] # "NONE" /\ role[n] # "NONE" /\ user[m] = user[n] => m = n

LEMMA TypeSplit == TypeOK <=> VarsTyped /\ OneRowPerUser
  BY DEF TypeOK, VarsTyped, OneRowPerUser, Call, AnyRole, Members

LEMMA RoleOfType ==
  ASSUME VarsTyped, NEW u
  PROVE  RoleOf(u) \in AnyRole
<1>1. ASSUME \E m \in Members : user[m] = u
      PROVE  (CHOOSE m \in Members : user[m] = u) \in Rows
  BY <1>1 DEF Members
<1> QED
  BY <1>1 DEF RoleOf, AnyRole, VarsTyped

LEMMA IdleType == Idle \in Call
  BY FoundingAssumption DEF Idle, Call, AnyRole, Rows

LEMMA TypeInit == Init => VarsTyped /\ OneRowPerUser
<1> SUFFICES ASSUME Init PROVE VarsTyped /\ OneRowPerUser
  OBVIOUS
<1>1. VarsTyped
  BY IdleType, FoundingAssumption DEF Init, VarsTyped, AnyRole, Roles
<1>2. OneRowPerUser
  BY DEF Init, OneRowPerUser
<1> QED
  BY <1>1, <1>2

LEMMA RefuseType ==
  ASSUME VarsTyped, OneRowPerUser, NEW q \in Requests, Refuse(q)
  PROVE  VarsTyped' /\ OneRowPerUser'
  BY IdleType DEF Refuse, VarsTyped, OneRowPerUser

LEMMA BecomesType ==
  ASSUME VarsTyped, OneRowPerUser, NEW q \in Requests, NEW call \in Call,
         Becomes(q, call)
  PROVE  VarsTyped' /\ OneRowPerUser'
  BY DEF Becomes, VarsTyped, OneRowPerUser

LEMMA WroteType ==
  ASSUME VarsTyped, NEW q \in Requests, Wrote(q)
  PROVE  request' \in [Requests -> Call] /\ stale' \subseteq Requests
<1>1. [Idle EXCEPT !.at = "done"] \in Call
  BY IdleType DEF Call
<1> QED
  BY <1>1 DEF Wrote, VarsTyped

LEMMA TypeStep ==
  ASSUME VarsTyped, OneRowPerUser, [Next]_vars
  PROVE  VarsTyped' /\ OneRowPerUser'
<1>1. ASSUME NEW q \in Requests, NEW u \in Users, NEW v \in Users,
             NEW new \in Roles, Add(q, u, v, new)
      PROVE  VarsTyped' /\ OneRowPerUser'
  <2>1. [at |-> "creating", asked |-> new, actor |-> RoleOf(u),
         who |-> v, row |-> q] \in Call
    BY RoleOfType DEF Call, Rows, AnyRole
  <2> QED
    BY <1>1, <2>1, BecomesType DEF Add
<1>2. ASSUME NEW q \in Requests, NEW u \in Users, NEW m \in Rows,
             NEW new \in AnyRole, Ask(q, u, m, new)
      PROVE  VarsTyped' /\ OneRowPerUser'
  <2>1. [Idle EXCEPT !.at = "finding", !.asked = new, !.actor = RoleOf(u),
                     !.row = m] \in Call
    BY RoleOfType, IdleType DEF Call
  <2> QED
    BY <1>2, <2>1, BecomesType DEF Ask
<1>3. ASSUME NEW q \in Requests, CreateMember(q)
      PROVE  VarsTyped' /\ OneRowPerUser'
  <2>1. CASE \E m \in Members : user[m] = request[q].who
    BY <1>3, <2>1, RefuseType DEF CreateMember
  <2>2. CASE ~ \E m \in Members : user[m] = request[q].who
    <3>1. /\ user' = [user EXCEPT ![q] = request[q].who]
          /\ role' = [role EXCEPT ![q] = request[q].asked]
          /\ Wrote(q)
      BY <1>3, <2>2 DEF CreateMember
    <3>2. q \in Rows /\ request[q].who \in Users /\ request[q].asked \in AnyRole
      BY DEF VarsTyped, Call, Rows
    <3>3. VarsTyped'
      BY <3>1, <3>2, WroteType DEF VarsTyped
    <3>4. OneRowPerUser'
      BY <2>2, <3>1, <3>2 DEF VarsTyped, OneRowPerUser, Members
    <3> QED
      BY <3>3, <3>4
  <2> QED
    BY <2>1, <2>2
<1>4. ASSUME NEW q \in Requests, FindTarget(q)
      PROVE  VarsTyped' /\ OneRowPerUser'
  <2> DEFINE verdict == Verdict(q, role[request[q].row])
  <2>1. CASE verdict = "error"
    BY <1>4, <2>1, RefuseType DEF FindTarget
  <2>2. CASE verdict # "error"
    <3>1. verdict \in {"counting", "writing"}
      BY <2>2 DEF Verdict
    <3>2. [request[q] EXCEPT !.at = verdict] \in Call
      BY <3>1 DEF VarsTyped, Call
    <3> QED
      BY <1>4, <2>2, <3>2, BecomesType DEF FindTarget
  <2> QED
    BY <2>1, <2>2
<1>5. ASSUME NEW q \in Requests, CountOwners(q)
      PROVE  VarsTyped' /\ OneRowPerUser'
  <2>1. [request[q] EXCEPT !.at = "writing"] \in Call
    BY DEF VarsTyped, Call
  <2> QED
    BY <1>5, <2>1, RefuseType, BecomesType DEF CountOwners
<1>6. ASSUME NEW q \in Requests, Write(q)
      PROVE  VarsTyped' /\ OneRowPerUser'
  <2>1. CASE request[q].row \notin Members
    BY <1>6, <2>1, RefuseType DEF Write
  <2>2. CASE request[q].row \in Members
    <3>1. /\ role' = [role EXCEPT ![request[q].row] = request[q].asked]
          /\ user' = user /\ Wrote(q)
      BY <1>6, <2>2 DEF Write
    <3>2. request[q].row \in Rows /\ request[q].asked \in AnyRole
      BY DEF VarsTyped, Call
    <3>3. VarsTyped'
      BY <3>1, <3>2, WroteType DEF VarsTyped
    <3>4. OneRowPerUser'
      BY <2>2, <3>1, <3>2 DEF VarsTyped, OneRowPerUser, Members
    <3> QED
      BY <3>3, <3>4
  <2> QED
    BY <2>1, <2>2
<1>7. ASSUME NEW q \in Requests, Fail(q)
      PROVE  VarsTyped' /\ OneRowPerUser'
  BY <1>7, RefuseType DEF Fail
<1>8. ASSUME UNCHANGED vars PROVE VarsTyped' /\ OneRowPerUser'
  BY <1>8 DEF vars, VarsTyped, OneRowPerUser
<1> QED
  BY <1>1, <1>2, <1>3, <1>4, <1>5, <1>6, <1>7, <1>8 DEF Next, AnyRole

\* The rows, the handlers and the uniqueness of memberships, for any number
\* of users and requests.
THEOREM TypeCorrect == Spec => []TypeOK
<1>1. VarsTyped /\ OneRowPerUser => TypeOK
  BY TypeSplit
<1> QED
  BY <1>1, TypeInit, TypeStep, PTL DEF Spec

-----------------------------------------------------------------------------
(* The last owner                                                          *)

LEMMA OwnerInit == Init => OwnerInv
  BY FoundingAssumption
  DEF Init, OwnerInv, FreshRows, OwnerExists, ReadingsHold, Idle, Rows

\* A handler that ends in an error, or goes on reading, writes nothing.
LEMMA RefuseOwner ==
  ASSUME VarsTyped, OwnerInv, NEW q \in Requests, Refuse(q),
         request[q].at # "done"
  PROVE  OwnerInv'
<1>1. /\ request' = [request EXCEPT ![q] = Idle] /\ role' = role
      /\ stale' = stale \ {q} /\ Idle.at = "idle"
  BY DEF Refuse, Idle
<1>2. FreshRows'
  BY <1>1 DEF OwnerInv, FreshRows, VarsTyped
<1>3. Overtaken => Overtaken'
  BY <1>1 DEF Overtaken, VarsTyped
<1>4. OwnerExists /\ ReadingsHold => OwnerExists' /\ ReadingsHold'
  BY <1>1 DEF OwnerExists, ReadingsHold, VarsTyped
<1> QED
  BY <1>2, <1>3, <1>4 DEF OwnerInv

LEMMA BecomesOwner ==
  ASSUME VarsTyped, OwnerInv, NEW q \in Requests, NEW call \in Call,
         Becomes(q, call), request[q].at # "done", call.at # "done",
         call.at = "writing" =>
           \/ call.asked = "OWNER" \/ role[call.row] # "OWNER"
           \/ \E m \in Rows : m # call.row /\ role[m] = "OWNER"
  PROVE  OwnerInv'
<1>1. /\ request' = [request EXCEPT ![q] = call]
      /\ role' = role /\ stale' = stale
  BY DEF Becomes
<1>2. FreshRows'
  BY <1>1 DEF OwnerInv, FreshRows, VarsTyped
<1>3. Overtaken => Overtaken'
  BY <1>1 DEF Overtaken, VarsTyped
<1>4. OwnerExists /\ ReadingsHold => OwnerExists' /\ ReadingsHold'
  BY <1>1 DEF OwnerExists, ReadingsHold, VarsTyped
<1> QED
  BY <1>2, <1>3, <1>4 DEF OwnerInv

\* A write overtakes every other handler under way; if the handler was not
\* overtaken itself, an owner is left.
LEMMA WroteOwner ==
  ASSUME VarsTyped, OwnerInv, NEW q \in Requests, NEW m \in Rows,
         NEW r \in AnyRole, Wrote(q), UnderWay(q),
         role' = [role EXCEPT ![m] = r], m \in Requests => m = q \/ role[m] # "NONE",
         \/ r = "OWNER" \/ role[m] # "OWNER"
         \/ q \in stale
         \/ Overtaken
         \/ \E n \in Rows : n # m /\ role[n] = "OWNER"
  PROVE  OwnerInv'
<1>1. /\ request'[q].at = "done"
      /\ \A p \in Requests \ {q} : request'[p] = request[p]
      /\ stale' = stale \cup {p \in Requests \ {q} : UnderWay(p)}
  BY DEF Wrote, Idle, VarsTyped
<1>2. FreshRows'
  BY <1>1 DEF OwnerInv, FreshRows, VarsTyped
<1>3. CASE Overtaken \/ q \in stale
  <2>1. Overtaken'
    BY <1>1, <1>3 DEF Overtaken, VarsTyped
  <2> QED
    BY <1>2, <2>1 DEF OwnerInv
<1>4. CASE ~Overtaken /\ q \notin stale
  <2>1. OwnerExists
    BY <1>4 DEF OwnerInv
  <2>2. OwnerExists'
    BY <1>4, <2>1 DEF OwnerExists, VarsTyped
  <2>3. ReadingsHold'
    BY <1>1 DEF ReadingsHold, UnderWay
  <2> QED
    BY <1>2, <2>2, <2>3 DEF OwnerInv
<1> QED
  BY <1>3, <1>4

LEMMA OwnerStep ==
  ASSUME VarsTyped, OwnerInv, [Next]_vars
  PROVE  OwnerInv'
<1>1. ASSUME NEW q \in Requests, NEW u \in Users, NEW v \in Users,
             NEW new \in Roles, Add(q, u, v, new)
      PROVE  OwnerInv'
  <2>1. [at |-> "creating", asked |-> new, actor |-> RoleOf(u),
         who |-> v, row |-> q] \in Call
    BY RoleOfType DEF Call, Rows, AnyRole
  <2> QED
    BY <1>1, <2>1, BecomesOwner DEF Add, Free
<1>2. ASSUME NEW q \in Requests, NEW u \in Users, NEW m \in Rows,
             NEW new \in AnyRole, Ask(q, u, m, new)
      PROVE  OwnerInv'
  <2> DEFINE call == [Idle EXCEPT !.at = "finding", !.asked = new,
                                  !.actor = RoleOf(u), !.row = m]
  <2>1. call \in Call /\ call.at = "finding"
    BY RoleOfType, IdleType DEF Call
  <2> QED
    BY <1>2, <2>1, BecomesOwner DEF Ask, Free
<1>3. ASSUME NEW q \in Requests, CreateMember(q) PROVE OwnerInv'
  <2>1. CASE \E m \in Members : user[m] = request[q].who
    BY <1>3, <2>1, RefuseOwner DEF CreateMember
  <2>2. CASE ~ \E m \in Members : user[m] = request[q].who
    <3>1. /\ role' = [role EXCEPT ![q] = request[q].asked]
          /\ Wrote(q) /\ UnderWay(q)
      BY <1>3, <2>2 DEF CreateMember, UnderWay
    <3>2. q \in Rows /\ request[q].asked \in AnyRole
      BY DEF VarsTyped, Call, Rows
    <3>3. role[q] = "NONE"
      BY <1>3 DEF CreateMember, OwnerInv, FreshRows
    <3> QED
      BY <3>1, <3>2, <3>3, WroteOwner
  <2> QED
    BY <2>1, <2>2
<1>4. ASSUME NEW q \in Requests, FindTarget(q) PROVE OwnerInv'
  <2> DEFINE verdict == Verdict(q, role[request[q].row])
             call == [request[q] EXCEPT !.at = verdict]
  <2>1. CASE verdict = "error"
    BY <1>4, <2>1, RefuseOwner DEF FindTarget
  <2>2. CASE verdict # "error"
    <3>1. verdict \in {"counting", "writing"}
      BY <2>2 DEF Verdict
    <3>2. call \in Call /\ call.at = verdict
      BY <3>1 DEF VarsTyped, Call
    <3>3. call.asked = request[q].asked /\ call.row = request[q].row
      BY DEF VarsTyped, Call
    <3>4. verdict = "writing" =>
            \/ request[q].asked = "OWNER" \/ role[request[q].row] # "OWNER"
      BY <2>2 DEF Verdict
    <3> QED
      BY <1>4, <2>2, <3>1, <3>2, <3>3, <3>4, BecomesOwner DEF FindTarget
  <2> QED
    BY <2>1, <2>2
<1>5. ASSUME NEW q \in Requests, CountOwners(q) PROVE OwnerInv'
  <2> DEFINE call == [request[q] EXCEPT !.at = "writing"]
  <2>1. CASE Owners \ {request[q].row} = {}
    BY <1>5, <2>1, RefuseOwner DEF CountOwners
  <2>2. CASE Owners \ {request[q].row} # {}
    <3>1. call \in Call /\ call.at = "writing" /\ call.row = request[q].row
      BY DEF VarsTyped, Call
    <3>2. \E m \in Rows : m # request[q].row /\ role[m] = "OWNER"
      BY <2>2 DEF Owners
    <3> QED
      BY <1>5, <2>2, <3>1, <3>2, BecomesOwner DEF CountOwners
  <2> QED
    BY <2>1, <2>2
<1>6. ASSUME NEW q \in Requests, Write(q) PROVE OwnerInv'
  <2>1. CASE request[q].row \notin Members
    BY <1>6, <2>1, RefuseOwner DEF Write
  <2>2. CASE request[q].row \in Members
    <3>1. /\ role' = [role EXCEPT ![request[q].row] = request[q].asked]
          /\ Wrote(q) /\ UnderWay(q) /\ request[q].at = "writing"
      BY <1>6, <2>2 DEF Write, UnderWay
    <3>2. /\ request[q].row \in Rows /\ request[q].asked \in AnyRole
          /\ role[request[q].row] # "NONE"
      BY <2>2 DEF VarsTyped, Call, Members
    <3>3. \/ request[q].asked = "OWNER" \/ role[request[q].row] # "OWNER"
          \/ q \in stale \/ Overtaken
          \/ \E n \in Rows : n # request[q].row /\ role[n] = "OWNER"
      BY <3>1 DEF OwnerInv, ReadingsHold
    <3> QED
      BY <3>1, <3>2, <3>3, WroteOwner
  <2> QED
    BY <2>1, <2>2
<1>7. ASSUME NEW q \in Requests, Fail(q) PROVE OwnerInv'
  BY <1>7, RefuseOwner DEF Fail, UnderWay
<1>8. ASSUME UNCHANGED vars PROVE OwnerInv'
  BY <1>8 DEF vars, OwnerInv, FreshRows, OwnerExists, ReadingsHold, Overtaken
<1> QED
  BY <1>1, <1>2, <1>3, <1>4, <1>5, <1>6, <1>7, <1>8 DEF Next, AnyRole

\* However many handlers overlap: as long as no handler that was overtaken
\* has written, the organization has an owner.
THEOREM OwnersKept == Spec => []OwnersKeptUnlessOvertaken
<1>1. OwnerInv => OwnersKeptUnlessOvertaken
  BY DEF OwnerInv, Overtaken, OwnerExists, OwnersKeptUnlessOvertaken, Owners
<1> QED
  BY <1>1, TypeInit, TypeStep, OwnerInit, OwnerStep, PTL DEF Spec

-----------------------------------------------------------------------------
(* Administrators and owners                                               *)

\* What a handler that was not overtaken knows of the row it will change: an
\* owner's only if an owner asked.
ReadAsAllowed ==
  \A q \in Requests \ stale :
    request[q].at \in {"counting", "writing"}
      => request[q].actor = "OWNER" \/ role[request[q].row] # "OWNER"

LEMMA RefuseAllowed ==
  ASSUME VarsTyped, ReadAsAllowed, NEW q \in Requests, Refuse(q)
  PROVE  ReadAsAllowed'
<1>1. /\ request' = [request EXCEPT ![q] = Idle] /\ role' = role
      /\ stale' = stale \ {q} /\ Idle.at = "idle"
  BY DEF Refuse, Idle
<1> QED
  BY <1>1 DEF ReadAsAllowed, VarsTyped

LEMMA BecomesAllowed ==
  ASSUME VarsTyped, ReadAsAllowed, NEW q \in Requests, NEW call \in Call,
         Becomes(q, call),
         call.at \in {"counting", "writing"} =>
           q \in stale \/ call.actor = "OWNER" \/ role[call.row] # "OWNER"
  PROVE  ReadAsAllowed'
  BY DEF Becomes, ReadAsAllowed, VarsTyped

\* Whoever else is under way when q writes is overtaken.
LEMMA WroteAllowed ==
  ASSUME VarsTyped, NEW q \in Requests, Wrote(q)
  PROVE  ReadAsAllowed'
<1>1. /\ request'[q].at = "done"
      /\ \A p \in Requests \ {q} : request'[p] = request[p]
      /\ stale' = stale \cup {p \in Requests \ {q} : UnderWay(p)}
  BY DEF Wrote, Idle, VarsTyped
<1> QED
  BY <1>1 DEF ReadAsAllowed, UnderWay

LEMMA AllowedStep ==
  ASSUME VarsTyped, ReadAsAllowed, [Next]_vars
  PROVE  ReadAsAllowed'
<1>1. ASSUME NEW q \in Requests, NEW u \in Users, NEW v \in Users,
             NEW new \in Roles, Add(q, u, v, new)
      PROVE  ReadAsAllowed'
  <2>1. [at |-> "creating", asked |-> new, actor |-> RoleOf(u),
         who |-> v, row |-> q] \in Call
    BY RoleOfType DEF Call, Rows, AnyRole
  <2> QED
    BY <1>1, <2>1, BecomesAllowed DEF Add
<1>2. ASSUME NEW q \in Requests, NEW u \in Users, NEW m \in Rows,
             NEW new \in AnyRole, Ask(q, u, m, new)
      PROVE  ReadAsAllowed'
  <2> DEFINE call == [Idle EXCEPT !.at = "finding", !.asked = new,
                                  !.actor = RoleOf(u), !.row = m]
  <2>1. call \in Call /\ call.at = "finding"
    BY RoleOfType, IdleType DEF Call
  <2> QED
    BY <1>2, <2>1, BecomesAllowed DEF Ask
<1>3. ASSUME NEW q \in Requests, CreateMember(q) \/ Write(q) PROVE ReadAsAllowed'
  <2>1. Refuse(q) \/ Wrote(q)
    BY <1>3 DEF CreateMember, Write
  <2> QED
    BY <2>1, RefuseAllowed, WroteAllowed
<1>4. ASSUME NEW q \in Requests, FindTarget(q) PROVE ReadAsAllowed'
  <2> DEFINE verdict == Verdict(q, role[request[q].row])
             call == [request[q] EXCEPT !.at = verdict]
  <2>1. CASE verdict = "error"
    BY <1>4, <2>1, RefuseAllowed DEF FindTarget
  <2>2. CASE verdict # "error"
    <3>1. /\ verdict \in {"counting", "writing"}
          /\ request[q].actor = "OWNER" \/ role[request[q].row] # "OWNER"
      BY <2>2 DEF Verdict
    <3>2. /\ call \in Call
          /\ call.actor = request[q].actor /\ call.row = request[q].row
      BY <3>1 DEF VarsTyped, Call
    <3> QED
      BY <1>4, <2>2, <3>1, <3>2, BecomesAllowed DEF FindTarget
  <2> QED
    BY <2>1, <2>2
<1>5. ASSUME NEW q \in Requests, CountOwners(q) PROVE ReadAsAllowed'
  <2> DEFINE call == [request[q] EXCEPT !.at = "writing"]
  <2>1. /\ call \in Call
        /\ call.actor = request[q].actor /\ call.row = request[q].row
    BY DEF VarsTyped, Call
  <2>2. q \in stale \/ request[q].actor = "OWNER" \/ role[request[q].row] # "OWNER"
    BY <1>5 DEF CountOwners, ReadAsAllowed
  <2>3. Refuse(q) \/ Becomes(q, call)
    BY <1>5 DEF CountOwners
  <2> QED
    BY <2>1, <2>2, <2>3, RefuseAllowed, BecomesAllowed
<1>6. ASSUME NEW q \in Requests, Fail(q) PROVE ReadAsAllowed'
  BY <1>6, RefuseAllowed DEF Fail
<1>7. ASSUME UNCHANGED vars PROVE ReadAsAllowed'
  BY <1>7 DEF vars, ReadAsAllowed
<1> QED
  BY <1>1, <1>2, <1>3, <1>4, <1>5, <1>6, <1>7 DEF Next, AnyRole

\* The write of q takes only from its own row; every other step of q ends
\* elsewhere.
LEMMA OnlyItsRow ==
  ASSUME VarsTyped, Next, NEW q \in Requests, NEW m \in Rows,
         request[q].at = "writing", request'[q].at = "done", role'[m] # role[m]
  PROVE  m = request[q].row
<1>1. Idle.at = "idle"
  BY DEF Idle
<1>2. ASSUME NEW p \in Requests, Refuse(p) PROVE FALSE
  BY <1>2 DEF Refuse
<1>3. ASSUME NEW p \in Requests, NEW call, Becomes(p, call) PROVE FALSE
  BY <1>3 DEF Becomes
<1>4. ASSUME NEW p \in Requests, CreateMember(p) PROVE FALSE
  <2>1. Wrote(p) /\ p # q
    BY <1>2, <1>4 DEF CreateMember
  <2> QED
    BY <2>1 DEF Wrote, VarsTyped
<1>5. ASSUME NEW p \in Requests, Write(p) PROVE m = request[q].row
  <2>1. Wrote(p) /\ role' = [role EXCEPT ![request[p].row] = request[p].asked]
    BY <1>2, <1>5 DEF Write
  <2>2. p = q
    BY <2>1 DEF Wrote, VarsTyped
  <2> QED
    BY <2>1, <2>2 DEF VarsTyped
<1>6. ASSUME NEW p \in Requests, FindTarget(p) \/ CountOwners(p) \/ Fail(p) PROVE FALSE
  BY <1>2, <1>3, <1>6 DEF FindTarget, CountOwners, Fail
<1> QED
  BY <1>3, <1>4, <1>5, <1>6 DEF Next, Add, Ask

\* No handler takes an owner's membership away for an administrator, except
\* one that was overtaken after it had compared the roles.
THEOREM OwnersSpared == Spec => AdminsSpareOwners
<1>1. Init => ReadAsAllowed
  BY DEF Init, ReadAsAllowed, Idle
<1>2. ASSUME VarsTyped, ReadAsAllowed, Next,
             NEW q \in Requests, NEW m \in Rows,
             request[q].at = "writing", request'[q].at = "done",
             role[m] = "OWNER", role'[m] # "OWNER"
      PROVE  request[q].actor = "OWNER" \/ q \in stale
  BY <1>2, OnlyItsRow DEF ReadAsAllowed
<1>3. VarsTyped /\ ReadAsAllowed /\ [Next]_vars =>
        [\A q \in Requests, m \in Rows :
           (/\ request[q].at = "writing" /\ request'[q].at = "done"
            /\ role[m] = "OWNER" /\ role'[m] # "OWNER")
           => request[q].actor = "OWNER" \/ q \in stale]_vars
  BY <1>2
<1> QED
  BY <1>1, <1>3, TypeInit, TypeStep, AllowedStep, PTL DEF Spec, AdminsSpareOwners
=============================================================================
