------------------------ MODULE ProviderConnections ------------------------
(***************************************************************************)
(* The GitHub connections of organizations (ProviderConnectionsService)    *)
(* and the repositories that are added to their workspaces (Repositories-  *)
(* Service.create and importFromGithub).  A handler reads the membership,  *)
(* asks GitHub, reads the connection and writes; no transaction spans      *)
(* these.  Meanwhile the app is installed, suspended and uninstalled at    *)
(* GitHub, and members get other roles.                                    *)
(*                                                                         *)
(* Installations are numbered in the order in which GitHub makes them; an  *)
(* account has at most one at a time.  A connection bears the name of its  *)
(* organization and account, which never change and are unique.            *)
(***************************************************************************)
EXTENDS Integers

CONSTANTS
  Organizations, Users, Accounts,
  Workspaces, OrganizationOf,   \* OrganizationOf[w]: the owner of workspace w
  MaxInstallation,              \* bound: the last installation
  AccountOf,                    \* AccountOf[i]: the account of installation i
  Repositories, HolderOf,       \* HolderOf[r]: the account of repository r
  Completions, Imports,         \* calls of completeGithubConnection and of
                                \* importFromGithub
  FirstRoles,                   \* the roles at first
  NewRoles, MaxRoleChanges,     \* bounds: the roles that are given, how often
  NoOne

Installations == 1..MaxInstallation
Connections == Organizations \X Accounts
Roles == {"MANAGER", "DEVELOPER", "VIEWER", "NONE"}   \* MANAGER: OWNER or ADMIN

ASSUME ConnectionAssumption ==
  /\ MaxInstallation \in Nat /\ MaxRoleChanges \in Nat
  /\ NoOne \notin Users \cup Organizations \cup Workspaces
  /\ OrganizationOf \in [Workspaces -> Organizations]
  /\ AccountOf \in [Installations -> Accounts]
  /\ HolderOf \in [Repositories -> Accounts]
  /\ NewRoles \subseteq Roles /\ FirstRoles \in [Organizations \X Users -> Roles]

VARIABLES
  role, roleChanges,   \* role[<<o, u>>]; number of changes so far
  issued, fresh,       \* the setup states <<o, u>> ever signed, and those of
                       \* them that have not expired
  github,              \* github[i]: installation i at GitHub
  connection,          \* connection[k]: the ProviderConnection k
  repositories,        \* the Repository rows: workspace, repository, via
  completion,          \* completion[q]: the handler of q
  import               \* import[m]: the handler of m

outside == <<role, roleChanges, github>>
vars == <<outside, issued, fresh, connection, repositories, completion, import>>

Absent == [status |-> "ABSENT", installation |-> 0, connectedBy |-> NoOne]
Manual == <<NoOne, NoOne>>       \* no connection
IdleCompletion ==
  [at |-> "idle", organization |-> NoOne, user |-> NoOne, installation |-> 0,
   suspended |-> FALSE, row |-> Manual, overtaken |-> FALSE]
IdleImport ==
  [at |-> "idle", workspace |-> NoOne, via |-> Manual, installation |-> 0]

Init ==
  /\ role = FirstRoles /\ roleChanges = 0
  /\ issued = {} /\ fresh = {}
  /\ github = [i \in Installations |-> "future"]
  /\ connection = [k \in Connections |-> Absent]
  /\ repositories = {}
  /\ completion = [q \in Completions |-> IdleCompletion]
  /\ import = [m \in Imports |-> IdleImport]

-----------------------------------------------------------------------------
(* GitHub, and the members' roles                                          *)

Live(i) == github[i] \in {"active", "suspended"}

Install(i) ==
  /\ github[i] = "future"
  /\ \A j \in Installations :
       AccountOf[j] = AccountOf[i] /\ j < i => github[j] = "gone"
  /\ github' = [github EXCEPT ![i] = "active"]
\* The account suspends the installation, resumes or uninstalls it.  No
\* webhook tells the service.
Alter(i, state) ==
  /\ Live(i) /\ github[i] # state
  /\ github' = [github EXCEPT ![i] = state]

GithubChanges ==
  /\ \E i \in Installations :
       Install(i) \/ \E s \in {"active", "suspended", "gone"} : Alter(i, s)
  /\ UNCHANGED <<role, roleChanges, issued, fresh, connection, repositories,
                 completion, import>>

RoleChanges ==
  /\ roleChanges < MaxRoleChanges
  /\ roleChanges' = roleChanges + 1
  /\ \E o \in Organizations, u \in Users, r \in NewRoles :
       r # role[<<o, u>>] /\ role' = [role EXCEPT ![<<o, u>>] = r]
  /\ UNCHANGED <<issued, fresh, github, connection, repositories, completion, import>>

-----------------------------------------------------------------------------
(* Connecting                                                              *)

RequireManager(u, o) == role[<<o, u>>] = "MANAGER"

\* createGithubInstallUrl signs a state that expires in ten minutes.
CreateInstallUrl(u, o) ==
  /\ RequireManager(u, o)
  /\ issued' = issued \cup {<<o, u>>} /\ fresh' = fresh \cup {<<o, u>>}
  /\ UNCHANGED <<outside, connection, repositories, completion, import>>
StatesExpire ==
  /\ \E s \in fresh : fresh' = fresh \ {s}
  /\ UNCHANGED <<outside, issued, connection, repositories, completion, import>>

VerifyState(s, o, u) == s \in fresh /\ s = <<o, u>>

Goes(q, c) ==
  /\ completion' = [completion EXCEPT ![q] = c]
  /\ UNCHANGED <<outside, issued, fresh, connection, repositories, import>>

\* completeGithubConnection is called with a state and an installation that
\* came with a redirect from GitHub.  A state may be used again.  A call that
\* is refused changes nothing and is left out.
BeginCompletion(q, u, o, s, i) ==
  /\ completion[q].at = "idle"
  /\ RequireManager(u, o) /\ VerifyState(s, o, u)
  /\ Goes(q, [completion[q] EXCEPT !.at = "verified", !.organization = o,
                                   !.user = u, !.installation = i])

GetInstallation(q) ==
  LET c == completion[q] IN
  /\ c.at = "verified" /\ Live(c.installation)
  /\ Goes(q, [c EXCEPT !.at = "asked",
                       !.suspended = (github[c.installation] = "suspended")])

Holding(i) == {k \in Connections : connection[k].installation = i}
\* The connection that has the installation will be updated; if there is none,
\* that of the account is written, made or not.
Found(c) ==
  IF Holding(c.installation) = {}
  THEN [c EXCEPT !.at = "upserting",
                 !.row = <<c.organization, AccountOf[c.installation]>>]
  ELSE [c EXCEPT !.at = "updating",
                 !.row = CHOOSE k \in Connections : k \in Holding(c.installation)]

\* Mutation: a connection of another organization is not noticed.
FindAnywhere(q) ==
  LET c == completion[q] IN
  /\ c.at = "asked"
  /\ Goes(q, Found(c))

\* findUnique.  An installation that another organization has connected, or
\* had and disconnected, is refused.
FindInstallation(q) ==
  LET c == completion[q] IN
  /\ c.at = "asked"
  /\ \A k \in Holding(c.installation) : k[1] = c.organization
  /\ Goes(q, Found(c))

\* Mutation: installationId is not @unique.
AnyInstallation(k, i) == TRUE

\* installationId is @unique: a row with one that another row has is refused.
UniqueInstallation(k, i) == Holding(i) \subseteq {k}

StatusOf(c) == IF c.suspended THEN "SUSPENDED" ELSE "ACTIVE"

\* Mutation: the upsert leaves the installation of a row that there is.
KeepInstallation(c) ==
  [status |-> StatusOf(c), connectedBy |-> c.user,
   installation |-> IF c.at = "updating" \/ connection[c.row].status # "ABSENT"
                    THEN connection[c.row].installation ELSE c.installation]

\* The update leaves the installation of the row that was found as it is.
Written(c) ==
  [status |-> StatusOf(c), connectedBy |-> c.user,
   installation |-> IF c.at = "updating" THEN connection[c.row].installation
                                         ELSE c.installation]

\* History: a completion of the same account in the same organization that
\* has asked GitHub about its installation is overtaken by the write.
Overtakes(c, p) ==
  /\ completion[p].at \in {"asked", "updating", "upserting"}
  /\ <<completion[p].organization, AccountOf[completion[p].installation]>> = c.row

WriteConnection(q) ==
  LET c == completion[q] IN
  /\ c.at \in {"updating", "upserting"}
  /\ UniqueInstallation(c.row, Written(c).installation)
  /\ connection' = [connection EXCEPT ![c.row] = Written(c)]
  /\ completion' = [p \in Completions |->
       IF p = q THEN [IdleCompletion EXCEPT !.at = "connected"]
       ELSE [completion[p] EXCEPT !.overtaken = @ \/ Overtakes(c, p)]]
  /\ UNCHANGED <<outside, issued, fresh, repositories, import>>

\* A query or a request to GitHub fails, an installation is gone or refused,
\* or the process dies.
FailCompletion(q) ==
  /\ completion[q].at \in {"verified", "asked", "updating", "upserting"}
  /\ Goes(q, [IdleCompletion EXCEPT !.at = "failed"])

\* disconnect.  Its three queries are one step: what the last one writes does
\* not depend on what the first two read, and the row is never deleted.
Disconnect(u, k) ==
  /\ RequireManager(u, k[1])
  /\ connection[k].status # "ABSENT"
  /\ connection' = [connection EXCEPT ![k].status = "DISCONNECTED"]
  /\ UNCHANGED <<outside, issued, fresh, repositories, completion, import>>

-----------------------------------------------------------------------------
(* Adding repositories                                                     *)

MayAdd(u, w) == role[<<OrganizationOf[w], u>>] \in {"MANAGER", "DEVELOPER"}

\* (workspaceId, fullName) is unique: P2002 is answered with a conflict.
InsertRepository(w, r, via) ==
  /\ ~\E row \in repositories : row.workspace = w /\ row.repository = r
  /\ repositories' = repositories \cup
       {[workspace |-> w, repository |-> r, via |-> via]}

\* create, with whatever name the user gives.
CreateRepository(u, w, r) ==
  /\ MayAdd(u, w) /\ InsertRepository(w, r, Manual)
  /\ UNCHANGED <<outside, issued, fresh, connection, completion, import>>

\* remove, by a manager.
RemoveRepository(u, row) ==
  /\ RequireManager(u, OrganizationOf[row.workspace])
  /\ repositories' = repositories \ {row}
  /\ UNCHANGED <<outside, issued, fresh, connection, completion, import>>

GoesOn(m, c) ==
  /\ import' = [import EXCEPT ![m] = c]
  /\ UNCHANGED <<outside, issued, fresh, connection, repositories, completion>>

BeginImport(m, u, w, k) ==
  /\ import[m].at = "idle" /\ MayAdd(u, w)
  /\ GoesOn(m, [import[m] EXCEPT !.at = "admitted", !.workspace = w, !.via = k])

\* Mutation: a connection is found whatever its organization.
FindAnyConnection(m) ==
  LET c == import[m] IN
  /\ c.at = "admitted" /\ connection[c.via].status = "ACTIVE"
  /\ GoesOn(m, [c EXCEPT !.at = "listing",
                         !.installation = connection[c.via].installation])

\* The connection must be active, and of the organization of the workspace.
FindActiveConnection(m) ==
  LET c == import[m] IN
  /\ c.at = "admitted" /\ connection[c.via].status = "ACTIVE"
  /\ c.via[1] = OrganizationOf[c.workspace]
  /\ GoesOn(m, [c EXCEPT !.at = "listing",
                         !.installation = connection[c.via].installation])

\* GitHub lists what the installation may read, whatever has become of the
\* connection; the repository that is asked for is inserted.
ListAndImport(m, r) ==
  LET c == import[m] IN
  /\ c.at = "listing"
  /\ github[c.installation] = "active" /\ HolderOf[r] = AccountOf[c.installation]
  /\ InsertRepository(c.workspace, r, c.via)
  /\ import' = [import EXCEPT ![m] = [IdleImport EXCEPT !.at = "imported"]]
  /\ UNCHANGED <<outside, issued, fresh, connection, completion>>

FailImport(m) ==
  /\ import[m].at \in {"admitted", "listing"}
  /\ GoesOn(m, [IdleImport EXCEPT !.at = "failed"])

Next ==
  \/ GithubChanges \/ RoleChanges \/ StatesExpire
  \/ \E u \in Users, o \in Organizations :
       \/ CreateInstallUrl(u, o)
       \/ \E q \in Completions, s \in issued, i \in Installations :
            BeginCompletion(q, u, o, s, i)
       \/ \E a \in Accounts : Disconnect(u, <<o, a>>)
  \/ \E q \in Completions :
       \/ GetInstallation(q) \/ FindInstallation(q)
       \/ WriteConnection(q) \/ FailCompletion(q)
  \/ \E u \in Users, w \in Workspaces :
       \/ \E r \in Repositories : CreateRepository(u, w, r)
       \/ \E m \in Imports, k \in Connections : BeginImport(m, u, w, k)
  \/ \E u \in Users : \E row \in repositories : RemoveRepository(u, row)
  \/ \E m \in Imports :
       \/ FindActiveConnection(m) \/ FailImport(m)
       \/ \E r \in Repositories : ListAndImport(m, r)

Spec == Init /\ [][Next]_vars

-----------------------------------------------------------------------------
Numbers == Installations \cup {0}
Routes == Connections \cup {Manual}

ConnectionState ==
  [status : {"ABSENT", "ACTIVE", "SUSPENDED", "DISCONNECTED"},
   installation : Numbers, connectedBy : Users \cup {NoOne}]

CompletionState ==
  [at : {"idle", "verified", "asked", "updating", "upserting", "connected", "failed"},
   organization : Organizations \cup {NoOne}, user : Users \cup {NoOne},
   installation : Numbers, suspended : BOOLEAN, row : Routes, overtaken : BOOLEAN]

ImportState ==
  [at : {"idle", "admitted", "listing", "imported", "failed"},
   workspace : Workspaces \cup {NoOne}, via : Routes, installation : Numbers]

\* Every variable has its type, and no two connections have one installation,
\* although it is looked for before it is written.
ConnectionsTypeOK ==
  /\ role \in [Organizations \X Users -> Roles] /\ roleChanges \in 0..MaxRoleChanges
  /\ issued \subseteq Organizations \X Users /\ fresh \subseteq issued
  /\ github \in [Installations -> {"future", "active", "suspended", "gone"}]
  /\ connection \in [Connections -> ConnectionState]
  /\ \A k, l \in Connections :
       /\ connection[k].status = "ABSENT" <=> connection[k].installation = 0
       /\ connection[k].installation = connection[l].installation
            => k = l \/ connection[k].installation = 0
  /\ repositories \subseteq
       [workspace : Workspaces, repository : Repositories, via : Routes]
  /\ completion \in [Completions -> CompletionState]
  /\ import \in [Imports -> ImportState]

\* A connection is that of a user who, as a manager of its organization, had
\* asked for a state to set it up, whichever installation and whichever state
\* come with a redirect, and whoever connected the installation before.
ConnectedByRequester ==
  \A k \in Connections : connection[k].status # "ABSENT" =>
    <<k[1], connection[k].connectedBy>> \in issued

\* A completion leaves its organization connected through the installation
\* that it asked GitHub about, and never brings an older one back, unless
\* another completion wrote the same connection since it asked.
InstallationsForward ==
  [][\A q \in Completions :
       /\ completion[q].at \in {"updating", "upserting"}
       /\ completion'[q].at = "connected" /\ ~completion[q].overtaken
       => LET c == completion[q]
              k == <<c.organization, AccountOf[c.installation]>> IN
          /\ connection'[k].installation = c.installation
          /\ connection[k].installation <= c.installation]_vars

\* An imported repository is one of the account, and of the organization, of
\* its connection, through whichever installations that has gone since.
ImportedThroughItsConnection ==
  \A row \in repositories : row.via # Manual =>
    /\ row.via = <<OrganizationOf[row.workspace], HolderOf[row.repository]>>
    /\ AccountOf[connection[row.via].installation] = HolderOf[row.repository]
=============================================================================
