--------------------- MODULE ProviderConnectionsProofs ---------------------
(***************************************************************************)
(* For any organizations, installations and numbers of calls: an           *)
(* installation is connected once, by a manager who asked for it, an older *)
(* one never comes back but from an overtaken call, and a repository stays *)
(* one of the account and the organization of its connection.              *)
(***************************************************************************)
EXTENDS ProviderConnections, TLAPS

-----------------------------------------------------------------------------
(* The inductive invariant                                                 *)

\* GitHub makes an installation of an account when those before it are gone.
InOrder ==
  \A i, j \in Installations :
    AccountOf[i] = AccountOf[j] /\ i < j /\ github[j] # "future" => github[i] = "gone"

\* A connection is of an installation of its account that there has been, and
\* of a user who had asked for a state.
Sound(k) ==
  connection[k].status # "ABSENT" =>
    /\ connection[k].installation \in Installations
    /\ AccountOf[connection[k].installation] = k[2]
    /\ github[connection[k].installation] # "future"
    /\ <<k[1], connection[k].connectedBy>> \in issued

Key(c) == <<c.organization, AccountOf[c.installation]>>

\* What a completion knows on its way to the write.
Admitted(c) ==
  c.at \in {"verified", "asked", "updating", "upserting"} =>
    /\ c.organization \in Organizations /\ c.user \in Users
    /\ c.installation \in Installations
    /\ <<c.organization, c.user>> \in issued
Targeted(c) ==
  /\ c.at \in {"updating", "upserting"} => c.row = Key(c)
  /\ c.at = "updating" => connection[Key(c)].status # "ABSENT"
Forward(c) ==
  c.at \in {"asked", "updating", "upserting"} =>
    /\ github[c.installation] # "future"
    /\ ~c.overtaken =>
         /\ connection[Key(c)].installation <= c.installation
         /\ c.at = "updating" => connection[Key(c)].installation = c.installation
Knows(c) == Admitted(c) /\ Targeted(c) /\ Forward(c)

\* What an import knows of its connection.
Through(c) ==
  /\ c.at \in {"admitted", "listing"} =>
       c.via \in Connections /\ c.workspace \in Workspaces
  /\ c.at = "listing" =>
       /\ c.via[1] = OrganizationOf[c.workspace] /\ connection[c.via].status # "ABSENT"
       /\ c.installation \in Installations /\ AccountOf[c.installation] = c.via[2]

Imported(row) ==
  row.via # Manual =>
    /\ row.via = <<OrganizationOf[row.workspace], HolderOf[row.repository]>>
    /\ connection[row.via].status # "ABSENT"

CInv ==
  /\ ConnectionsTypeOK /\ InOrder
  /\ \A k \in Connections : Sound(k)
  /\ \A q \in Completions : Knows(completion[q])
  /\ \A m \in Imports : Through(import[m])
  /\ \A row \in repositories : Imported(row)

LEMMA InitHolds == Init => CInv
<1> SUFFICES ASSUME Init PROVE CInv
  OBVIOUS
<1>1. ConnectionsTypeOK
  <2>1. IdleCompletion \in CompletionState /\ IdleImport \in ImportState
    BY DEF IdleCompletion, IdleImport, CompletionState, ImportState, Numbers, Routes, Manual
  <2>2. Absent \in ConnectionState /\ Absent.status = "ABSENT" /\ Absent.installation = 0
    BY DEF Absent, ConnectionState, Numbers
  <2> QED
    BY <2>1, <2>2, ConnectionAssumption DEF Init, ConnectionsTypeOK
<1>2. InOrder /\ \A k \in Connections : Sound(k)
  BY DEF Init, InOrder, Sound, Absent
<1>3. \A q \in Completions : Knows(completion[q])
  BY DEF Init, IdleCompletion, Knows, Admitted, Targeted, Forward
<1>4. \A m \in Imports : Through(import[m])
  BY DEF Init, IdleImport, Through
<1> QED
  BY <1>1, <1>2, <1>3, <1>4 DEF CInv, Init

-----------------------------------------------------------------------------
(* Steps outside the service                                               *)

LEMMA GithubKeeps ==
  ASSUME CInv, GithubChanges
  PROVE  CInv'
<1>1. PICK i \in Installations, s \in {"active", "suspended", "gone"} :
        /\ github' = [github EXCEPT ![i] = s]
        /\ Live(i) \/ (/\ github[i] = "future"
                       /\ \A j \in Installations :
                            AccountOf[j] = AccountOf[i] /\ j < i => github[j] = "gone")
  BY DEF GithubChanges, Install, Alter
<1>2. UNCHANGED <<role, roleChanges, issued, fresh, connection, repositories,
                  completion, import>>
  BY DEF GithubChanges
<1>3. github \in [Installations -> {"future", "active", "suspended", "gone"}]
  BY DEF CInv, ConnectionsTypeOK
<1>4. ConnectionsTypeOK'
  BY <1>1, <1>2, <1>3 DEF CInv, ConnectionsTypeOK
<1>5. \A j \in Installations : github[j] # "future" => github'[j] # "future"
  BY <1>1, <1>3
<1>6. InOrder'
  <2> SUFFICES ASSUME NEW j \in Installations, NEW k \in Installations,
                      AccountOf[j] = AccountOf[k], j < k, github'[k] # "future"
               PROVE  github'[j] = "gone"
    BY DEF InOrder
  <2>1. CASE k = i
    <3>1. github[j] = "gone"
      BY <1>1, <2>1 DEF CInv, InOrder, Live
    <3> QED
      BY <1>1, <1>3, <2>1, <3>1 DEF Installations
  <2>2. CASE k # i
    <3>1. github[j] = "gone"
      BY <1>1, <1>3, <2>2 DEF CInv, InOrder
    <3> QED
      BY <1>1, <1>3, <3>1 DEF Live
  <2> QED
    BY <2>1, <2>2
<1>7. \A k \in Connections : Sound(k)'
  BY <1>2, <1>5 DEF CInv, Sound
<1>8. \A q \in Completions : Knows(completion[q])'
  BY <1>2, <1>5 DEF CInv, Knows, Admitted, Targeted, Forward, Key
<1>9. /\ \A m \in Imports : Through(import[m])'
      /\ \A row \in repositories' : Imported(row)'
  BY <1>2 DEF CInv, Through, Imported
<1> QED
  BY <1>4, <1>6, <1>7, <1>8, <1>9 DEF CInv

LEMMA RolesKeep ==
  ASSUME CInv, RoleChanges
  PROVE  CInv'
<1>1. UNCHANGED <<issued, fresh, github, connection, repositories, completion, import>>
  BY DEF RoleChanges
<1>2. ConnectionsTypeOK'
  BY <1>1, ConnectionAssumption DEF RoleChanges, CInv, ConnectionsTypeOK
<1>3. /\ InOrder' /\ \A k \in Connections : Sound(k)'
      /\ \A q \in Completions : Knows(completion[q])'
  BY <1>1 DEF CInv, InOrder, Sound, Knows, Admitted, Targeted, Forward, Key
<1>4. /\ \A m \in Imports : Through(import[m])'
      /\ \A row \in repositories' : Imported(row)'
  BY <1>1 DEF CInv, Through, Imported
<1> QED
  BY <1>2, <1>3, <1>4 DEF CInv

LEMMA StatesKeep ==
  ASSUME CInv,
         StatesExpire \/ \E u \in Users, o \in Organizations : CreateInstallUrl(u, o)
  PROVE  CInv'
<1>1. UNCHANGED <<outside, connection, repositories, completion, import>>
  BY DEF StatesExpire, CreateInstallUrl
<1>2. /\ issued \subseteq issued' /\ fresh' \subseteq issued'
      /\ issued' \subseteq Organizations \X Users
  BY DEF StatesExpire, CreateInstallUrl, CInv, ConnectionsTypeOK
<1>3. ConnectionsTypeOK'
  BY <1>1, <1>2 DEF outside, CInv, ConnectionsTypeOK
<1>4. /\ InOrder' /\ \A k \in Connections : Sound(k)'
      /\ \A q \in Completions : Knows(completion[q])'
  BY <1>1, <1>2 DEF outside, CInv, InOrder, Sound, Knows, Admitted, Targeted, Forward, Key
<1>5. /\ \A m \in Imports : Through(import[m])'
      /\ \A row \in repositories' : Imported(row)'
  BY <1>1 DEF CInv, Through, Imported
<1> QED
  BY <1>3, <1>4, <1>5 DEF CInv

-----------------------------------------------------------------------------
(* Steps of a completion                                                   *)

LEMMA OwnCompletion ==
  ASSUME CInv, NEW q \in Completions, NEW c \in CompletionState, Goes(q, c), Knows(c)
  PROVE  CInv'
<1>1. UNCHANGED <<outside, issued, fresh, connection, repositories, import>>
  BY DEF Goes
<1>2. /\ completion' \in [Completions -> CompletionState] /\ completion'[q] = c
      /\ \A p \in Completions \ {q} : completion'[p] = completion[p]
  BY DEF Goes, CInv, ConnectionsTypeOK
<1>3. ConnectionsTypeOK'
  BY <1>1, <1>2 DEF outside, CInv, ConnectionsTypeOK
<1>4. \A p \in Completions : Knows(completion'[p])
  BY <1>2 DEF CInv
<1>5. \A p \in Completions : Knows(completion[p])'
  BY <1>1, <1>4 DEF outside, Knows, Admitted, Targeted, Forward, Key
<1>6. /\ InOrder' /\ \A k \in Connections : Sound(k)'
      /\ \A m \in Imports : Through(import[m])'
      /\ \A row \in repositories' : Imported(row)'
  BY <1>1 DEF outside, CInv, InOrder, Sound, Through, Imported
<1> QED
  BY <1>3, <1>5, <1>6 DEF CInv

LEMMA BeginKeeps ==
  ASSUME CInv, NEW q \in Completions, NEW u \in Users, NEW o \in Organizations,
         NEW s \in issued, NEW i \in Installations, BeginCompletion(q, u, o, s, i)
  PROVE  CInv'
<1> DEFINE c == [completion[q] EXCEPT !.at = "verified", !.organization = o,
                                      !.user = u, !.installation = i]
<1>1. completion[q] \in CompletionState /\ <<o, u>> \in issued
  BY DEF BeginCompletion, VerifyState, CInv, ConnectionsTypeOK
<1>2. /\ c \in CompletionState /\ c.at = "verified" /\ c.organization = o
      /\ c.user = u /\ c.installation = i
  BY <1>1 DEF CompletionState, Numbers
<1>3. Goes(q, c)
  BY DEF BeginCompletion
<1> HIDE DEF c
<1>4. Knows(c)
  BY <1>1, <1>2 DEF Knows, Admitted, Targeted, Forward
<1> QED
  BY <1>2, <1>3, <1>4, OwnCompletion

LEMMA KeyTyped ==
  ASSUME NEW c \in CompletionState, c.organization \in Organizations,
         c.installation \in Installations
  PROVE  /\ Key(c) \in Connections /\ Key(c)[1] = c.organization
         /\ Key(c)[2] = AccountOf[c.installation]
  BY ConnectionAssumption DEF Key, Connections

\* The installation that GitHub tells of is the newest of its account.
LEMMA GetKeeps ==
  ASSUME CInv, NEW q \in Completions, GetInstallation(q)
  PROVE  CInv'
<1> DEFINE b == completion[q]
           d == (github[b.installation] = "suspended")
           c == [b EXCEPT !.at = "asked", !.suspended = d]
<1>1. /\ b \in CompletionState /\ b.at = "verified" /\ Live(b.installation)
      /\ Knows(b)
  BY DEF GetInstallation, CInv, ConnectionsTypeOK
<1>2. d \in BOOLEAN
  OBVIOUS
<1>3. Goes(q, c)
  BY DEF GetInstallation
<1> HIDE DEF b, d
<1>4. /\ c \in CompletionState /\ c.at = "asked" /\ c.organization = b.organization
      /\ c.user = b.user /\ c.installation = b.installation
  BY <1>1, <1>2 DEF CompletionState
<1> HIDE DEF c
<1>5. /\ c.installation \in Installations /\ c.organization \in Organizations
      /\ Admitted(c)
  BY <1>1, <1>4 DEF Knows, Admitted
<1>6. /\ Key(c) \in Connections /\ Key(c)[2] = AccountOf[c.installation]
  BY <1>4, <1>5, KeyTyped
<1>7. connection[Key(c)].installation <= c.installation
  <2> DEFINE j == connection[Key(c)].installation
  <2>1. Sound(Key(c)) /\ (connection[Key(c)].status = "ABSENT" => j = 0)
    BY <1>6 DEF CInv, ConnectionsTypeOK
  <2>2. CASE connection[Key(c)].status = "ABSENT"
    BY <1>5, <2>1, <2>2 DEF Installations
  <2>3. CASE connection[Key(c)].status # "ABSENT"
    <3>1. /\ j \in Installations /\ AccountOf[j] = AccountOf[c.installation]
          /\ github[j] # "future"
      BY <1>6, <2>1, <2>3 DEF Sound
    <3>2. ~(c.installation < j)
      BY <1>1, <1>4, <1>5, <3>1 DEF CInv, InOrder, Live
    <3> QED
      BY <1>5, <3>1, <3>2 DEF Installations
  <2> QED
    BY <2>2, <2>3
<1>8. Knows(c)
  BY <1>1, <1>4, <1>5, <1>7 DEF Knows, Targeted, Forward, Live
<1> QED
  BY <1>3, <1>4, <1>8, OwnCompletion

LEMMA FindKeeps ==
  ASSUME CInv, NEW q \in Completions, FindInstallation(q)
  PROVE  CInv'
<1> DEFINE b == completion[q]
           c == Found(b)
<1>1. /\ b \in CompletionState /\ b.at = "asked" /\ Knows(b) /\ Goes(q, c)
      /\ \A k \in Holding(b.installation) : k[1] = b.organization
  BY DEF FindInstallation, CInv, ConnectionsTypeOK
<1> HIDE DEF b
<1>2. /\ b.organization \in Organizations /\ b.installation \in Installations
      /\ Key(b) \in Connections /\ Key(b) = <<b.organization, AccountOf[b.installation]>>
      /\ Key(b) \in Routes
  BY <1>1, KeyTyped DEF Knows, Admitted, Key, Routes
<1>3. CASE Holding(b.installation) = {}
  <2>1. c = [b EXCEPT !.at = "upserting", !.row = Key(b)]
    BY <1>2, <1>3 DEF Found
  <2> HIDE DEF c
  <2>2. /\ c \in CompletionState /\ c.at = "upserting" /\ c.row = Key(b)
        /\ c.organization = b.organization /\ c.user = b.user
        /\ c.installation = b.installation /\ c.overtaken = b.overtaken
    BY <1>1, <1>2, <2>1 DEF CompletionState
  <2>3. Key(c) = Key(b)
    BY <2>2 DEF Key
  <2>4. Knows(c)
    BY <1>1, <2>2, <2>3 DEF Knows, Admitted, Targeted, Forward
  <2> QED
    BY <1>1, <2>2, <2>4, OwnCompletion
<1>4. CASE Holding(b.installation) # {}
  <2> DEFINE k == CHOOSE l \in Connections : l \in Holding(b.installation)
  <2>1. k \in Connections /\ k \in Holding(b.installation)
    BY <1>4 DEF Holding
  <2>2. c = [b EXCEPT !.at = "updating", !.row = k]
    BY <1>4 DEF Found
  <2> HIDE DEF c, k
  <2>3. connection[k].installation = b.installation /\ b.installation # 0
    BY <1>2, <2>1 DEF Holding, Installations
  <2>4. connection[k].status # "ABSENT" /\ k[2] = AccountOf[b.installation]
    BY <2>1, <2>3 DEF CInv, ConnectionsTypeOK, Sound
  <2>5. k = Key(b)
    BY <1>1, <1>2, <2>1, <2>4 DEF Connections
  <2>6. /\ c \in CompletionState /\ c.at = "updating" /\ c.row = Key(b)
        /\ c.organization = b.organization /\ c.user = b.user
        /\ c.installation = b.installation /\ c.overtaken = b.overtaken
    BY <1>1, <1>2, <2>2, <2>5 DEF CompletionState
  <2>7. Key(c) = Key(b)
    BY <2>6 DEF Key
  <2>8. Knows(c)
    BY <1>1, <2>3, <2>4, <2>5, <2>6, <2>7 DEF Knows, Admitted, Targeted, Forward
  <2> QED
    BY <1>1, <2>6, <2>8, OwnCompletion
<1> QED
  BY <1>3, <1>4

LEMMA FailKeeps ==
  ASSUME CInv, NEW q \in Completions, FailCompletion(q)
  PROVE  CInv'
<1> DEFINE c == [IdleCompletion EXCEPT !.at = "failed"]
<1>1. c \in CompletionState /\ c.at = "failed"
  BY DEF IdleCompletion, CompletionState, Numbers, Routes, Manual
<1>2. Goes(q, c)
  BY DEF FailCompletion
<1> HIDE DEF c
<1>3. Knows(c)
  BY <1>1 DEF Knows, Admitted, Targeted, Forward
<1> QED
  BY <1>1, <1>2, <1>3, OwnCompletion

\* The row that a completion writes.
LEMMA WrittenFact ==
  ASSUME CInv, NEW q \in Completions, WriteConnection(q)
  PROVE  LET c == completion[q]
             w == Written(c) IN
         /\ c \in CompletionState /\ c.row = Key(c) /\ c.row \in Connections
         /\ c.row = <<c.organization, AccountOf[c.installation]>>
         /\ c.installation \in Installations /\ Knows(c)
         /\ w \in ConnectionState /\ w.status # "ABSENT"
         /\ w.connectedBy = c.user /\ <<c.row[1], c.user>> \in issued
         /\ w.installation \in Installations
         /\ AccountOf[w.installation] = c.row[2]
         /\ github[w.installation] # "future"
         /\ w.installation = IF c.at = "updating" THEN connection[c.row].installation
                                                  ELSE c.installation
         /\ \A l \in Connections :
              connection[l].installation = w.installation => l = c.row
<1> DEFINE c == completion[q]
           w == Written(c)
<1>1. /\ c \in CompletionState /\ c.at \in {"updating", "upserting"} /\ Knows(c)
      /\ UniqueInstallation(c.row, w.installation)
  BY DEF WriteConnection, CInv, ConnectionsTypeOK
<1> HIDE DEF c
<1>2. /\ c.installation \in Installations /\ c.organization \in Organizations
      /\ c.user \in Users /\ <<c.organization, c.user>> \in issued
      /\ github[c.installation] # "future" /\ c.row = Key(c)
  BY <1>1 DEF Knows, Admitted, Targeted, Forward
<1>3. /\ c.row \in Connections /\ c.row[1] = c.organization
      /\ c.row[2] = AccountOf[c.installation]
      /\ c.row = <<c.organization, AccountOf[c.installation]>>
  BY <1>1, <1>2, KeyTyped DEF Key
<1>4. /\ c.at = "updating" => connection[c.row].status # "ABSENT"
      /\ Sound(c.row)
  BY <1>1, <1>2, <1>3 DEF Knows, Targeted, CInv
<1> DEFINE j == IF c.at = "updating" THEN connection[c.row].installation
                                     ELSE c.installation
<1>5. j \in Installations /\ AccountOf[j] = c.row[2] /\ github[j] # "future"
  BY <1>2, <1>3, <1>4 DEF Sound
<1>6. w = [status |-> StatusOf(c), connectedBy |-> c.user, installation |-> j]
  BY DEF Written
<1> HIDE DEF j, w
<1>7. StatusOf(c) \in {"ACTIVE", "SUSPENDED"}
  BY DEF StatusOf
<1>8. /\ w \in ConnectionState /\ w.status # "ABSENT" /\ w.connectedBy = c.user
      /\ w.installation = j
  BY <1>2, <1>5, <1>6, <1>7 DEF ConnectionState, Numbers
<1>9. \A l \in Connections : connection[l].installation = w.installation => l = c.row
  BY <1>1 DEF UniqueInstallation, Holding
<1> QED
  BY <1>1, <1>2, <1>3, <1>5, <1>8, <1>9 DEF c, j, w

LEMMA WriteKeeps ==
  ASSUME CInv, NEW q \in Completions, WriteConnection(q)
  PROVE  CInv'
<1> DEFINE c == completion[q]
           w == Written(c)
<1>1. /\ c \in CompletionState /\ c.row = Key(c) /\ c.row \in Connections
      /\ c.row = <<c.organization, AccountOf[c.installation]>>
      /\ w \in ConnectionState /\ w.status # "ABSENT"
      /\ <<c.row[1], w.connectedBy>> \in issued
      /\ w.installation \in Installations /\ AccountOf[w.installation] = c.row[2]
      /\ github[w.installation] # "future"
      /\ \A l \in Connections : connection[l].installation = w.installation => l = c.row
  BY WrittenFact
<1>2. /\ connection' = [connection EXCEPT ![c.row] = w]
      /\ completion' = [p \in Completions |->
           IF p = q THEN [IdleCompletion EXCEPT !.at = "connected"]
           ELSE [completion[p] EXCEPT !.overtaken = @ \/ Overtakes(c, p)]]
      /\ UNCHANGED <<outside, issued, fresh, repositories, import>>
  BY DEF WriteConnection
<1>3. /\ connection \in [Connections -> ConnectionState]
      /\ completion \in [Completions -> CompletionState]
  BY DEF CInv, ConnectionsTypeOK
<1>4. ASSUME NEW p \in Completions, p # q
      PROVE  \E v \in BOOLEAN :
               /\ completion'[p] = [completion[p] EXCEPT !.overtaken = v]
               /\ v = (completion[p].overtaken \/ Overtakes(c, p))
  BY <1>2, <1>4, Zenon
<1> HIDE DEF c, w
<1>5. /\ connection' \in [Connections -> ConnectionState] /\ connection'[c.row] = w
      /\ \A l \in Connections : l # c.row => connection'[l] = connection[l]
      /\ \A l \in Connections :
           connection[l].status # "ABSENT" => connection'[l].status # "ABSENT"
  BY <1>1, <1>2, <1>3
<1>6. ASSUME NEW p \in Completions
      PROVE  completion'[p] \in CompletionState /\ Knows(completion[p])'
  <2>1. CASE p = q
    <3>1. completion'[p] = [IdleCompletion EXCEPT !.at = "connected"]
      BY <1>2, <2>1
    <3>2. completion'[p] \in CompletionState /\ completion'[p].at = "connected"
      BY <3>1 DEF IdleCompletion, CompletionState, Numbers, Routes, Manual
    <3> QED
      BY <3>2 DEF Knows, Admitted, Targeted, Forward
  <2>2. CASE p # q
    <3> DEFINE b == completion[p]
    <3>1. PICK v \in BOOLEAN :
            /\ completion'[p] = [b EXCEPT !.overtaken = v]
            /\ v = (b.overtaken \/ Overtakes(c, p))
      BY <1>4, <2>2
    <3>2. b \in CompletionState /\ Knows(b)
      BY <1>3 DEF CInv
    <3>3. LET e == completion'[p] IN
          /\ e \in CompletionState /\ e.at = b.at /\ e.organization = b.organization
          /\ e.user = b.user /\ e.installation = b.installation /\ e.row = b.row
          /\ e.overtaken = v
      BY <3>1, <3>2 DEF CompletionState
    <3>4. Key(completion[p])' = Key(b)
      BY <3>3 DEF Key
    <3>5. b.at \in {"verified", "asked", "updating", "upserting"} => Key(b) \in Connections
      BY <3>2, KeyTyped DEF Knows, Admitted
    <3>6. Overtakes(c, p) <=> b.at \in {"asked", "updating", "upserting"} /\ Key(b) = c.row
      BY DEF Overtakes, Key
    <3>7. Admitted(completion[p])'
      BY <1>2, <3>2, <3>3 DEF Knows, Admitted
    <3>8. Targeted(completion[p])'
      <4>1. Targeted(b)
        BY <3>2 DEF Knows
      <4>2. b.at = "updating" => connection'[Key(b)].status # "ABSENT"
        BY <1>5, <3>5, <4>1 DEF Targeted
      <4> HIDE DEF b
      <4> QED
        BY <3>3, <3>4, <4>1, <4>2 DEF Targeted
    <3>9. Forward(completion[p])'
      <4>1. Forward(b)
        BY <3>2 DEF Knows
      <4>2. CASE v
        BY <1>2, <3>3, <4>1, <4>2 DEF Forward, outside
      <4>3. CASE ~v /\ b.at \in {"asked", "updating", "upserting"}
        <5>1. ~b.overtaken /\ Key(b) # c.row
          BY <3>1, <3>6, <4>3
        <5>2. connection'[Key(b)] = connection[Key(b)]
          BY <1>5, <3>5, <4>3, <5>1
        <5> HIDE DEF b
        <5> QED
          BY <1>2, <3>3, <3>4, <4>1, <5>1, <5>2 DEF Forward, outside
      <4>4. CASE b.at \notin {"asked", "updating", "upserting"}
        BY <3>3, <4>4 DEF Forward
      <4> QED
        BY <4>2, <4>3, <4>4
    <3> QED
      BY <3>3, <3>7, <3>8, <3>9 DEF Knows
  <2> QED
    BY <2>1, <2>2
<1>7. completion' \in [Completions -> CompletionState]
  BY <1>2, <1>6
<1>8. ASSUME NEW k \in Connections, NEW l \in Connections
      PROVE  /\ connection'[k].status = "ABSENT" <=> connection'[k].installation = 0
             /\ connection'[k].installation = connection'[l].installation
                  => k = l \/ connection'[k].installation = 0
  <2>1. w.installation # 0
    BY <1>1 DEF Installations
  <2>2. /\ connection[k].status = "ABSENT" <=> connection[k].installation = 0
        /\ connection[k].installation = connection[l].installation
             => k = l \/ connection[k].installation = 0
    BY DEF CInv, ConnectionsTypeOK
  <2>3. connection'[k].status = "ABSENT" <=> connection'[k].installation = 0
    <3>1. CASE k = c.row
      BY <1>1, <1>5, <2>1, <3>1
    <3>2. CASE k # c.row
      BY <1>5, <2>2, <3>2
    <3> QED
      BY <3>1, <3>2
  <2>4. CASE k # c.row /\ l # c.row
    BY <1>5, <2>2, <2>3, <2>4
  <2>5. CASE k = c.row \/ l = c.row
    BY <1>1, <1>5, <2>3, <2>5
  <2> QED
    BY <2>4, <2>5
<1>9. ConnectionsTypeOK'
  BY <1>2, <1>5, <1>7, <1>8 DEF CInv, ConnectionsTypeOK, outside
<1>10. \A k \in Connections : Sound(k)'
  BY <1>1, <1>2, <1>5 DEF CInv, Sound, outside
<1>11. \A m \in Imports : Through(import[m])'
  BY <1>2, <1>5 DEF CInv, Through
<1>12. ASSUME NEW row \in repositories'
       PROVE  Imported(row)'
  <2>1. Imported(row) /\ row \in repositories /\ row.via \in Routes
    BY <1>2 DEF CInv, ConnectionsTypeOK
  <2> QED
    BY <1>2, <1>5, <2>1 DEF Imported, Routes
<1> QED
  BY <1>2, <1>6, <1>9, <1>10, <1>11, <1>12 DEF CInv, InOrder, outside

-----------------------------------------------------------------------------
(* Steps of the other handlers                                             *)

LEMMA DisconnectKeeps ==
  ASSUME CInv, NEW u \in Users, NEW d \in Connections, Disconnect(u, d)
  PROVE  CInv'
<1>1. /\ connection' = [connection EXCEPT ![d].status = "DISCONNECTED"]
      /\ connection[d].status # "ABSENT"
      /\ UNCHANGED <<outside, issued, fresh, repositories, completion, import>>
      /\ connection \in [Connections -> ConnectionState]
  BY DEF Disconnect, CInv, ConnectionsTypeOK
<1>2. connection' \in [Connections -> ConnectionState]
  <2>1. [connection[d] EXCEPT !.status = "DISCONNECTED"] \in ConnectionState
    BY <1>1 DEF ConnectionState
  <2> QED
    BY <1>1, <2>1
<1>3. \A k \in Connections :
        /\ connection'[k].installation = connection[k].installation
        /\ connection'[k].connectedBy = connection[k].connectedBy
        /\ connection'[k].status = "ABSENT" <=> connection[k].status = "ABSENT"
  <2> SUFFICES ASSUME NEW k \in Connections
               PROVE  /\ connection'[k].installation = connection[k].installation
                      /\ connection'[k].connectedBy = connection[k].connectedBy
                      /\ connection'[k].status = "ABSENT" <=> connection[k].status = "ABSENT"
    OBVIOUS
  <2>1. CASE k # d
    BY <1>1, <2>1
  <2>2. CASE k = d
    <3>1. connection'[k] = [connection[k] EXCEPT !.status = "DISCONNECTED"]
      BY <1>1, <2>2
    <3> QED
      BY <1>1, <2>2, <3>1 DEF ConnectionState
  <2> QED
    BY <2>1, <2>2
<1>4. ConnectionsTypeOK'
  BY <1>1, <1>2, <1>3 DEF outside, CInv, ConnectionsTypeOK
<1>5. InOrder' /\ \A k \in Connections : Sound(k)'
  BY <1>1, <1>3 DEF outside, CInv, InOrder, Sound
<1>6. ASSUME NEW q \in Completions
      PROVE  Knows(completion[q])'
  <2> DEFINE c == completion[q]
  <2>1. Knows(c) /\ c \in CompletionState /\ c' = c /\ Key(c)' = Key(c)
    BY <1>1 DEF CInv, ConnectionsTypeOK, Key
  <2>2. c.at \in {"asked", "updating", "upserting"} => Key(c) \in Connections
    BY <2>1, KeyTyped DEF Knows, Admitted
  <2> HIDE DEF c
  <2>3. Admitted(c)' /\ Targeted(c)' /\ Forward(c)'
    BY <1>1, <1>3, <2>1, <2>2 DEF Knows, Admitted, Targeted, Forward, outside
  <2> QED
    BY <2>3 DEF Knows, c
<1>7. \A m \in Imports : Through(import[m])'
  BY <1>1, <1>3 DEF CInv, Through
<1>8. ASSUME NEW row \in repositories'
      PROVE  Imported(row)'
  <2>1. Imported(row) /\ row.via \in Routes
    BY <1>1 DEF CInv, ConnectionsTypeOK
  <2> QED
    BY <1>1, <1>3, <2>1 DEF Imported, Routes
<1> QED
  BY <1>1, <1>4, <1>5, <1>6, <1>7, <1>8 DEF CInv

\* A step that changes repositories and imports only.
LEMMA AddingStep ==
  ASSUME CInv, UNCHANGED <<outside, issued, fresh, connection, completion>>,
         repositories' \subseteq
           [workspace : Workspaces, repository : Repositories, via : Routes],
         import' \in [Imports -> ImportState],
         \A m \in Imports : Through(import'[m]),
         \A row \in repositories' : Imported(row)
  PROVE  CInv'
<1>1. ConnectionsTypeOK' /\ InOrder' /\ \A k \in Connections : Sound(k)'
  BY DEF outside, CInv, ConnectionsTypeOK, InOrder, Sound
<1>2. \A q \in Completions : Knows(completion[q])'
  BY DEF outside, CInv, Knows, Admitted, Targeted, Forward, Key
<1>3. /\ \A m \in Imports : Through(import[m])'
      /\ \A row \in repositories' : Imported(row)'
  BY DEF Through, Imported
<1> QED
  BY <1>1, <1>2, <1>3 DEF CInv

LEMMA CreateKeeps ==
  ASSUME CInv, NEW u \in Users, NEW w \in Workspaces, NEW r \in Repositories,
         CreateRepository(u, w, r)
  PROVE  CInv'
<1> DEFINE row == [workspace |-> w, repository |-> r, via |-> Manual]
<1>1. repositories' = repositories \cup {row} /\ row.via = Manual
  BY DEF CreateRepository, InsertRepository
<1>2. row \in [workspace : Workspaces, repository : Repositories, via : Routes]
  BY DEF Routes
<1> QED
  BY <1>1, <1>2, AddingStep DEF CreateRepository, CInv, ConnectionsTypeOK, Imported

LEMMA RemoveKeeps ==
  ASSUME CInv, NEW u \in Users, NEW row \in repositories, RemoveRepository(u, row)
  PROVE  CInv'
<1>1. repositories' \subseteq repositories
  BY DEF RemoveRepository
<1> QED
  BY <1>1, AddingStep DEF RemoveRepository, CInv, ConnectionsTypeOK

LEMMA OwnImport ==
  ASSUME CInv, NEW m \in Imports, NEW c \in ImportState, GoesOn(m, c), Through(c)
  PROVE  CInv'
<1>1. /\ import' \in [Imports -> ImportState]
      /\ \A n \in Imports : Through(import'[n])
  BY DEF GoesOn, CInv, ConnectionsTypeOK
<1> QED
  BY <1>1, AddingStep DEF GoesOn, CInv, ConnectionsTypeOK

LEMMA BeginImportKeeps ==
  ASSUME CInv, NEW m \in Imports, NEW u \in Users, NEW w \in Workspaces,
         NEW k \in Connections, BeginImport(m, u, w, k)
  PROVE  CInv'
<1> DEFINE c == [import[m] EXCEPT !.at = "admitted", !.workspace = w, !.via = k]
<1>1. import[m] \in ImportState /\ GoesOn(m, c)
  BY DEF BeginImport, CInv, ConnectionsTypeOK
<1>2. c \in ImportState /\ c.at = "admitted" /\ c.workspace = w /\ c.via = k
  BY <1>1 DEF ImportState, Routes
<1> HIDE DEF c
<1>3. Through(c)
  BY <1>2 DEF Through
<1> QED
  BY <1>1, <1>2, <1>3, OwnImport

LEMMA FindActiveKeeps ==
  ASSUME CInv, NEW m \in Imports, FindActiveConnection(m)
  PROVE  CInv'
<1> DEFINE b == import[m]
           i == connection[b.via].installation
           c == [b EXCEPT !.at = "listing", !.installation = i]
<1>1. /\ b \in ImportState /\ GoesOn(m, c) /\ Through(b) /\ b.at = "admitted"
      /\ connection[b.via].status = "ACTIVE" /\ b.via[1] = OrganizationOf[b.workspace]
  BY DEF FindActiveConnection, CInv, ConnectionsTypeOK
<1> HIDE DEF b
<1>2. b.via \in Connections /\ b.workspace \in Workspaces
  BY <1>1 DEF Through
<1>3. i \in Installations /\ AccountOf[i] = b.via[2]
  BY <1>1, <1>2 DEF CInv, Sound
<1> HIDE DEF i
<1>4. /\ c \in ImportState /\ c.at = "listing" /\ c.workspace = b.workspace
      /\ c.via = b.via /\ c.installation = i
  BY <1>1, <1>3 DEF ImportState, Numbers
<1> HIDE DEF c
<1>5. Through(c)
  BY <1>1, <1>2, <1>3, <1>4 DEF Through
<1> QED
  BY <1>1, <1>4, <1>5, OwnImport

LEMMA FailImportKeeps ==
  ASSUME CInv, NEW m \in Imports, FailImport(m)
  PROVE  CInv'
<1> DEFINE c == [IdleImport EXCEPT !.at = "failed"]
<1>1. c \in ImportState /\ c.at = "failed"
  BY DEF IdleImport, ImportState, Numbers, Routes, Manual
<1>2. GoesOn(m, c)
  BY DEF FailImport
<1> HIDE DEF c
<1> QED
  BY <1>1, <1>2, OwnImport DEF Through

LEMMA ImportKeeps ==
  ASSUME CInv, NEW m \in Imports, NEW r \in Repositories, ListAndImport(m, r)
  PROVE  CInv'
<1> DEFINE b == import[m]
           c == [IdleImport EXCEPT !.at = "imported"]
           row == [workspace |-> b.workspace, repository |-> r, via |-> b.via]
<1>1. /\ b \in ImportState /\ Through(b) /\ b.at = "listing"
      /\ HolderOf[r] = AccountOf[b.installation]
      /\ repositories' = repositories \cup {row} /\ import' = [import EXCEPT ![m] = c]
      /\ UNCHANGED <<outside, issued, fresh, connection, completion>>
  BY DEF ListAndImport, InsertRepository, CInv, ConnectionsTypeOK
<1> HIDE DEF b
<1>2. /\ b.via \in Connections /\ b.workspace \in Workspaces
      /\ b.via[1] = OrganizationOf[b.workspace] /\ b.via[2] = HolderOf[r]
      /\ connection[b.via].status # "ABSENT"
  BY <1>1 DEF Through
<1>3. b.via = <<OrganizationOf[b.workspace], HolderOf[r]>>
  BY <1>2 DEF Connections
<1>4. /\ row \in [workspace : Workspaces, repository : Repositories, via : Routes]
      /\ row.via = b.via /\ row.workspace = b.workspace /\ row.repository = r
  BY <1>2 DEF Routes
<1> HIDE DEF row
<1>5. Imported(row)
  BY <1>2, <1>3, <1>4 DEF Imported
<1>6. c \in ImportState /\ c.at = "imported"
  BY DEF IdleImport, ImportState, Numbers, Routes, Manual
<1> HIDE DEF c
<1>7. Through(c)
  BY <1>6 DEF Through
<1>8. /\ import' \in [Imports -> ImportState]
      /\ \A n \in Imports : Through(import'[n])
  BY <1>1, <1>6, <1>7 DEF CInv, ConnectionsTypeOK
<1>9. /\ repositories' \subseteq
           [workspace : Workspaces, repository : Repositories, via : Routes]
      /\ \A o \in repositories' : Imported(o)
  BY <1>1, <1>4, <1>5 DEF CInv, ConnectionsTypeOK
<1> QED
  BY <1>1, <1>8, <1>9, AddingStep

-----------------------------------------------------------------------------
(* What follows                                                            *)

LEMMA NextKeeps ==
  ASSUME CInv, [Next]_vars
  PROVE  CInv'
<1>1. CASE UNCHANGED vars
  BY <1>1, AddingStep DEF vars, CInv, ConnectionsTypeOK
<1>2. ASSUME NEW u \in Users, NEW o \in Organizations, NEW a \in Accounts,
             Disconnect(u, <<o, a>>)
      PROVE  CInv'
  BY <1>2, DisconnectKeeps DEF Connections
<1> QED
  BY <1>1, <1>2, GithubKeeps, RolesKeep, StatesKeep, BeginKeeps, GetKeeps, FindKeeps,
     WriteKeeps, FailKeeps, CreateKeeps, RemoveKeeps, BeginImportKeeps, FindActiveKeeps,
     FailImportKeeps, ImportKeeps DEF Next

\* The invariant of any number of completions and imports.
THEOREM ConnectionInvariant == Spec => []CInv
  BY InitHolds, NextKeeps, PTL DEF Spec

\* Every variable has its type, and no two connections have one installation.
THEOREM ConnectionsTypeCorrect == Spec => []ConnectionsTypeOK
<1>1. CInv => ConnectionsTypeOK
  BY DEF CInv
<1> QED
  BY <1>1, ConnectionInvariant, PTL

\* A connection is that of a user who asked for it as a manager.
THEOREM RequesterConnected == Spec => []ConnectedByRequester
<1>1. CInv => ConnectedByRequester
  BY DEF CInv, Sound, ConnectedByRequester
<1> QED
  BY <1>1, ConnectionInvariant, PTL

\* An imported repository is of the account and the organization of its
\* connection.
THEOREM ImportsKeepTheirAccount == Spec => []ImportedThroughItsConnection
<1>1. CInv => ImportedThroughItsConnection
  <2> SUFFICES ASSUME CInv, NEW row \in repositories, row.via # Manual
               PROVE  /\ row.via = <<OrganizationOf[row.workspace], HolderOf[row.repository]>>
                      /\ AccountOf[connection[row.via].installation] = HolderOf[row.repository]
    BY DEF ImportedThroughItsConnection
  <2>1. /\ row.via \in Connections /\ connection[row.via].status # "ABSENT"
        /\ row.via = <<OrganizationOf[row.workspace], HolderOf[row.repository]>>
    BY DEF CInv, ConnectionsTypeOK, Imported, Routes
  <2>2. Sound(row.via)
    BY <2>1 DEF CInv
  <2> QED
    BY <2>1, <2>2 DEF Sound
<1> QED
  BY <1>1, ConnectionInvariant, PTL

\* Only its own write connects a completion.
LEMMA OwnWrite ==
  ASSUME CInv, Next, NEW q \in Completions,
         completion[q].at \in {"updating", "upserting"},
         completion'[q].at = "connected"
  PROVE  WriteConnection(q)
<1>1. completion \in [Completions -> CompletionState]
  BY DEF CInv, ConnectionsTypeOK
<1>2. ASSUME NEW p \in Completions, NEW c, p # q, Goes(p, c)
      PROVE  FALSE
  <2>1. completion'[q] = completion[q]
    BY <1>1, <1>2 DEF Goes
  <2> QED
    BY <2>1
<1>3. ASSUME NEW p \in Completions,
             \/ GetInstallation(p) \/ FindInstallation(p) \/ FailCompletion(p)
             \/ \E u \in Users, o \in Organizations, s \in issued, i \in Installations :
                  BeginCompletion(p, u, o, s, i)
      PROVE  FALSE
  <2>1. \E c : Goes(p, c)
    BY <1>3 DEF GetInstallation, FindInstallation, FailCompletion, BeginCompletion
  <2>2. p = q
    BY <1>2, <2>1
  <2>3. FailCompletion(q)
    BY <1>3, <2>2 DEF GetInstallation, FindInstallation, BeginCompletion
  <2>4. completion'[q] = [IdleCompletion EXCEPT !.at = "failed"]
    BY <1>1, <2>3 DEF FailCompletion, Goes
  <2> QED
    BY <2>4 DEF IdleCompletion
<1>4. ASSUME NEW p \in Completions, p # q, WriteConnection(p)
      PROVE  FALSE
  <2>1. \E v : completion'[q] = [completion[q] EXCEPT !.overtaken = v]
    BY <1>4 DEF WriteConnection
  <2>2. PICK v : completion'[q] = [completion[q] EXCEPT !.overtaken = v]
    BY <2>1
  <2>3. completion'[q].at = completion[q].at
    BY <1>1, <2>2 DEF CompletionState
  <2> QED
    BY <2>3
<1>5. ~ UNCHANGED completion
  OBVIOUS
<1> QED
  BY <1>3, <1>4, <1>5 DEF Next, GithubChanges, RoleChanges, StatesExpire, CreateInstallUrl,
     Disconnect, CreateRepository, RemoveRepository, BeginImport, FindActiveConnection, FailImport, GoesOn,
     ListAndImport

\* No completion brings back an older installation unless it is overtaken.
THEOREM NoOlderInstallation == Spec => InstallationsForward
<1> DEFINE Goal(q) ==
      LET c == completion[q]
          k == <<c.organization, AccountOf[c.installation]>> IN
      /\ connection'[k].installation = c.installation
      /\ connection[k].installation <= c.installation
    A == \A q \in Completions :
           /\ completion[q].at \in {"updating", "upserting"}
           /\ completion'[q].at = "connected" /\ ~completion[q].overtaken
           => Goal(q)
<1>1. ASSUME CInv, [Next]_vars, NEW q \in Completions,
             completion[q].at \in {"updating", "upserting"},
             completion'[q].at = "connected", ~completion[q].overtaken
      PROVE  Goal(q)
  <2> DEFINE c == completion[q]
             w == Written(c)
  <2>1. WriteConnection(q)
    BY <1>1, OwnWrite DEF vars
  <2>2. /\ c.row = Key(c) /\ c.row \in Connections /\ w \in ConnectionState
        /\ c.row = <<c.organization, AccountOf[c.installation]>> /\ Knows(c)
        /\ w.installation = IF c.at = "updating" THEN connection[c.row].installation
                                                 ELSE c.installation
    BY <1>1, <2>1, WrittenFact
  <2>3. connection'[c.row] = w
    BY <1>1, <2>1, <2>2 DEF WriteConnection, CInv, ConnectionsTypeOK
  <2>4. /\ connection[c.row].installation <= c.installation
        /\ c.at = "updating" => connection[c.row].installation = c.installation
    BY <1>1, <2>2 DEF Knows, Forward
  <2> HIDE DEF c, w
  <2> QED
    BY <2>2, <2>3, <2>4 DEF c
<1>2. CInv /\ [Next]_vars => [A]_vars
  BY <1>1
<1> QED
  BY <1>2, ConnectionInvariant, PTL DEF Spec, InstallationsForward
=============================================================================
