---------------------------- MODULE AuthSessions ----------------------------
(***************************************************************************)
(* Login, refresh and logout of the API (apps/api/src/auth): the rows of   *)
(* the Session table and the handlers that read them, wait for bcrypt and  *)
(* then write them.  One step is the code between two awaited database     *)
(* calls; any number of calls are in progress at once.                     *)
(*                                                                         *)
(* The ids (uuid) and secrets (randomBytes) a handler draws are random and *)
(* never repeat; each handler draws at most one of each, so they bear the  *)
(* name of the call that drew them.  A session is named by the login that  *)
(* created it.  A bcrypt hash is modelled by the secret it was made from:  *)
(* compare() tells whether they are the same.                              *)
(***************************************************************************)
EXTENDS FiniteSets

CONSTANTS Calls,    \* calls of /auth/login, /auth/refresh and /auth/logout
          Users

VARIABLES
  active,           \* users with status ACTIVE and no deletedAt
  sessions,         \* ids of the Session rows
  owner,            \* owner[c]: userId of session c, from login c on
  secret,           \* secret[s]: the secret behind refreshTokenHash
  revoked,          \* sessions with a revokedAt
  expired,          \* sessions whose expiresAt has passed
  at,               \* at[c]: where the handler of call c is, or its answer
  token             \* token[c]: the refresh token call c presents

table == <<sessions, secret, revoked, expired>>
authVars == <<active, owner, table, at, token>>

Tokens == [session : Calls, secret : Calls]
Waiting == {"creating", "rotating", "revokingAll", "revoking"}
Granted == {"loggedIn", "refreshed"}
Answers == Granted \cup {"loggedOut", "rejected", "failed"}

\* The token that call c answers with, when it answers with one.
Grant(c) == [session |-> token[c].session, secret |-> c]
Minted == {Grant(c) : c \in {d \in Calls : at[d] \in Granted}}
\* The tokens for which another one was answered.
Spent == {token[c] : c \in {d \in Calls : at[d] = "refreshed"}}

\* The row with the id that t names exists and bcrypt.compare succeeds.
Matches(t) == t.session \in sessions /\ secret[t.session] = t.secret
\* The sessions that a refresh with the right token renews.
Open == sessions \ (revoked \cup expired)
Accepted == {[session |-> s, secret |-> secret[s]] : s \in Open}

AuthInit ==
  /\ active = Users
  /\ owner \in [Calls -> Users]
  /\ sessions = {} /\ revoked = {} /\ expired = {}
  /\ secret = [c \in Calls |-> c]
  /\ at = [c \in Calls |-> "idle"]
  /\ token = [c \in Calls |-> [session |-> c, secret |-> c]]

Goto(c, place) == at' = [at EXCEPT ![c] = place]

-----------------------------------------------------------------------------
(* POST /auth/login                                                        *)

\* The user row is read and the password compared; owner[c] is the user the
\* email names.  A wrong password is rejected like a suspended user.
Login(c) ==
  /\ at[c] = "idle"
  /\ \/ owner[c] \in active /\ Goto(c, "creating")
     \/ Goto(c, "rejected")
  /\ UNCHANGED <<active, owner, table, token>>

\* Mutation: session.create is not awaited, and the row is never written.
CreateUnawaited(c) ==
  /\ at[c] = "creating"
  /\ Goto(c, "loggedIn")
  /\ UNCHANGED <<active, owner, table, token>>

CreateSession(c) ==
  /\ at[c] = "creating"
  /\ sessions' = sessions \cup {c}
  /\ Goto(c, "loggedIn")
  /\ UNCHANGED <<active, owner, secret, revoked, expired, token>>

-----------------------------------------------------------------------------
(* POST /auth/refresh                                                      *)

\* What the handler does next, from the session and user rows it has read.
RefreshVerdict(t) ==
  CASE ~Matches(t)                                 -> "rejected"
    [] Matches(t) /\ t.session \in revoked         -> "revokingAll"
    [] Matches(t) /\ t.session \in Open
         /\ owner[t.session] \in active            -> "rotating"
    [] OTHER                                       -> "rejected"

Refresh(c, t) ==
  /\ at[c] = "idle"
  /\ token' = [token EXCEPT ![c] = t]
  /\ Goto(c, RefreshVerdict(t))
  /\ UNCHANGED <<active, owner, table>>

\* A revoked session was presented: every session of its user is revoked.
RevokeAll(c) ==
  /\ at[c] = "revokingAll"
  /\ revoked' = revoked \cup
       {s \in sessions : owner[s] = owner[token[c].session]}
  /\ Goto(c, "rejected")
  /\ UNCHANGED <<active, owner, sessions, secret, expired, token>>

\* Mutation: the rotation does not compare the hash with the one read.
RotateAnyHash(c) ==
  LET s == token[c].session IN
  /\ at[c] = "rotating"
  /\ IF s \in Open
     THEN secret' = [secret EXCEPT ![s] = c] /\ Goto(c, "refreshed")
     ELSE UNCHANGED secret /\ Goto(c, "rejected")
  /\ UNCHANGED <<active, owner, sessions, revoked, expired, token>>

\* Mutation: the rotation has no condition on revokedAt.
RotateRevoked(c) ==
  LET s == token[c].session IN
  /\ at[c] = "rotating"
  /\ IF Matches(token[c]) /\ s \notin expired
     THEN secret' = [secret EXCEPT ![s] = c] /\ Goto(c, "refreshed")
     ELSE UNCHANGED secret /\ Goto(c, "rejected")
  /\ UNCHANGED <<active, owner, sessions, revoked, expired, token>>

\* updateMany writes the next hash where the row is still as it was read.
Rotate(c) ==
  LET s == token[c].session IN
  /\ at[c] = "rotating"
  /\ IF Matches(token[c]) /\ s \in Open
     THEN secret' = [secret EXCEPT ![s] = c] /\ Goto(c, "refreshed")
     ELSE UNCHANGED secret /\ Goto(c, "rejected")
  /\ UNCHANGED <<active, owner, sessions, revoked, expired, token>>

-----------------------------------------------------------------------------
(* POST /auth/logout                                                       *)

\* Mutation: the test of revokedAt is inverted.
LogoutVerdictInverted(t) ==
  CASE ~Matches(t)                              -> "rejected"
    [] Matches(t) /\ t.session \in revoked      -> "revoking"
    [] Matches(t) /\ t.session \notin revoked   -> "loggedOut"

LogoutVerdict(t) ==
  CASE ~Matches(t)                              -> "rejected"
    [] Matches(t) /\ t.session \in revoked      -> "loggedOut"
    [] Matches(t) /\ t.session \notin revoked   -> "revoking"

Logout(c, t) ==
  /\ at[c] = "idle"
  /\ token' = [token EXCEPT ![c] = t]
  /\ Goto(c, LogoutVerdict(t))
  /\ UNCHANGED <<active, owner, table>>

\* updateMany revokes where the hash is the one read; the count it returns
\* is not looked at, so a call that revoked nothing answers the same.
Revoke(c) ==
  /\ at[c] = "revoking"
  /\ revoked' = IF Matches(token[c])
                THEN revoked \cup {token[c].session} ELSE revoked
  /\ Goto(c, "loggedOut")
  /\ UNCHANGED <<active, owner, sessions, secret, expired, token>>

-----------------------------------------------------------------------------
(* Time, the database and its administrator.                               *)

\* expiresAt passes: seven days after the login or the last rotation.
Expire(s) ==
  /\ s \in sessions \ expired
  /\ expired' = expired \cup {s}
  /\ UNCHANGED <<active, owner, sessions, secret, revoked, at, token>>

\* A user is suspended or deleted, or reinstated; no code under src does it.
ToggleUser(u) ==
  /\ active' = IF u \in active THEN active \ {u} ELSE active \cup {u}
  /\ UNCHANGED <<owner, table, at, token>>

\* A read or the awaited write fails, or the API dies waiting for it.
Fail(c) ==
  /\ at[c] \in {"idle"} \cup Waiting
  /\ Goto(c, "failed")
  /\ UNCHANGED <<active, owner, table, token>>

HandlerStep(c) == CreateSession(c) \/ RevokeAll(c) \/ Rotate(c) \/ Revoke(c)

AuthNext ==
  \/ \E c \in Calls : Login(c) \/ HandlerStep(c) \/ Fail(c)
  \/ \E c \in Calls : \E t \in Minted : Refresh(c, t) \/ Logout(c, t)
  \/ \E s \in Calls : Expire(s)
  \/ \E u \in Users : ToggleUser(u)

AuthSpec == AuthInit /\ [][AuthNext]_authVars

-----------------------------------------------------------------------------
\* Every variable has its type; only rows of the table are revoked or expire,
\* and a login answers with a token only once its row is there.
AuthTypeOK ==
  /\ active \subseteq Users
  /\ sessions \subseteq Calls
  /\ owner \in [Calls -> Users]
  /\ secret \in [Calls -> Calls]
  /\ revoked \subseteq sessions /\ expired \subseteq sessions
  /\ at \in [Calls -> {"idle"} \cup Waiting \cup Answers]
  /\ token \in [Calls -> Tokens]
  /\ \A c \in Calls : at[c] = "loggedIn" => c \in sessions

\* Two refreshes never both succeed with the same token, although they read
\* the row at the same time: the conditional updateMany of lines 152-167.
TokenSpentOnce ==
  \A c, d \in Calls :
    at[c] = "refreshed" /\ at[d] = "refreshed" /\ token[c] = token[d] => c = d

\* A token that was exchanged, or that a logout was answered for, is never
\* accepted again.
SpentTokenRefused ==
  \A c \in Calls :
    at[c] \in {"refreshed", "loggedOut"} => token[c] \notin Accepted

\* The handlers implement the promise of SessionTokens to every client.
Promise == INSTANCE SessionTokens WITH
             Names <- Calls, accepted <- Accepted, minted <- Minted, spent <- Spent
ImplementsSessionTokens == Promise!Spec
=============================================================================
