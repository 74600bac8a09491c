------------------------- MODULE AuthSessionsProofs -------------------------
(***************************************************************************)
(* What AuthSessions and WebSession check on a few calls holds for any     *)
(* number of calls and users: their types, that a token is spent once,     *)
(* that the handlers implement SessionTokens, that a browser is a client   *)
(* of AuthSessions, and what its user can rely on.                         *)
(*                                                                         *)
(* Inductive for the API: the secret behind a row was handed out by the    *)
(* last login or refresh of that row, and a token that a call has spent is *)
(* no longer the one behind its row (SessionInv).                          *)
(*                                                                         *)
(* Inductive for the browser (WebInv): a token that the browser has, or    *)
(* presents, came in a response that arrived, so the token of a response   *)
(* that has not arrived is still the one behind its row; and a request     *)
(* that nothing disturbed presents the token behind the row of its         *)
(* session.                                                                *)
(***************************************************************************)
EXTENDS WebSession, TLAPS

\* Rows are created by their logins and hold a secret that was handed out.
RowsInv ==
  /\ \A s \in Calls : s \in sessions <=> at[s] = "loggedIn"
  /\ \A s \in Calls \ sessions : secret[s] = s
  /\ \A s \in sessions : /\ at[secret[s]] \in Granted
                         /\ token[secret[s]].session = s

\* A call presents a token that was handed out, for a row that exists.
PresentedInv ==
  /\ \A c \in Calls :
       at[c] \in {"idle", "creating", "loggedIn"} => token[c].session = c
  /\ \A c \in Calls :
       at[c] \in {"rotating", "revokingAll", "revoking", "refreshed", "loggedOut"}
         => /\ token[c].session \in sessions
            /\ at[token[c].secret] \in Granted

\* What was spent, or logged out, is not accepted any more.
SpentInv ==
  \A c \in Calls :
    /\ at[c] = "refreshed" => ~Matches(token[c])
    /\ at[c] = "loggedOut" => \/ ~Matches(token[c])
                               \/ token[c].session \in revoked

TokensInv == RowsInv /\ PresentedInv /\ SpentInv /\ TokenSpentOnce
SessionInv == AuthTypeOK /\ TokensInv

-----------------------------------------------------------------------------
(* The type invariant                                                      *)

LEMMA AuthTypeInit == AuthInit => AuthTypeOK
  BY DEF AuthInit, AuthTypeOK, Tokens

LEMMA MintedTokens ==
  ASSUME AuthTypeOK, NEW t \in Minted
  PROVE  t \in Tokens
  BY DEF AuthTypeOK, Minted, Grant, Tokens

LEMMA AuthTypeStep ==
  ASSUME AuthTypeOK, [AuthNext]_authVars
  PROVE  AuthTypeOK'
<1> USE DEF AuthTypeOK, table
<1>1. ASSUME NEW c \in Calls, Login(c) PROVE AuthTypeOK'
  BY <1>1 DEF Login, Goto, Waiting, Answers
<1>2. ASSUME NEW c \in Calls, CreateSession(c) PROVE AuthTypeOK'
  BY <1>2 DEF CreateSession, Goto, Answers, Granted
<1>3. ASSUME NEW c \in Calls, RevokeAll(c) PROVE AuthTypeOK'
  BY <1>3 DEF RevokeAll, Goto, Answers
<1>4. ASSUME NEW c \in Calls, Rotate(c) PROVE AuthTypeOK'
  <2>1. secret' \in [Calls -> Calls]
    BY <1>4 DEF Rotate, Tokens
  <2>2. at' \in [Calls -> {"idle"} \cup Waiting \cup Answers]
    BY <1>4 DEF Rotate, Goto, Answers, Granted
  <2> QED
    BY <1>4, <2>1, <2>2 DEF Rotate, Goto
<1>5. ASSUME NEW c \in Calls, Revoke(c) PROVE AuthTypeOK'
  BY <1>5 DEF Revoke, Goto, Answers, Matches, Tokens
<1>6. ASSUME NEW c \in Calls, Fail(c) PROVE AuthTypeOK'
  BY <1>6 DEF Fail, Goto, Answers
<1>7. ASSUME NEW c \in Calls, NEW t \in Minted, Refresh(c, t)
      PROVE  AuthTypeOK'
  <2>1. t \in Tokens
    BY MintedTokens
  <2>2. /\ RefreshVerdict(t) \in Waiting \cup Answers
        /\ RefreshVerdict(t) # "loggedIn"
    BY DEF RefreshVerdict, Waiting, Answers
  <2> QED
    BY <1>7, <2>1, <2>2 DEF Refresh, Goto
<1>8. ASSUME NEW c \in Calls, NEW t \in Minted, Logout(c, t)
      PROVE  AuthTypeOK'
  <2>1. t \in Tokens
    BY MintedTokens
  <2>2. /\ LogoutVerdict(t) \in Waiting \cup Answers
        /\ LogoutVerdict(t) # "loggedIn"
    BY DEF LogoutVerdict, Waiting, Answers
  <2> QED
    BY <1>8, <2>1, <2>2 DEF Logout, Goto
<1>9. ASSUME NEW s \in Calls, Expire(s) PROVE AuthTypeOK'
  BY <1>9 DEF Expire
<1>10. ASSUME NEW u \in Users, ToggleUser(u) PROVE AuthTypeOK'
  BY <1>10 DEF ToggleUser
<1>11. CASE UNCHANGED authVars
  BY <1>11 DEF authVars
<1> QED
  BY <1>1, <1>2, <1>3, <1>4, <1>5, <1>6, <1>7, <1>8, <1>9, <1>10, <1>11
  DEF AuthNext, HandlerStep

\* Every variable keeps its type, for any number of calls and users.
THEOREM AuthTypeCorrect == AuthSpec => []AuthTypeOK
  BY AuthTypeInit, AuthTypeStep, PTL DEF AuthSpec

-----------------------------------------------------------------------------
(* A token is spent once                                                   *)

LEMMA SessionInit == AuthInit => SessionInv
<1> SUFFICES ASSUME AuthInit PROVE SessionInv
  OBVIOUS
<1>1. AuthTypeOK
  BY AuthTypeInit
<1>2. RowsInv /\ PresentedInv
  BY DEF AuthInit, RowsInv, PresentedInv
<1>3. SpentInv /\ TokenSpentOnce
  BY DEF AuthInit, SpentInv, TokenSpentOnce
<1> QED
  BY <1>1, <1>2, <1>3 DEF SessionInv, TokensInv

\* A handed-out token names a row that exists, and its secret the call that
\* handed it out.
LEMMA MintedFacts ==
  ASSUME AuthTypeOK, RowsInv, PresentedInv, NEW t \in Minted
  PROVE  /\ t \in Tokens /\ t.session \in sessions
         /\ at[t.secret] \in Granted
<1>1. PICK d \in Calls : at[d] \in Granted /\ t = Grant(d)
  BY DEF Minted
<1>2. t.session = token[d].session /\ t.secret = d
  BY <1>1 DEF Grant
<1>3. token[d].session \in sessions
  BY <1>1 DEF AuthTypeOK, RowsInv, PresentedInv, Granted
<1> QED
  BY <1>1, <1>2, <1>3, MintedTokens

LEMMA LoginStep ==
  ASSUME SessionInv, NEW c \in Calls, Login(c)
  PROVE  TokensInv'
<1> USE DEF SessionInv, TokensInv, AuthTypeOK, Login, Goto, table
<1>1. RowsInv'
  BY DEF RowsInv, Granted
<1>2. PresentedInv'
  <2>1. \A d \in Calls : at[d] \in Granted => at'[d] \in Granted
    BY DEF Granted
  <2> QED
    BY <2>1 DEF PresentedInv, Tokens
<1>3. SpentInv'
  BY DEF SpentInv, Matches
<1>4. TokenSpentOnce'
  BY DEF TokenSpentOnce
<1> QED
  BY <1>1, <1>2, <1>3, <1>4

LEMMA CreateSessionStep ==
  ASSUME SessionInv, NEW c \in Calls, CreateSession(c)
  PROVE  TokensInv'
<1> USE DEF SessionInv, TokensInv, AuthTypeOK, CreateSession, Goto
<1>1. c \notin sessions /\ secret[c] = c /\ token[c].session = c
  BY DEF RowsInv, PresentedInv
<1>2. RowsInv'
  BY <1>1 DEF RowsInv, Granted
<1>3. PresentedInv'
  BY <1>1 DEF PresentedInv, Granted
<1>4. SpentInv'
  <2> SUFFICES ASSUME NEW d \in Calls,
                      at'[d] = "refreshed" \/ at'[d] = "loggedOut"
               PROVE  /\ at[d] = at'[d]
                      /\ Matches(token[d])' <=> Matches(token[d])
    BY DEF SpentInv
  <2>1. d # c /\ at[d] = at'[d]
    OBVIOUS
  <2>2. token[d].session \in sessions
    BY <2>1 DEF PresentedInv
  <2> QED
    BY <1>1, <2>1, <2>2 DEF Matches
<1>5. TokenSpentOnce'
  BY DEF TokenSpentOnce
<1> QED
  BY <1>2, <1>3, <1>4, <1>5

LEMMA RevokeAllStep ==
  ASSUME SessionInv, NEW c \in Calls, RevokeAll(c)
  PROVE  TokensInv'
<1> USE DEF SessionInv, TokensInv, AuthTypeOK, RevokeAll, Goto
<1>1. RowsInv'
  BY DEF RowsInv, Granted
<1>2. PresentedInv'
  BY DEF PresentedInv, Granted
<1>3. SpentInv'
  BY DEF SpentInv, Matches
<1>4. TokenSpentOnce'
  BY DEF TokenSpentOnce
<1> QED
  BY <1>1, <1>2, <1>3, <1>4

\* The rotation that succeeds spends the token: its secret leaves the row.
LEMMA RotateStep ==
  ASSUME SessionInv, NEW c \in Calls, Rotate(c)
  PROVE  TokensInv'
<1> DEFINE s == token[c].session
<1> USE DEF SessionInv, TokensInv
<1>1. CASE Matches(token[c]) /\ s \in Open
  <2>1. /\ at' = [at EXCEPT ![c] = "refreshed"]
        /\ secret' = [secret EXCEPT ![s] = c]
        /\ UNCHANGED <<sessions, revoked, token>>
        /\ at[c] = "rotating"
    BY <1>1 DEF Rotate, Goto
  <2>2. s \in sessions /\ s \in Calls /\ secret[s] = token[c].secret
    BY <1>1 DEF Matches, AuthTypeOK
  <2>3. \A d \in Calls : at[d] \in Granted => d # c
    BY <2>1 DEF Granted
  <2>4. RowsInv'
    BY <2>1, <2>2, <2>3 DEF RowsInv, AuthTypeOK, Granted
  <2>5. PresentedInv'
    BY <2>1, <2>2 DEF PresentedInv, AuthTypeOK, Granted
  <2>6. \A d \in Calls : at'[d] \in {"refreshed", "loggedOut"}
                           => token[d].secret # c
    BY <2>1, <2>3 DEF PresentedInv, AuthTypeOK
  <2>7. SpentInv'
    <3> SUFFICES ASSUME NEW d \in Calls
                 PROVE  /\ at'[d] = "refreshed" => ~Matches(token[d])'
                        /\ at'[d] = "loggedOut" =>
                             ~Matches(token[d])' \/ token[d].session \in revoked
      BY <2>1 DEF SpentInv
    <3>1. CASE d = c
      BY <2>1, <2>2, <2>6, <3>1 DEF Matches, AuthTypeOK
    <3>2. CASE d # c
      <4>1. at'[d] = at[d]
        BY <2>1, <3>2 DEF AuthTypeOK
      <4>2. CASE token[d].session = s
        BY <2>1, <2>2, <2>6, <4>1, <4>2 DEF Matches, AuthTypeOK
      <4>3. CASE token[d].session # s
        BY <2>1, <4>1, <4>3 DEF Matches, AuthTypeOK, SpentInv
      <4> QED
        BY <4>2, <4>3
    <3> QED
      BY <3>1, <3>2
  <2>8. TokenSpentOnce'
    <3>1. ASSUME NEW d \in Calls, at[d] = "refreshed" PROVE token[d] # token[c]
      BY <1>1, <3>1 DEF SpentInv
    <3> QED
      BY <2>1, <3>1 DEF TokenSpentOnce, AuthTypeOK
  <2> QED
    BY <2>4, <2>5, <2>7, <2>8
<1>2. CASE ~(Matches(token[c]) /\ s \in Open)
  <2>1. /\ at' = [at EXCEPT ![c] = "rejected"] /\ at[c] = "rotating"
        /\ UNCHANGED <<sessions, secret, revoked, token>>
    BY <1>2 DEF Rotate, Goto
  <2>2. RowsInv'
    BY <2>1 DEF RowsInv, AuthTypeOK, Granted
  <2>3. PresentedInv'
    BY <2>1 DEF PresentedInv, AuthTypeOK, Granted
  <2>4. SpentInv'
    BY <2>1 DEF SpentInv, AuthTypeOK, Matches
  <2>5. TokenSpentOnce'
    BY <2>1 DEF TokenSpentOnce, AuthTypeOK
  <2> QED
    BY <2>2, <2>3, <2>4, <2>5
<1> QED
  BY <1>1, <1>2

LEMMA RevokeStep ==
  ASSUME SessionInv, NEW c \in Calls, Revoke(c)
  PROVE  TokensInv'
<1> USE DEF SessionInv, TokensInv
<1>1. /\ at' = [at EXCEPT ![c] = "loggedOut"] /\ at[c] = "revoking"
      /\ UNCHANGED <<sessions, secret, token>>
      /\ revoked \subseteq revoked'
      /\ Matches(token[c]) => token[c].session \in revoked'
  BY DEF Revoke, Goto
<1>2. RowsInv'
  BY <1>1 DEF RowsInv, AuthTypeOK, Granted
<1>3. PresentedInv'
  BY <1>1 DEF PresentedInv, AuthTypeOK, Granted
<1>4. SpentInv'
  BY <1>1 DEF SpentInv, AuthTypeOK, Matches
<1>5. TokenSpentOnce'
  BY <1>1 DEF TokenSpentOnce, AuthTypeOK
<1> QED
  BY <1>2, <1>3, <1>4, <1>5

LEMMA FailStep ==
  ASSUME SessionInv, NEW c \in Calls, Fail(c)
  PROVE  TokensInv'
<1> USE DEF SessionInv, TokensInv
<1>1. /\ at' = [at EXCEPT ![c] = "failed"]
      /\ at[c] \in {"idle", "creating", "rotating", "revokingAll", "revoking"}
      /\ UNCHANGED <<sessions, secret, revoked, token>>
  BY DEF Fail, Goto, Waiting, table
<1>2. RowsInv'
  BY <1>1 DEF RowsInv, AuthTypeOK, Granted
<1>3. PresentedInv'
  BY <1>1 DEF PresentedInv, AuthTypeOK, Granted
<1>4. SpentInv'
  BY <1>1 DEF SpentInv, AuthTypeOK, Matches
<1>5. TokenSpentOnce'
  BY <1>1 DEF TokenSpentOnce, AuthTypeOK
<1> QED
  BY <1>2, <1>3, <1>4, <1>5

\* A refresh or logout that reads the row: the token becomes the presented
\* one, and a logout answered at once has found the row revoked.
LEMMA PresentStep ==
  ASSUME SessionInv, NEW c \in Calls, NEW t \in Minted, NEW verdict,
         at[c] = "idle",
         verdict \in {"rejected", "rotating", "revokingAll", "revoking",
                      "loggedOut"},
         verdict = "loggedOut" => t.session \in revoked,
         token' = [token EXCEPT ![c] = t], Goto(c, verdict),
         UNCHANGED <<sessions, secret, revoked>>
  PROVE  TokensInv'
<1> USE DEF SessionInv, TokensInv
<1>1. t \in Tokens /\ t.session \in sessions /\ at[t.secret] \in Granted
  BY MintedFacts
<1>2. \A d \in Calls : d # c => at'[d] = at[d] /\ token'[d] = token[d]
  BY DEF AuthTypeOK, Goto
<1>3. at'[c] = verdict /\ token'[c] = t
  BY DEF AuthTypeOK, Goto
<1>4. RowsInv'
  BY <1>2, <1>3 DEF RowsInv, AuthTypeOK, Granted
<1>5. \A d \in Calls : at[d] \in Granted => at'[d] \in Granted
  BY <1>2 DEF Granted
<1>6. PresentedInv'
  BY <1>1, <1>2, <1>3, <1>5 DEF PresentedInv, AuthTypeOK, Tokens
<1>7. SpentInv'
  BY <1>2, <1>3 DEF SpentInv, AuthTypeOK, Matches
<1>8. TokenSpentOnce'
  BY <1>2, <1>3 DEF TokenSpentOnce, AuthTypeOK
<1> QED
  BY <1>4, <1>6, <1>7, <1>8

LEMMA SessionStep ==
  ASSUME SessionInv, [AuthNext]_authVars
  PROVE  SessionInv'
<1>1. AuthTypeOK'
  BY AuthTypeStep DEF SessionInv
<1>2. ASSUME NEW c \in Calls, NEW t \in Minted, Refresh(c, t) PROVE TokensInv'
  <2>1. RefreshVerdict(t) \in {"rejected", "rotating", "revokingAll"}
    BY DEF RefreshVerdict
  <2> QED
    BY <1>2, <2>1, PresentStep DEF Refresh, table
<1>3. ASSUME NEW c \in Calls, NEW t \in Minted, Logout(c, t) PROVE TokensInv'
  <2>1. /\ LogoutVerdict(t) \in {"rejected", "loggedOut", "revoking"}
        /\ LogoutVerdict(t) = "loggedOut" => t.session \in revoked
    BY DEF LogoutVerdict
  <2> QED
    BY <1>3, <2>1, PresentStep DEF Logout, table
<1>4. ASSUME NEW s \in Calls, Expire(s) PROVE TokensInv'
  BY <1>4 DEF SessionInv, TokensInv, Expire, RowsInv, PresentedInv, SpentInv,
              TokenSpentOnce, Matches
<1>5. ASSUME NEW u \in Users, ToggleUser(u) PROVE TokensInv'
  BY <1>5 DEF SessionInv, TokensInv, ToggleUser, table, RowsInv,
              PresentedInv, SpentInv, TokenSpentOnce, Matches
<1>6. ASSUME UNCHANGED authVars PROVE TokensInv'
  BY <1>6 DEF SessionInv, TokensInv, AuthTypeOK, authVars, table, RowsInv,
              PresentedInv, SpentInv, TokenSpentOnce, Matches
<1>7. ASSUME NEW c \in Calls, Login(c) \/ Fail(c) PROVE TokensInv'
  BY <1>7, LoginStep, FailStep
<1>8. ASSUME NEW c \in Calls, HandlerStep(c) PROVE TokensInv'
  BY <1>8, CreateSessionStep, RevokeAllStep, RotateStep, RevokeStep
  DEF HandlerStep
<1>9. TokensInv'
  BY <1>2, <1>3, <1>4, <1>5, <1>6, <1>7, <1>8 DEF AuthNext
<1> QED
  BY <1>1, <1>9 DEF SessionInv

LEMMA SessionInvariant == AuthSpec => []SessionInv
  BY SessionInit, SessionStep, PTL DEF AuthSpec

\* Two refreshes never both succeed with the same token, for any number of
\* calls reading the row at the same time.
THEOREM SpentOnce == AuthSpec => []TokenSpentOnce
  BY SessionInvariant, PTL DEF SessionInv, TokensInv

\* A token that was exchanged or logged out is never accepted again.
THEOREM SpentRefused == AuthSpec => []SpentTokenRefused
<1>1. SessionInv => SpentTokenRefused
  <2> SUFFICES ASSUME SessionInv, NEW c \in Calls,
                      at[c] \in {"refreshed", "loggedOut"}
               PROVE  token[c] \notin Accepted
    BY DEF SpentTokenRefused
  <2>1. \/ ~Matches(token[c])
        \/ token[c].session \in revoked
    BY DEF SessionInv, TokensInv, SpentInv
  <2> QED
    BY <2>1 DEF Accepted, Open, Matches
<1> QED
  BY <1>1, SessionInvariant, PTL
-----------------------------------------------------------------------------
(* The handlers implement SessionTokens                                    *)

LEMMA AcceptedFact ==
  ASSUME NEW S, NEW f, NEW t,
         t \in {[session |-> s, secret |-> f[s]] : s \in S}
  PROVE  t.session \in S /\ t.secret = f[t.session]
  OBVIOUS

LEMMA MintedFresh ==
  ASSUME NEW c \in Calls, at[c] \notin Granted
  PROVE  Grant(c) \notin Minted
  BY DEF Minted, Grant

\* Handing out a token adds exactly that one.
LEMMA MintedGrows ==
  ASSUME AuthTypeOK, NEW c \in Calls, NEW place \in Granted,
         Goto(c, place), UNCHANGED token
  PROVE  Minted' = Minted \cup {Grant(c)}
  BY DEF Minted, Grant, Goto, AuthTypeOK

\* A step after which no call newly answers with a token, and the token of a
\* call that did stays, hands out nothing and spends nothing.
LEMMA MintedSame ==
  ASSUME \A c \in Calls :
           /\ at'[c] = at[c] \/ (at[c] \notin Granted /\ at'[c] \notin Granted)
           /\ at[c] \in Granted => token'[c] = token[c]
  PROVE  Minted' = Minted /\ Spent' = Spent
  BY DEF Minted, Spent, Grant, Granted

LEMMA OpenStep ==
  ASSUME SessionInv, NEW c \in Calls, CreateSession(c)
  PROVE  Promise!Open(Grant(c)) /\ Grant(c) \in Promise!Token
<1>1. /\ c \notin sessions /\ secret[c] = c /\ token[c].session = c
      /\ secret' = secret /\ sessions' = sessions \cup {c}
      /\ UNCHANGED <<revoked, expired>>
  BY DEF SessionInv, TokensInv, RowsInv, PresentedInv, CreateSession
<1>2. Grant(c) = [session |-> c, secret |-> c]
  BY <1>1 DEF Grant
<1>3. Minted' = Minted \cup {Grant(c)}
  BY MintedGrows DEF SessionInv, CreateSession, Granted
<1>4. Open' = Open \cup {c}
  BY <1>1 DEF Open, SessionInv, AuthTypeOK
<1>5. Accepted' = Accepted \cup {Grant(c)}
  BY <1>1, <1>2, <1>4 DEF Accepted
<1>6. ASSUME NEW other \in Minted PROVE other.session # Grant(c).session
  BY <1>1, <1>2, MintedFacts DEF SessionInv, TokensInv
<1>7. Spent' = Spent
  BY DEF CreateSession, Goto, Spent, SessionInv, AuthTypeOK
<1> QED
  BY <1>2, <1>3, <1>5, <1>6, <1>7 DEF Promise!Open, Promise!Token

LEMMA ExchangeStep ==
  ASSUME SessionInv, NEW c \in Calls, Rotate(c),
         Matches(token[c]) /\ token[c].session \in Open
  PROVE  /\ token[c] \in Accepted /\ Grant(c) \in Promise!Token
         /\ Promise!Exchange(token[c], Grant(c))
<1> DEFINE s == token[c].session
<1>1. /\ secret' = [secret EXCEPT ![s] = c] /\ at[c] = "rotating"
      /\ Goto(c, "refreshed")
      /\ UNCHANGED <<sessions, revoked, expired, token>>
  BY DEF Rotate
<1>2. s \in Calls /\ secret[s] = token[c].secret /\ token[c] \in Tokens
  BY DEF Matches, SessionInv, AuthTypeOK, Tokens
<1>3. token[c] = [session |-> s, secret |-> secret[s]]
  BY <1>2 DEF Tokens
<1>4. token[c] \in Accepted
  BY <1>3 DEF Accepted
<1>5. Minted' = Minted \cup {Grant(c)}
  BY <1>1, MintedGrows DEF SessionInv, Granted
<1>6. Grant(c) \notin Minted
  BY <1>1, MintedFresh DEF Granted
<1>7. Open' = Open
  BY <1>1 DEF Open
<1>8. Grant(c) = [session |-> s, secret |-> c]
  BY DEF Grant
<1>9. Accepted' = (Accepted \ {token[c]}) \cup {Grant(c)}
  <2>1. ASSUME NEW r \in Open PROVE r \in Calls
    BY DEF Open, SessionInv, AuthTypeOK
  <2>2. secret'[s] = c /\ \A r \in Open \ {s} : secret'[r] = secret[r]
    BY <1>1, <1>2, <2>1 DEF SessionInv, AuthTypeOK
  <2>3. ASSUME NEW t \in Accepted'
        PROVE  t \in (Accepted \ {token[c]}) \cup {Grant(c)}
    <3>1. PICK r \in Open : t = [session |-> r, secret |-> secret'[r]]
      BY <1>7 DEF Accepted
    <3>2. CASE r = s
      BY <1>8, <2>2, <3>1, <3>2
    <3>3. CASE r # s
      <4>1. t \in Accepted
        BY <2>2, <3>1, <3>3 DEF Accepted
      <4>2. t.session # s
        BY <3>1, <3>3
      <4> QED
        BY <4>1, <4>2
    <3> QED
      BY <3>2, <3>3
  <2>4. ASSUME NEW t \in Accepted \ {token[c]} PROVE t \in Accepted'
    <3>1. PICK r \in Open : t = [session |-> r, secret |-> secret[r]]
      BY DEF Accepted
    <3>2. r # s
      BY <1>3, <3>1
    <3> QED
      BY <1>7, <2>2, <3>1, <3>2 DEF Accepted
  <2>5. Grant(c) \in Accepted'
    BY <1>7, <1>8, <2>2 DEF Accepted
  <2> QED
    BY <2>3, <2>4, <2>5
<1>10. Spent' = Spent \cup {token[c]}
  BY <1>1 DEF Goto, Spent, SessionInv, AuthTypeOK
<1> QED
  BY <1>2, <1>4, <1>5, <1>6, <1>8, <1>9, <1>10 DEF Promise!Exchange, Promise!Token

\* A step that closes some sessions, or none, and hands out nothing.
LEMMA EndStep ==
  ASSUME Open' \subseteq Open, \A s \in Open : secret'[s] = secret[s],
         Minted' = Minted, Spent' = Spent
  PROVE  Promise!Next \/ UNCHANGED <<Accepted, Minted, Spent>>
<1>1. Accepted' \subseteq Accepted
  BY DEF Accepted
<1> DEFINE T == Accepted \ Accepted'
<1>2. T \in SUBSET Accepted /\ Promise!End(T)
  BY <1>1 DEF Promise!End
<1> QED
  BY <1>2 DEF Promise!Next

LEMMA PromiseStep ==
  ASSUME SessionInv, [AuthNext]_authVars
  PROVE  [Promise!Next]_<<Accepted, Minted, Spent>>
<1>1. ASSUME NEW c \in Calls, CreateSession(c) PROVE Promise!Next
  BY <1>1, OpenStep DEF Promise!Next
<1>2. ASSUME NEW c \in Calls, Rotate(c),
             Matches(token[c]) /\ token[c].session \in Open
      PROVE  Promise!Next
  BY <1>2, ExchangeStep DEF Promise!Next
<1>3. ASSUME NEW c \in Calls, NEW place, at[c] \notin Granted,
             place \notin Granted, Goto(c, place),
             \A d \in Calls : d # c => token'[d] = token[d]
      PROVE  Minted' = Minted /\ Spent' = Spent
  BY <1>3, MintedSame DEF Goto, SessionInv, AuthTypeOK
<1>4. ASSUME NEW c \in Calls,
             \/ Login(c) \/ RevokeAll(c) \/ Revoke(c) \/ Fail(c)
             \/ Rotate(c) /\ ~(Matches(token[c]) /\ token[c].session \in Open)
             \/ \E t \in Minted : Refresh(c, t) \/ Logout(c, t)
      PROVE  [Promise!Next]_<<Accepted, Minted, Spent>>
  <2>1. \E place : /\ at[c] \notin Granted /\ place \notin Granted
                   /\ Goto(c, place)
                   /\ \A d \in Calls : d # c => token'[d] = token[d]
    <3>1. CASE Login(c)
      BY <3>1 DEF Login, Granted
    <3>2. CASE RevokeAll(c) \/ Revoke(c) \/ Fail(c)
      BY <3>2 DEF RevokeAll, Revoke, Fail, Granted, Waiting
    <3>3. CASE Rotate(c) /\ ~(Matches(token[c]) /\ token[c].session \in Open)
      BY <3>3 DEF Rotate, Granted
    <3>4. ASSUME NEW t \in Minted, Refresh(c, t) PROVE <2>1
      BY <3>4 DEF Refresh, RefreshVerdict, Granted, SessionInv, AuthTypeOK
    <3>5. ASSUME NEW t \in Minted, Logout(c, t) PROVE <2>1
      BY <3>5 DEF Logout, LogoutVerdict, Granted, SessionInv, AuthTypeOK
    <3> QED
      BY <1>4, <3>1, <3>2, <3>3, <3>4, <3>5
  <2>2. Minted' = Minted /\ Spent' = Spent
    BY <1>3, <2>1
  <2>3. /\ revoked \subseteq revoked'
        /\ UNCHANGED <<sessions, secret, expired>>
    BY <1>4 DEF Login, RevokeAll, Revoke, Fail, Rotate, Refresh, Logout, table
  <2> QED
    BY <2>2, <2>3, EndStep DEF Open
<1>5. ASSUME NEW s \in Calls, Expire(s)
      PROVE  [Promise!Next]_<<Accepted, Minted, Spent>>
  <2>1. Minted' = Minted /\ Spent' = Spent
    BY <1>5, MintedSame DEF Expire
  <2> QED
    BY <1>5, <2>1, EndStep DEF Expire, Open
<1>6. ASSUME NEW u \in Users, ToggleUser(u)
      PROVE  UNCHANGED <<Accepted, Minted, Spent>>
  BY <1>6 DEF ToggleUser, table, Accepted, Open, Minted, Spent, Grant
<1>7. CASE UNCHANGED authVars
  BY <1>7 DEF authVars, table, Accepted, Open, Minted, Spent, Grant
<1> QED
  BY <1>1, <1>2, <1>4, <1>5, <1>6, <1>7 DEF AuthNext, HandlerStep

LEMMA PromiseInit == AuthInit => Promise!Init
  BY DEF AuthInit, Promise!Init, Accepted, Open, Minted, Spent, Granted

\* Whatever the clients send and however their calls overlap, the API keeps
\* the promise of SessionTokens.
THEOREM Implementation == AuthSpec => ImplementsSessionTokens
  BY PromiseInit, PromiseStep, SessionInvariant, PTL
  DEF AuthSpec, ImplementsSessionTokens, Promise!Spec

-----------------------------------------------------------------------------
(* The browser and the web server                                          *)

\* The types of what WebSession adds; suspended has who is not active.
CallState ==
  [kind : {"none", "fetch", "login", "logout"},
   place : {"idle", "sending", "refreshing", "loggingIn", "loggingOut",
            "replied", "done", "lost"},
   refresh : Tokens \cup {NoToken}, cookies : {"keep", "set", "clear"},
   result : {"none", "ok", "expired", "refused", "unanswered"}]

WebTyped ==
  /\ jar \in [access : BOOLEAN, refresh : Tokens \cup {NoToken}]
  /\ web \in [Calls -> CallState] /\ disturbed \subseteq Calls
  /\ suspended \subseteq Users /\ Users \ active \subseteq suspended

\* What the API may have answered to a request of w.kind so far.
Handled(w, a) ==
  /\ w.kind = "none" => a = "idle"
  /\ w.kind = "fetch" =>
       a \in {"idle", "rotating", "revokingAll", "refreshed", "rejected", "failed"}
  /\ w.kind = "login" => a \in {"idle", "creating", "loggedIn", "rejected", "failed"}
  /\ w.kind = "logout" => a \in {"idle", "revoking", "loggedOut", "rejected", "failed"}

\* Where the route of a request is, and what it answers to the browser.
Routed(w, a) ==
  /\ w.place = "idle" <=> w.kind = "none"
  /\ w.place = "sending" => w.kind = "fetch" /\ a = "idle"
  /\ w.place = "refreshing" => w.kind = "fetch"
  /\ w.place = "loggingIn" => w.kind = "login"
  /\ w.place = "loggingOut" => w.kind = "logout"
  /\ w.place \in {"replied", "done", "lost"} /\ w.result # "unanswered"
       => a \notin Waiting /\ (w.kind # "fetch" => a # "idle")
  /\ w.place \notin {"replied", "done", "lost"} => w.result = "none"
  /\ w.place # "replied" => w.cookies = "keep"
  /\ w.cookies = "set" => a \in Granted /\ w.result = "ok"
  /\ w.place = "replied" /\ a \in Granted => w.cookies = "set" \/ w.result = "unanswered"
  /\ w.result = "expired" => w.kind = "fetch" /\ a \in {"rejected", "failed"}
  /\ w.place = "replied" /\ w.kind = "logout" => w.cookies = "clear"

PlaceInv == \A c \in Calls : Handled(web[c], at[c]) /\ Routed(web[c], at[c])

\* A request carries the refresh token of the jar, which the API handed out.
Carries(c) == web[c].kind \in {"fetch", "logout"}
CarriedInv ==
  /\ jar.access => jar.refresh # NoToken
  /\ jar.refresh \in Minted \cup {NoToken}
  /\ \A c \in Calls :
       /\ web[c].refresh \in Minted \cup {NoToken}
       /\ Carries(c) => web[c].refresh # NoToken
       /\ Carries(c) /\ at[c] \notin {"idle", "failed"} => token[c] = web[c].refresh

\* The browser has a token from a response that arrived; so the token of a
\* response that has not arrived is still the one behind its row.
Delivered(t) == t # NoToken => web[t.secret].place = "done"
DeliveredInv ==
  /\ Delivered(jar.refresh)
  /\ \A c \in Calls : Delivered(web[c].refresh)
  /\ \A c \in Calls :
       at[c] \in Granted /\ web[c].place # "done" => secret[token[c].session] = c

\* The token behind the row is the jar's, on its way, or lost.
JarInv ==
  jar.refresh # NoToken =>
    LET c == secret[jar.refresh.session] IN
    c = jar.refresh.secret \/ UnderWay(c) \/ Lost(c)

AloneInv ==
  \A c \in Calls \ disturbed, d \in Calls :
    UnderWay(c) /\ (UnderWay(d) \/ Lost(d)) => c = d

\* What a request that nothing disturbed presents is what is behind the row.
MatchInv ==
  \A c \in Calls \ disturbed :
    UnderWay(c) /\ Carries(c) /\ at[c] # "refreshed" => Matches(web[c].refresh)
OverInv ==
  \A c \in Calls \ disturbed :
    Carries(c) /\ at[c] \in {"rejected", "loggedOut"} /\ web[c].result # "unanswered"
      => \/ web[c].refresh.session \notin Open
         \/ web[c].kind = "fetch" /\ owner[web[c].refresh.session] \in suspended

\* After an undisturbed logout nothing has, or will get, a token of its session.
EndedInv ==
  \A c \in Calls \ disturbed :
    web[c].kind = "logout" /\ web[c].place = "done" =>
      LET s == web[c].refresh.session IN
      /\ jar.refresh # NoToken => jar.refresh.session # s
      /\ \A d \in Calls :
           UnderWay(d) => /\ d # s
                          /\ web[d].refresh # NoToken => web[d].refresh.session # s

WebInv ==
  /\ SessionInv /\ WebTyped /\ PlaceInv /\ CarriedInv /\ DeliveredInv
  /\ JarInv /\ AloneInv /\ MatchInv /\ OverInv /\ EndedInv

-----------------------------------------------------------------------------
(* The steps of the API                                                    *)

\* The API handles the call of request c.
ApiOf(c) ==
  \/ CallRefresh(c) \/ CallLogin(c) \/ CallLogout(c) \/ ApiStep(c)
  \/ ApiFails(c)

\* Only c's call gets on; nothing that was answered changes, no session comes
\* back, and only a rotation that succeeds changes a secret.
ApiChange(c) ==
  /\ UNCHANGED <<jar, web, disturbed, suspended, active, owner>>
  /\ \A d \in Calls \ {c} : at'[d] = at[d] /\ token'[d] = token[d]
  /\ at[c] \notin Granted /\ at[c] # "failed"
  /\ at[c] # "idle" => token'[c] = token[c]
  /\ sessions \subseteq sessions' /\ revoked \subseteq revoked' /\ expired \subseteq expired'
  /\ \/ UNCHANGED secret /\ at'[c] # "refreshed"
     \/ /\ at[c] = "rotating" /\ at'[c] = "refreshed" /\ Matches(token[c])
        /\ secret' = [secret EXCEPT ![token[c].session] = c]

LEMMA ApiChanges ==
  ASSUME SessionInv, NEW c \in Calls, ApiOf(c)
  PROVE  ApiChange(c)
<1> USE DEF SessionInv, AuthTypeOK, ApiChange, webVars, table
<1>1. CASE CallRefresh(c)
  <2>1. RefreshVerdict(web[c].refresh) # "refreshed"
    BY DEF RefreshVerdict
  <2> QED
    BY <1>1, <2>1 DEF CallRefresh, Refresh, Goto, Granted
<1>2. CASE CallLogin(c)
  BY <1>2 DEF CallLogin, Login, Goto, Granted
<1>3. CASE CallLogout(c)
  <2>1. LogoutVerdict(web[c].refresh) # "refreshed"
    BY DEF LogoutVerdict
  <2> QED
    BY <1>3, <2>1 DEF CallLogout, Logout, Goto, Granted
<1>4. CASE CreateSession(c) /\ UNCHANGED webVars
  BY <1>4 DEF CreateSession, Goto, Granted
<1>5. CASE RevokeAll(c) /\ UNCHANGED webVars
  BY <1>5 DEF RevokeAll, Goto, Granted
<1>6. CASE Rotate(c) /\ UNCHANGED webVars
  BY <1>6 DEF Rotate, Goto, Granted
<1>7. CASE Revoke(c) /\ UNCHANGED webVars
  BY <1>7 DEF Revoke, Goto, Granted
<1>8. CASE ApiFails(c)
  BY <1>8 DEF ApiFails, Fail, Goto, Granted, Waiting
<1> QED
  BY <1>1, <1>2, <1>3, <1>4, <1>5, <1>6, <1>7, <1>8 DEF ApiOf, ApiStep, HandlerStep

\* The API is called for requests that wait for it, and answers in kind; it
\* may go on when they gave up.
AtApi(c) == Waits(c) \/ web[c].result = "unanswered"
LEMMA ApiHandles ==
  ASSUME WebInv, NEW c \in Calls, ApiOf(c)
  PROVE  /\ AtApi(c) /\ Handled(web[c], at'[c])
         /\ at[c] = "idle" /\ Carries(c) /\ at'[c] # "failed"
              => token'[c] = web[c].refresh
<1>a. /\ Handled(web[c], at[c]) /\ Routed(web[c], at[c])
      /\ at \in [Calls -> {"idle"} \cup Waiting \cup Answers]
      /\ token \in [Calls -> Tokens] /\ web \in [Calls -> CallState]
  BY DEF WebInv, PlaceInv, SessionInv, AuthTypeOK, WebTyped
<1>b. at[c] \in Waiting => AtApi(c)
  <2>1. web[c].place \in {"idle", "sending", "refreshing", "loggingIn", "loggingOut",
                          "replied", "done", "lost"}
    BY <1>a DEF CallState
  <2> QED
    BY <1>a, <2>1 DEF Handled, Routed, AtApi, Waits, Waiting
<1>1. CASE CallRefresh(c)
  <2>1. RefreshVerdict(web[c].refresh) \in {"rejected", "rotating", "revokingAll"}
    BY DEF RefreshVerdict
  <2> QED
    BY <1>a, <1>1, <2>1 DEF CallRefresh, Refresh, Goto, Handled, Routed, AtApi, Waits, Carries
<1>2. CASE CallLogin(c)
  BY <1>a, <1>2 DEF CallLogin, Login, Goto, Handled, Routed, AtApi, Waits, Carries
<1>3. CASE CallLogout(c)
  <2>1. LogoutVerdict(web[c].refresh) \in {"rejected", "loggedOut", "revoking"}
    BY DEF LogoutVerdict
  <2> QED
    BY <1>a, <1>3, <2>1 DEF CallLogout, Logout, Goto, Handled, Routed, AtApi, Waits, Carries
<1>4. CASE ApiStep(c)
  <2>1. at[c] \in Waiting
    BY <1>4 DEF ApiStep, HandlerStep, CreateSession, RevokeAll, Rotate, Revoke, Waiting
  <2>2. CASE CreateSession(c)
    BY <1>a, <1>b, <2>1, <2>2 DEF CreateSession, Goto, Handled
  <2>3. CASE RevokeAll(c)
    BY <1>a, <1>b, <2>1, <2>3 DEF RevokeAll, Goto, Handled
  <2>4. CASE Rotate(c)
    BY <1>a, <1>b, <2>1, <2>4 DEF Rotate, Goto, Handled
  <2>5. CASE Revoke(c)
    BY <1>a, <1>b, <2>1, <2>5 DEF Revoke, Goto, Handled
  <2> QED
    BY <1>4, <2>2, <2>3, <2>4, <2>5 DEF ApiStep, HandlerStep
<1>5. CASE ApiFails(c)
  <2>1. at[c] = "idle" => web[c].kind # "none"
    BY <1>a, <1>5 DEF ApiFails, Waits, Routed
  <2>2. web[c].kind \in {"none", "fetch", "login", "logout"}
    BY <1>a DEF CallState
  <2>3. at'[c] = "failed" /\ at[c] \in {"idle"} \cup Waiting /\ token' = token
    BY <1>a, <1>5 DEF ApiFails, Fail, Goto
  <2>4. AtApi(c)
    BY <1>b, <1>5, <2>3 DEF ApiFails, AtApi
  <2> QED
    BY <1>a, <2>1, <2>2, <2>3, <2>4 DEF Handled, Waiting
<1> QED
  BY <1>1, <1>2, <1>3, <1>4, <1>5 DEF ApiOf

\* Whoever presents the secret behind the row is told that it is over, or
\* refused, only when the session is over, or its user is suspended.
LEMMA AnsweredOver ==
  ASSUME SessionInv, NEW c \in Calls, ApiOf(c),
         LET t == web[c].refresh IN
           /\ t \in Tokens /\ Matches(t)
           /\ at[c] \notin {"idle", "failed"} => token[c] = t,
         web[c].place # "loggingIn", at'[c] \in {"rejected", "loggedOut"},
         web[c].place = "refreshing" => web[c].kind = "fetch"
  PROVE  \/ web[c].refresh.session \notin Open'
         \/ /\ web[c].kind = "fetch"
            /\ owner[web[c].refresh.session] \in Users \ active
<1> DEFINE t == web[c].refresh
<1>a. /\ t.session \in sessions /\ owner[t.session] \in Users
      /\ at \in [Calls -> {"idle"} \cup Waiting \cup Answers]
  BY DEF Matches, SessionInv, AuthTypeOK
<1>1. CASE CallRefresh(c)
  <2>1. /\ RefreshVerdict(t) \in {"rejected", "loggedOut"} /\ UNCHANGED table
        /\ web[c].kind = "fetch"
    BY <1>a, <1>1 DEF CallRefresh, Refresh, Goto
  <2> QED
    BY <1>a, <2>1 DEF RefreshVerdict, Open, table
<1>2. CASE CallLogout(c)
  <2>1. LogoutVerdict(t) \in {"rejected", "loggedOut"} /\ UNCHANGED table
    BY <1>a, <1>2 DEF CallLogout, Logout, Goto
  <2> QED
    BY <1>a, <2>1 DEF LogoutVerdict, Open, table
<1>3. CASE ApiStep(c)
  <2>1. at[c] \in Waiting
    BY <1>3 DEF ApiStep, HandlerStep, CreateSession, RevokeAll, Rotate, Revoke, Waiting
  <2>2. token[c] = t
    BY <2>1 DEF Waiting
  <2>3. CASE CreateSession(c)
    BY <1>a, <2>3 DEF CreateSession, Goto
  <2>4. CASE RevokeAll(c)
    BY <1>a, <2>2, <2>4 DEF RevokeAll, Open
  <2>5. CASE Rotate(c)
    BY <1>a, <2>2, <2>5 DEF Rotate, Goto, Open
  <2>6. CASE Revoke(c)
    BY <2>2, <2>6 DEF Revoke, Open
  <2> QED
    BY <1>3, <2>3, <2>4, <2>5, <2>6 DEF ApiStep, HandlerStep
<1>4. CASE CallLogin(c)
  BY <1>4 DEF CallLogin
<1>5. CASE ApiFails(c)
  BY <1>a, <1>5 DEF ApiFails, Fail, Goto
<1> QED
  BY <1>1, <1>2, <1>3, <1>4, <1>5 DEF ApiOf

LEMMA MintedStays ==
  ASSUME AuthTypeOK, NEW c \in Calls, ApiChange(c), AuthTypeOK'
  PROVE  Minted \subseteq Minted'
<1> SUFFICES ASSUME NEW d \in Calls, at[d] \in Granted PROVE Grant(d) \in Minted'
  BY DEF Minted
<1>1. d # c
  BY DEF ApiChange
<1>2. at'[d] = at[d] /\ token'[d] = token[d]
  BY <1>1 DEF ApiChange
<1>3. Grant(d)' = Grant(d)
  BY <1>2 DEF Grant
<1> QED
  BY <1>2, <1>3 DEF Minted

\* A browser's steps are steps of a client of the API: what it presents was
\* handed out.
LEMMA WebSimulation ==
  ASSUME WebInv, [WebNext]_vars
  PROVE  [AuthNext]_authVars
<1>1. ASSUME NEW c \in Calls, CallRefresh(c) PROVE AuthNext
  <2>1. web[c].refresh \in Minted
    <3>1. Carries(c)
      BY <1>1 DEF CallRefresh, WebInv, PlaceInv, Routed, Carries
    <3> QED
      BY <3>1 DEF WebInv, CarriedInv
  <2> QED
    BY <1>1, <2>1 DEF CallRefresh, AuthNext
<1>2. ASSUME NEW c \in Calls, CallLogout(c) PROVE AuthNext
  <2>1. web[c].refresh \in Minted
    <3>1. Carries(c)
      BY <1>2 DEF CallLogout, WebInv, PlaceInv, Routed, Carries
    <3> QED
      BY <3>1 DEF WebInv, CarriedInv
  <2> QED
    BY <1>2, <2>1 DEF CallLogout, AuthNext
<1>3. ASSUME NEW c \in Calls, CallLogin(c) \/ ApiStep(c) \/ ApiFails(c) \/ Expire(c)
      PROVE  AuthNext
  BY <1>3 DEF CallLogin, ApiStep, ApiFails, AuthNext
<1>4. ASSUME NEW c \in Calls,
             \/ StartFetch(c) \/ StartLogin(c) \/ StartLogout(c)
             \/ AccessAnswered(c) \/ Refreshed(c) \/ RefreshRefused(c)
             \/ LoginAnswered(c) \/ LogoutAnswered(c) \/ LoseAnswer(c)
             \/ Receive(c) \/ LoseResponse(c) \/ ExpireAccess
      PROVE  UNCHANGED authVars
  BY <1>4 DEF StartFetch, StartLogin, StartLogout, Begin, AccessAnswered, Refreshed,
              RefreshRefused, LoginAnswered, LogoutAnswered, LoseAnswer, Reply,
              Receive, LoseResponse, ExpireAccess
<1>5. CASE ExpireAccess
  BY <1>5 DEF ExpireAccess
<1>6. CASE UNCHANGED vars
  BY <1>6 DEF vars
<1>7. ASSUME NEW u \in Users, Suspend(u) PROVE AuthNext
  BY <1>7 DEF Suspend, AuthNext
<1> QED
  BY <1>1, <1>2, <1>3, <1>4, <1>5, <1>6, <1>7 DEF WebNext, Serve

\* The call of a request gets on at the API.
LEMMA ApiKeeps ==
  ASSUME WebInv, SessionInv', NEW c \in Calls, ApiOf(c)
  PROVE  WebInv'
<1>1. /\ ApiChange(c) /\ AtApi(c) /\ Handled(web[c], at'[c])
      /\ at[c] = "idle" /\ Carries(c) /\ at'[c] # "failed"
           => token'[c] = web[c].refresh
  BY ApiChanges, ApiHandles DEF WebInv
<1>2. /\ UNCHANGED <<jar, web, disturbed, suspended, active, owner>>
      /\ \A d \in Calls \ {c} : at'[d] = at[d] /\ token'[d] = token[d]
      /\ at[c] \notin Granted /\ at[c] # "failed"
      /\ at[c] # "idle" => token'[c] = token[c]
      /\ sessions \subseteq sessions' /\ revoked \subseteq revoked'
      /\ expired \subseteq expired'
  BY <1>1 DEF ApiChange
<1>3. /\ AuthTypeOK /\ RowsInv /\ PresentedInv /\ Routed(web[c], at[c])
      /\ Handled(web[c], at[c])
  BY DEF WebInv, SessionInv, TokensInv, PlaceInv
<1>4. /\ UnderWay(c) \/ Lost(c)
      /\ web[c].result # "unanswered" => UnderWay(c)
  BY <1>1 DEF AtApi, Waits, UnderWay, Lost
<1>5. WebTyped'
  BY <1>2 DEF WebInv, WebTyped
<1>6. PlaceInv'
  <2>1. Routed(web[c], at'[c])
    BY <1>1, <1>2, <1>3 DEF AtApi, Waits, Routed, Granted
  <2> QED
    BY <1>1, <1>2, <2>1 DEF WebInv, PlaceInv
<1>7. CarriedInv'
  <2>1. Minted \subseteq Minted'
    BY <1>1, <1>3, MintedStays DEF SessionInv
  <2>2. ASSUME NEW d \in Calls, Carries(d), at'[d] \notin {"idle", "failed"}
        PROVE  token'[d] = web[d].refresh
    BY <1>1, <1>2, <2>2 DEF WebInv, CarriedInv
  <2> QED
    BY <1>2, <2>1, <2>2 DEF WebInv, CarriedInv, Carries
<1>8. DeliveredInv'
  <2>1. ASSUME NEW d \in Calls, d # c, at'[d] \in Granted, web[d].place # "done"
        PROVE  secret'[token'[d].session] = d
    <3>1. secret[token[d].session] = d /\ at[d] \in Granted
      BY <1>2, <2>1 DEF WebInv, DeliveredInv
    <3>2. CASE UNCHANGED secret
      BY <1>2, <2>1, <3>1, <3>2
    <3>3. CASE /\ at[c] = "rotating" /\ Matches(token[c])
               /\ secret' = [secret EXCEPT ![token[c].session] = c]
      <4>1. Carries(c)
        BY <1>3, <3>3 DEF Handled, Carries, CallState, WebInv, WebTyped
      <4>2. token[c] = web[c].refresh /\ web[c].refresh # NoToken
        BY <3>3, <4>1 DEF WebInv, CarriedInv
      <4>3. web[token[c].secret].place = "done"
        BY <4>2 DEF WebInv, DeliveredInv, Delivered
      <4>4. token[d].session # token[c].session
        BY <2>1, <3>1, <3>3, <4>3 DEF Matches
      <4>5. token[d].session \in Calls
        BY <1>3 DEF AuthTypeOK, Tokens
      <4> QED
        BY <1>2, <1>3, <2>1, <3>1, <3>3, <4>4, <4>5 DEF AuthTypeOK
    <3> QED
      BY <1>1, <3>2, <3>3 DEF ApiChange
  <2>2. ASSUME at'[c] \in Granted PROVE secret'[token'[c].session] = c
    <3>1. CASE UNCHANGED secret /\ at'[c] # "refreshed"
      <4>1. at'[c] = "loggedIn"
        BY <2>2, <3>1 DEF Granted
      <4>2. token'[c].session = c
        BY <4>1 DEF SessionInv, TokensInv, PresentedInv
      <4>3. c \notin sessions
        BY <1>2, <1>3 DEF RowsInv, Granted
      <4> QED
        BY <1>3, <3>1, <4>2, <4>3 DEF RowsInv
    <3>2. CASE /\ at[c] = "rotating"
               /\ secret' = [secret EXCEPT ![token[c].session] = c]
      <4>1. token'[c] = token[c] /\ token[c].session \in Calls
        BY <1>2, <1>3, <3>2 DEF AuthTypeOK, Tokens
      <4> QED
        BY <1>3, <3>2, <4>1 DEF AuthTypeOK
    <3> QED
      BY <1>1, <3>1, <3>2 DEF ApiChange
  <2>3. \A t : Delivered(t) => Delivered(t)'
    BY <1>2 DEF Delivered
  <2> QED
    BY <1>2, <2>1, <2>2 DEF WebInv, DeliveredInv, Delivered
<1>9. JarInv'
  <2> SUFFICES ASSUME jar.refresh # NoToken
               PROVE  LET e == secret'[jar.refresh.session] IN
                      e = jar.refresh.secret \/ UnderWay(e) \/ Lost(e)
    BY <1>2 DEF JarInv, UnderWay, Lost
  <2>1. jar.refresh.session \in Calls
    BY FaultsAssumption DEF WebInv, WebTyped, Tokens
  <2>2. \/ secret'[jar.refresh.session] = secret[jar.refresh.session]
        \/ secret'[jar.refresh.session] = c
    BY <1>1, <1>3, <2>1 DEF ApiChange, AuthTypeOK
  <2> QED
    BY <1>4, <2>2 DEF WebInv, JarInv
<1>10. AloneInv'
  BY <1>2 DEF WebInv, AloneInv, UnderWay, Lost
<1>11. MatchInv'
  <2> SUFFICES ASSUME NEW d \in Calls \ disturbed, UnderWay(d), Carries(d),
                      at'[d] # "refreshed"
               PROVE  Matches(web[d].refresh)'
    BY <1>2 DEF MatchInv, UnderWay, Carries
  <2>1. d = c
    BY <1>4 DEF WebInv, AloneInv
  <2>2. Matches(web[c].refresh)
    BY <1>2, <1>4, <2>1 DEF WebInv, MatchInv, Granted
  <2>3. UNCHANGED secret
    BY <1>1, <2>1 DEF ApiChange
  <2> QED
    BY <1>2, <2>1, <2>2, <2>3 DEF Matches
<1>12. OverInv'
  <2> SUFFICES ASSUME NEW d \in Calls \ disturbed, Carries(d),
                      at'[d] \in {"rejected", "loggedOut"},
                      web[d].result # "unanswered"
               PROVE  \/ web[d].refresh.session \notin Open'
                      \/ /\ web[d].kind = "fetch"
                         /\ owner[web[d].refresh.session] \in suspended
    BY <1>2 DEF OverInv, Carries
  <2>1. web[d].refresh \in Minted
    BY DEF WebInv, CarriedInv
  <2>2. web[d].refresh \in Tokens /\ web[d].refresh.session \in sessions
    BY <1>3, <2>1, MintedFacts
  <2>3. CASE d # c
    <3>1. \/ web[d].refresh.session \notin Open
          \/ /\ web[d].kind = "fetch"
             /\ owner[web[d].refresh.session] \in suspended
      BY <1>2, <2>3 DEF WebInv, OverInv
    <3> QED
      BY <1>2, <2>2, <3>1 DEF Open
  <2>4. CASE d = c
    <3>1. Matches(web[c].refresh)
      BY <1>2, <1>4, <2>4 DEF WebInv, MatchInv, Granted
    <3>2. at[c] \notin {"idle", "failed"} => token[c] = web[c].refresh
      BY <2>4 DEF WebInv, CarriedInv
    <3>3. /\ web[c].place # "loggingIn"
          /\ web[c].place = "refreshing" => web[c].kind = "fetch"
      BY <1>3, <2>4 DEF Routed, Carries
    <3> QED
      BY <2>2, <2>4, <3>1, <3>2, <3>3, AnsweredOver DEF WebInv, WebTyped
  <2> QED
    BY <2>3, <2>4
<1>13. EndedInv'
  BY <1>2 DEF WebInv, EndedInv, UnderWay
<1> QED
  BY <1>5, <1>6, <1>7, <1>8, <1>9, <1>10, <1>11, <1>12, <1>13 DEF WebInv

LEMMA ExpireKeeps ==
  ASSUME WebInv, SessionInv', NEW s \in Calls, Expire(s), UNCHANGED webVars
  PROVE  WebInv'
<1>1. /\ UNCHANGED <<jar, web, disturbed, suspended, active, owner, sessions, secret,
                   at, token>>
      /\ Open' \subseteq Open
  BY DEF Expire, webVars, Open
<1>2. Minted' = Minted
  BY <1>1 DEF Minted, Grant
<1>3. WebTyped' /\ PlaceInv' /\ AloneInv' /\ EndedInv'
  BY <1>1 DEF WebInv, WebTyped, PlaceInv, AloneInv, UnderWay, Lost, EndedInv
<1>4. CarriedInv'
  BY <1>1, <1>2 DEF WebInv, CarriedInv, Carries
<1>5. DeliveredInv'
  BY <1>1 DEF WebInv, DeliveredInv, Delivered
<1>6. JarInv' /\ MatchInv'
  BY <1>1 DEF WebInv, JarInv, MatchInv, UnderWay, Lost, Carries, Matches
<1>7. OverInv'
  BY <1>1 DEF WebInv, OverInv, Carries
<1> QED
  BY <1>3, <1>4, <1>5, <1>6, <1>7 DEF WebInv

LEMMA ExpireAccessKeeps ==
  ASSUME WebInv, SessionInv', ExpireAccess
  PROVE  WebInv'
<1>1. /\ UNCHANGED <<authVars, web, disturbed, suspended>>
      /\ jar'.refresh = jar.refresh /\ jar'.access = FALSE
      /\ jar' \in [access : BOOLEAN, refresh : Tokens \cup {NoToken}]
  BY DEF ExpireAccess, WebInv, WebTyped
<1>2. UNCHANGED <<active, owner, sessions, secret, revoked, expired, at, token>>
  BY <1>1 DEF authVars, table
<1>3. Minted' = Minted /\ Open' = Open
  BY <1>2 DEF Minted, Grant, Open
<1>4. WebTyped' /\ PlaceInv' /\ AloneInv' /\ EndedInv'
  BY <1>1, <1>2 DEF WebInv, WebTyped, PlaceInv, AloneInv, UnderWay, Lost, EndedInv
<1>5. CarriedInv'
  BY <1>1, <1>2, <1>3 DEF WebInv, CarriedInv, Carries
<1>6. DeliveredInv'
  BY <1>1, <1>2 DEF WebInv, DeliveredInv, Delivered
<1>7. JarInv' /\ MatchInv'
  BY <1>1, <1>2 DEF WebInv, JarInv, MatchInv, UnderWay, Lost, Carries, Matches
<1>8. OverInv'
  BY <1>1, <1>2, <1>3 DEF WebInv, OverInv, Carries
<1> QED
  BY <1>4, <1>5, <1>6, <1>7, <1>8 DEF WebInv

LEMMA SuspendKeeps ==
  ASSUME WebInv, SessionInv', NEW u \in Users, Suspend(u)
  PROVE  WebInv'
<1>1. /\ UNCHANGED <<jar, web, disturbed, owner, sessions, secret, revoked,
                      expired, at, token>>
      /\ suspended \subseteq suspended'
  BY DEF Suspend, ToggleUser, table
<1>2. Minted' = Minted /\ Open' = Open
  BY <1>1 DEF Minted, Grant, Open
<1>3. WebTyped'
  BY <1>1 DEF Suspend, ToggleUser, WebInv, WebTyped
<1>4. PlaceInv' /\ AloneInv' /\ EndedInv'
  BY <1>1 DEF WebInv, PlaceInv, AloneInv, UnderWay, Lost, EndedInv
<1>5. CarriedInv'
  BY <1>1, <1>2 DEF WebInv, CarriedInv, Carries
<1>6. DeliveredInv'
  BY <1>1 DEF WebInv, DeliveredInv, Delivered
<1>7. JarInv' /\ MatchInv'
  BY <1>1 DEF WebInv, JarInv, MatchInv, UnderWay, Lost, Carries, Matches
<1>8. OverInv'
  BY <1>1, <1>2 DEF WebInv, OverInv, Carries
<1> QED
  BY <1>3, <1>4, <1>5, <1>6, <1>7, <1>8 DEF WebInv

-----------------------------------------------------------------------------
(* The steps of the routes                                                 *)

\* A route goes on, and its request stays under way.
LEMMA RouteKeeps ==
  ASSUME WebInv, SessionInv', NEW c \in Calls, NEW w \in CallState,
         web' = [web EXCEPT ![c] = w], UNCHANGED <<authVars, jar, disturbed, suspended>>,
         w.kind = web[c].kind, w.refresh = web[c].refresh,
         UnderWay(c), web[c].place # "replied",
         w.place \notin {"idle", "done", "lost"}, Routed(w, at[c])
  PROVE  WebInv'
<1>1. UNCHANGED <<jar, disturbed, suspended, active, owner, sessions, secret,
                  revoked, expired, at, token>>
  BY DEF authVars, table
<1>2. Minted' = Minted /\ Open' = Open
  BY <1>1 DEF Minted, Grant, Open
<1>3. /\ web \in [Calls -> CallState] /\ web'[c] = w
      /\ \A d \in Calls \ {c} : web'[d] = web[d]
  BY DEF WebInv, WebTyped
<1>4. \A d \in Calls : /\ web'[d].kind = web[d].kind
                       /\ web'[d].refresh = web[d].refresh
                       /\ web'[d].place = "done" <=> web[d].place = "done"
                       /\ UnderWay(d)' <=> UnderWay(d)
                       /\ UnderWay(d) \/ web'[d] = web[d]
                       /\ Lost(d)' /\ ~Lost(d) => d = c
                       /\ web[d].result = "unanswered" => web'[d].result = "unanswered"
  <2>1. web[c].result # "unanswered"
    BY DEF WebInv, PlaceInv, Routed, UnderWay
  <2> QED
    BY <1>3, <2>1 DEF UnderWay, Lost
<1>5. WebTyped'
  BY <1>1, <1>3 DEF WebInv, WebTyped
<1>6. PlaceInv'
  BY <1>1, <1>3 DEF WebInv, PlaceInv, Handled
<1>7. CarriedInv'
  BY <1>1, <1>2, <1>4 DEF WebInv, CarriedInv, Carries
<1>8. DeliveredInv'
  <2>1. ASSUME NEW t \in Minted \cup {NoToken}, Delivered(t) PROVE Delivered(t)'
    <3>1. CASE t # NoToken
      <4>1. t.secret \in Calls
        BY <3>1, MintedTokens DEF WebInv, SessionInv, Tokens
      <4> QED
        BY <1>4, <2>1, <4>1 DEF Delivered
    <3> QED
      BY <3>1 DEF Delivered
  <2>2. \A d \in Calls : web[d].refresh \in Minted \cup {NoToken}
    BY DEF WebInv, CarriedInv
  <2>3. jar.refresh \in Minted \cup {NoToken}
    BY DEF WebInv, CarriedInv
  <2> QED
    BY <1>1, <1>4, <2>1, <2>2, <2>3 DEF WebInv, DeliveredInv, Delivered
<1>9. JarInv'
  <2> SUFFICES ASSUME jar.refresh # NoToken
               PROVE  LET e == secret[jar.refresh.session] IN
                      \/ e = jar.refresh.secret
                      \/ UnderWay(e)' \/ Lost(e)'
    BY <1>1 DEF JarInv
  <2>1. secret[jar.refresh.session] \in Calls
    BY DEF WebInv, WebTyped, Tokens, SessionInv, AuthTypeOK
  <2>2. PICK e \in Calls : e = secret[jar.refresh.session]
    BY <2>1
  <2>3. e = jar.refresh.secret \/ UnderWay(e) \/ Lost(e)
    BY <2>2 DEF WebInv, JarInv
  <2> QED
    BY <1>1, <1>4, <2>2, <2>3 DEF UnderWay, Lost
<1>10. AloneInv'
  BY <1>1, <1>4 DEF WebInv, AloneInv
<1>11. MatchInv'
  BY <1>1, <1>4 DEF WebInv, MatchInv, Carries, Matches
<1>12. OverInv'
  BY <1>1, <1>2, <1>4 DEF WebInv, OverInv, Carries
<1>13. EndedInv'
  <2>1. ASSUME NEW d \in Calls, web'[d].place = "done" PROVE web'[d] = web[d]
    BY <1>4, <2>1 DEF UnderWay
  <2> QED
    BY <1>1, <1>4, <2>1 DEF WebInv, EndedInv
<1> QED
  BY <1>5, <1>6, <1>7, <1>8, <1>9, <1>10, <1>11, <1>12, <1>13 DEF WebInv

LEMMA ReplyKeeps ==
  ASSUME WebInv, SessionInv', NEW c \in Calls,
         NEW cookies \in {"keep", "set", "clear"},
         NEW result \in {"none", "ok", "expired", "refused", "unanswered"},
         Reply(c, cookies, result), UnderWay(c), web[c].kind # "none",
         web[c].place # "replied",
         result # "unanswered" =>
           at[c] \notin Waiting /\ (web[c].kind # "fetch" => at[c] # "idle"),
         cookies = "set" => at[c] \in Granted /\ result = "ok",
         at[c] \in Granted => cookies = "set" \/ result = "unanswered",
         result = "expired" => web[c].kind = "fetch" /\ at[c] \in {"rejected", "failed"},
         web[c].kind = "logout" => cookies = "clear"
  PROVE  WebInv'
<1> DEFINE w == [web[c] EXCEPT !.place = "replied", !.cookies = cookies,
                               !.result = result]
<1>1. web[c] \in CallState /\ web \in [Calls -> CallState]
  BY DEF WebInv, WebTyped
<1>2. w \in CallState /\ w.kind = web[c].kind /\ w.refresh = web[c].refresh
      /\ w.place = "replied" /\ w.cookies = cookies /\ w.result = result
  BY <1>1 DEF CallState
<1>3. web' = [web EXCEPT ![c] = w] /\ UNCHANGED <<authVars, jar, disturbed, suspended>>
  BY <1>1 DEF Reply, CallState
<1>4. Routed(w, at[c])
  BY <1>2 DEF Routed
<1> HIDE DEF w
<1> QED
  BY <1>2, <1>3, <1>4, RouteKeeps

LEMMA RoutesKeep ==
  ASSUME WebInv, SessionInv', NEW c \in Calls,
         \/ AccessAnswered(c) \/ Refreshed(c) \/ RefreshRefused(c)
         \/ LoginAnswered(c) \/ LogoutAnswered(c) \/ LoseAnswer(c)
  PROVE  WebInv'
<1>1. /\ Handled(web[c], at[c]) /\ Routed(web[c], at[c])
      /\ web[c] \in CallState /\ web \in [Calls -> CallState]
  BY DEF WebInv, PlaceInv, WebTyped
<1>2. CASE AccessAnswered(c)
  <2>1. /\ web[c].place = "sending" /\ web[c].kind = "fetch" /\ at[c] = "idle"
        /\ UnderWay(c)
    BY <1>1, <1>2 DEF AccessAnswered, Routed, UnderWay
  <2>2. CASE Reply(c, "keep", "ok")
    BY <2>1, <2>2, ReplyKeeps DEF Waiting, Granted
  <2>3. CASE /\ web' = [web EXCEPT ![c].place = "refreshing"]
             /\ UNCHANGED <<authVars, jar, disturbed, suspended>>
    <3> DEFINE w == [web[c] EXCEPT !.place = "refreshing"]
    <3>1. w \in CallState /\ w.kind = web[c].kind /\ w.refresh = web[c].refresh
          /\ w.place = "refreshing" /\ w.cookies = web[c].cookies
          /\ w.result = web[c].result
      BY <1>1 DEF CallState
    <3>2. web' = [web EXCEPT ![c] = w]
      BY <2>3
    <3>3. Routed(w, at[c])
      BY <1>1, <2>1, <3>1 DEF Routed
    <3> HIDE DEF w
    <3> QED
      BY <2>1, <2>3, <3>1, <3>2, <3>3, RouteKeeps
  <2> QED
    BY <1>2, <2>2, <2>3 DEF AccessAnswered
<1>3. CASE Refreshed(c)
  <2>1. web[c].kind = "fetch" /\ at[c] = "refreshed" /\ UnderWay(c)
    BY <1>1, <1>3 DEF Refreshed, Routed, UnderWay
  <2> QED
    BY <1>3, <2>1, ReplyKeeps DEF Refreshed, Waiting, Granted
<1>4. CASE RefreshRefused(c)
  <2>1. web[c].kind = "fetch" /\ at[c] \in {"rejected", "failed"} /\ UnderWay(c)
    BY <1>1, <1>4 DEF RefreshRefused, Routed, UnderWay
  <2> QED
    BY <1>4, <2>1, ReplyKeeps DEF RefreshRefused, Waiting, Granted
<1>5. CASE LoginAnswered(c)
  <2>1. /\ web[c].kind = "login" /\ UnderWay(c)
        /\ at[c] \in {"loggedIn", "rejected", "failed"}
    BY <1>1, <1>5 DEF LoginAnswered, Routed, Handled, UnderWay, Answers, Granted
  <2> QED
    BY <1>5, <2>1, ReplyKeeps DEF LoginAnswered, Waiting, Granted
<1>6. CASE LogoutAnswered(c)
  <2>1. /\ web[c].kind = "logout" /\ UnderWay(c)
        /\ at[c] \in {"loggedOut", "rejected", "failed"}
    BY <1>1, <1>6 DEF LogoutAnswered, Routed, Handled, UnderWay, Answers, Granted
  <2> QED
    BY <1>6, <2>1, ReplyKeeps DEF LogoutAnswered, Waiting, Granted
<1>7. CASE LoseAnswer(c)
  <2>1. web[c].kind # "none" /\ UnderWay(c) /\ web[c].place # "replied"
    BY <1>1, <1>7 DEF LoseAnswer, Waits, Routed, UnderWay
  <2>3. CASE web[c].kind = "logout"
    <3>1. Reply(c, "clear", "unanswered")
      BY <1>7, <2>3 DEF LoseAnswer
    <3> QED
      BY <2>1, <3>1, ReplyKeeps
  <2>4. CASE web[c].kind # "logout"
    <3>1. Reply(c, "keep", "unanswered")
      BY <1>7, <2>4 DEF LoseAnswer
    <3> QED
      BY <2>1, <2>4, <3>1, ReplyKeeps
  <2> QED
    BY <2>3, <2>4
<1> QED
  BY <1>2, <1>3, <1>4, <1>5, <1>6, <1>7

-----------------------------------------------------------------------------
(* The steps of the browser                                                *)

LEMMA BeginKeeps ==
  ASSUME WebInv, SessionInv', NEW c \in Calls, NEW kind, NEW place,
         <<kind, place>> \in {<<"fetch", "sending">>, <<"fetch", "refreshing">>,
                              <<"login", "loggingIn">>, <<"logout", "loggingOut">>},
         kind # "login" => jar.refresh # NoToken, Begin(c, kind, place)
  PROVE  WebInv'
<1> DEFINE others == {d \in Calls : UnderWay(d)}
<1> DEFINE w == [kind |-> kind, place |-> place, refresh |-> jar.refresh,
                 cookies |-> "keep", result |-> "none"]
<1>a. [Idle EXCEPT !.kind = kind, !.place = place, !.refresh = jar.refresh] = w
  <2> DEFINE w1 == [kind |-> kind, place |-> "idle", refresh |-> NoToken,
                    cookies |-> "keep", result |-> "none"]
  <2> DEFINE w2 == [kind |-> kind, place |-> place, refresh |-> NoToken,
                    cookies |-> "keep", result |-> "none"]
  <2>1. w1 = [Idle EXCEPT !.kind = kind]
    BY DEF Idle
  <2>2. w2 = [w1 EXCEPT !.place = place]
    OBVIOUS
  <2>3. w = [w2 EXCEPT !.refresh = jar.refresh]
    OBVIOUS
  <2> HIDE DEF w, w1, w2
  <2> QED
    BY <2>1, <2>2, <2>3
<1>1. /\ web[c].place = "idle" /\ web' = [web EXCEPT ![c] = w]
      /\ UNCHANGED <<authVars, jar, suspended>>
      /\ disturbed' = IF others = {} /\ \A d \in Calls : ~Lost(d)
                      THEN disturbed ELSE disturbed \cup others \cup {c}
  BY <1>a DEF Begin, Fresh
<1>2. UNCHANGED <<jar, suspended, active, owner, sessions, secret, revoked, expired,
                  at, token>>
  BY <1>1 DEF authVars, table
<1>3. Minted' = Minted /\ Open' = Open
  BY <1>2 DEF Minted, Grant, Open
<1>4. /\ web \in [Calls -> CallState] /\ web'[c] = w
      /\ \A d \in Calls \ {c} : web'[d] = web[d]
  BY <1>1 DEF WebInv, WebTyped
<1>5. /\ w.kind = kind /\ w.place = place /\ w.refresh = jar.refresh
      /\ w.cookies = "keep" /\ w.result = "none"
      /\ place \notin {"idle", "replied", "done", "lost"} /\ kind \in {"fetch", "login", "logout"}
  OBVIOUS
<1>6. w \in CallState
  BY DEF WebInv, WebTyped, CallState
<1> HIDE DEF w
<1>7. at[c] = "idle" /\ web[c].place # "done" /\ ~UnderWay(c) /\ ~Lost(c)
  BY <1>1 DEF WebInv, PlaceInv, Routed, Handled, UnderWay, Lost
<1>8. /\ UnderWay(c)' /\ ~Lost(c)'
      /\ \A d \in Calls \ {c} : /\ UnderWay(d)' <=> UnderWay(d)
                                /\ Lost(d)' <=> Lost(d)
  BY <1>4, <1>5 DEF UnderWay, Lost
<1>9. disturbed \subseteq disturbed' /\ disturbed' \subseteq Calls
  BY <1>1 DEF WebInv, WebTyped
<1>10. ASSUME NEW d \in Calls \ disturbed', UnderWay(d)'
       PROVE  d = c /\ others = {} /\ \A e \in Calls : ~Lost(e)
  <2>1. others = {} /\ \A e \in Calls : ~Lost(e)
    BY <1>1, <1>8, <1>10
  <2> QED
    BY <1>8, <1>10, <2>1
<1>11. WebTyped'
  BY <1>1, <1>2, <1>6, <1>9 DEF WebInv, WebTyped
<1>12. PlaceInv'
  <2>1. Handled(w, "idle") /\ Routed(w, "idle")
    BY <1>5 DEF Handled, Routed, Waiting
  <2> QED
    BY <1>2, <1>4, <1>7, <2>1 DEF WebInv, PlaceInv
<1>13. CarriedInv'
  BY <1>2, <1>3, <1>4, <1>5, <1>7 DEF WebInv, CarriedInv, Carries
<1>14. \A t : Delivered(t) /\ t \in Minted \cup {NoToken} => Delivered(t)'
  <2> SUFFICES ASSUME NEW t, Delivered(t), t \in Minted, t # NoToken
               PROVE  web'[t.secret].place = "done"
    BY DEF Delivered
  <2>1. t.secret \in Calls
    BY MintedTokens DEF WebInv, SessionInv, Tokens
  <2> QED
    BY <1>4, <1>7, <2>1 DEF Delivered
<1>15. DeliveredInv'
  <2>1. ASSUME NEW d \in Calls PROVE Delivered(web[d].refresh)'
    <3>1. web'[d].refresh = web[d].refresh \/ web'[d].refresh = jar.refresh
      BY <1>4, <1>5
    <3>2. /\ Delivered(jar.refresh) /\ jar.refresh \in Minted \cup {NoToken}
          /\ Delivered(web[d].refresh) /\ web[d].refresh \in Minted \cup {NoToken}
      BY DEF WebInv, DeliveredInv, CarriedInv
    <3> QED
      BY <1>14, <3>1, <3>2 DEF Delivered
  <2>2. Delivered(jar.refresh)'
    BY <1>2, <1>14 DEF WebInv, DeliveredInv, CarriedInv, Delivered
  <2>3. ASSUME NEW d \in Calls, at[d] \in Granted, web'[d].place # "done"
        PROVE  secret[token[d].session] = d
    <3>1. d # c
      BY <1>7, <2>3 DEF Granted
    <3> QED
      BY <1>4, <2>3, <3>1 DEF WebInv, DeliveredInv
  <2> QED
    BY <1>2, <2>1, <2>2, <2>3 DEF DeliveredInv, Delivered
<1>16. JarInv'
  <2> SUFFICES ASSUME jar.refresh # NoToken
               PROVE  LET e == secret[jar.refresh.session] IN
                      \/ e = jar.refresh.secret
                      \/ UnderWay(e)' \/ Lost(e)'
    BY <1>2 DEF JarInv
  <2>1. PICK e \in Calls : e = secret[jar.refresh.session]
    BY DEF WebInv, WebTyped, Tokens, SessionInv, AuthTypeOK
  <2>2. e = jar.refresh.secret \/ UnderWay(e) \/ Lost(e)
    BY <2>1 DEF WebInv, JarInv
  <2>3. CASE e = c
    BY <1>2, <1>8, <2>1, <2>3 DEF UnderWay
  <2>4. CASE e # c
    BY <1>2, <1>8, <2>1, <2>2, <2>4
  <2> QED
    BY <2>3, <2>4
<1>17. AloneInv'
  <2> SUFFICES ASSUME NEW d \in Calls \ disturbed', NEW e \in Calls,
                      UnderWay(d)', UnderWay(e)' \/ Lost(e)'
               PROVE  d = e
    BY DEF AloneInv
  <2>1. d = c /\ others = {} /\ \A f \in Calls : ~Lost(f)
    BY <1>10
  <2> QED
    BY <1>8, <2>1
<1>18. MatchInv'
  <2> SUFFICES ASSUME NEW d \in Calls \ disturbed', UnderWay(d)', Carries(d)'
               PROVE  Matches(web[d].refresh)'
    BY DEF MatchInv
  <2>1. d = c /\ others = {} /\ \A e \in Calls : ~Lost(e)
    BY <1>10
  <2>2. jar.refresh # NoToken
    BY <1>4, <1>5, <2>1 DEF Carries
  <2>3. jar.refresh \in Tokens /\ jar.refresh.session \in sessions
    BY <2>2, MintedFacts DEF WebInv, CarriedInv, SessionInv, TokensInv
  <2>4. PICK e \in Calls : e = secret[jar.refresh.session]
    BY <2>3 DEF Tokens, WebInv, SessionInv, AuthTypeOK
  <2>5. e = jar.refresh.secret \/ UnderWay(e) \/ Lost(e)
    BY <2>2, <2>4 DEF WebInv, JarInv
  <2>6. Matches(jar.refresh)
    BY <2>1, <2>3, <2>4, <2>5 DEF Matches
  <2> QED
    BY <1>2, <1>4, <1>5, <2>1, <2>6 DEF Matches
<1>19. OverInv'
  <2> SUFFICES ASSUME NEW d \in Calls \ disturbed', Carries(d)',
                      at[d] \in {"rejected", "loggedOut"},
                      web'[d].result # "unanswered"
               PROVE  \/ web'[d].refresh.session \notin Open
                      \/ /\ web'[d].kind = "fetch"
                         /\ owner[web'[d].refresh.session] \in suspended
    BY <1>2, <1>3 DEF OverInv
  <2>1. d # c
    BY <1>7
  <2> QED
    BY <1>4, <1>9, <2>1 DEF WebInv, OverInv, Carries
<1>20. EndedInv'
  <2> SUFFICES ASSUME NEW e \in Calls \ disturbed', web'[e].kind = "logout",
                      web'[e].place = "done"
               PROVE  LET s == web[e].refresh.session IN
                      /\ web'[e].refresh = web[e].refresh
                      /\ jar.refresh # NoToken => jar.refresh.session # s
                      /\ \A d \in Calls : UnderWay(d)' =>
                           /\ d # s
                           /\ web'[d].refresh # NoToken => web'[d].refresh.session # s
    BY <1>2 DEF EndedInv
  <2> DEFINE s == web[e].refresh.session
  <2>1. e # c /\ web'[e] = web[e] /\ e \notin disturbed
    BY <1>4, <1>5, <1>9
  <2>2. /\ jar.refresh # NoToken => jar.refresh.session # s
        /\ \A d \in Calls : UnderWay(d) =>
             /\ d # s
             /\ web[d].refresh # NoToken => web[d].refresh.session # s
    BY <2>1 DEF WebInv, EndedInv
  <2>3. s # c
    <3>1. web[e].refresh \in Minted
      BY <2>1 DEF WebInv, CarriedInv, Carries
    <3>2. s \in sessions
      BY <3>1, MintedFacts DEF WebInv, SessionInv, TokensInv
    <3> QED
      BY <1>7, <3>2 DEF WebInv, SessionInv, TokensInv, RowsInv
  <2>4. ASSUME NEW d \in Calls, UnderWay(d)'
        PROVE  d # s /\ (web'[d].refresh # NoToken => web'[d].refresh.session # s)
    <3>1. CASE d = c
      BY <1>4, <1>5, <2>2, <2>3, <3>1
    <3>2. CASE d # c
      BY <1>4, <1>8, <2>2, <2>4, <3>2
    <3> QED
      BY <3>1, <3>2
  <2> HIDE DEF s
  <2> QED
    BY <2>1, <2>2, <2>4 DEF s
<1> QED
  BY <1>11, <1>12, <1>13, <1>15, <1>16, <1>17, <1>18, <1>19, <1>20 DEF WebInv

\* The response of a request reaches the browser, or is lost on its way.
LEMMA DoneKeeps ==
  ASSUME WebInv, SessionInv', NEW c \in Calls, NEW w \in CallState,
         web[c].place = "replied", web' = [web EXCEPT ![c] = w],
         w.kind = web[c].kind, w.refresh = web[c].refresh,
         w.place \in {"done", "lost"}, w.cookies = "keep", w.result = web[c].result,
         UNCHANGED <<authVars, disturbed, suspended>>,
         \/ /\ jar' = jar
            /\ at[c] \in Granted => w.result = "unanswered" \/ w.place = "lost"
            /\ web[c].kind = "logout" => w.place = "lost"
         \/ jar' = EmptyJar
         \/ /\ jar' = [access |-> TRUE, refresh |-> Grant(c)]
            /\ at[c] \in Granted /\ w.place = "done"
  PROVE  WebInv'
<1>1. UNCHANGED <<disturbed, suspended, active, owner, sessions, secret, revoked,
                  expired, at, token>>
  BY DEF authVars, table
<1>2. Minted' = Minted /\ Open' = Open
  BY <1>1 DEF Minted, Grant, Open
<1>3. /\ web \in [Calls -> CallState] /\ web'[c] = w
      /\ \A d \in Calls \ {c} : web'[d] = web[d]
  BY DEF WebInv, WebTyped
<1>4. UnderWay(c) /\ ~UnderWay(c)'
  BY <1>3 DEF UnderWay
<1>5. \A d \in Calls : /\ web'[d].kind = web[d].kind
                       /\ web'[d].refresh = web[d].refresh
                       /\ web[d].place = "done" => web'[d].place = "done"
                       /\ UnderWay(d)' => d # c /\ UnderWay(d)
                       /\ d = c \/ web'[d] = web[d]
                       /\ web'[d].result = web[d].result
                       /\ Lost(d)' => Lost(d) \/ d = c
  BY <1>3, <1>4 DEF UnderWay, Lost
<1>6. /\ Handled(web[c], at[c]) /\ Routed(web[c], at[c]) /\ AuthTypeOK
      /\ RowsInv /\ PresentedInv
  BY DEF WebInv, PlaceInv, SessionInv, TokensInv
<1>7. at[c] \in Granted => /\ Grant(c) \in Minted /\ Grant(c) \in Tokens
                           /\ Grant(c).session = token[c].session
                           /\ Grant(c).secret = c
  <2> SUFFICES ASSUME at[c] \in Granted
               PROVE  Grant(c) \in Minted /\ Grant(c) \in Tokens
    BY DEF Grant
  <2>1. Grant(c) \in Minted
    BY DEF Minted
  <2> QED
    BY <1>6, <2>1, MintedTokens
<1>8. jar'.refresh = jar.refresh \/ jar'.refresh = NoToken
      \/ (jar'.refresh = Grant(c) /\ at[c] \in Granted /\ w.place = "done")
  BY DEF EmptyJar
<1>9. WebTyped'
  <2>1. jar' \in [access : BOOLEAN, refresh : Tokens \cup {NoToken}]
    <3> DEFINE J == [access : BOOLEAN, refresh : Tokens \cup {NoToken}]
    <3>1. jar \in J /\ EmptyJar \in J
      BY DEF EmptyJar, WebInv, WebTyped
    <3>2. at[c] \in Granted => [access |-> TRUE, refresh |-> Grant(c)] \in J
      BY <1>7
    <3> HIDE DEF J
    <3>3. jar' \in J
      BY <3>1, <3>2
    <3> QED
      BY <3>3 DEF J
  <2> QED
    BY <1>1, <1>3, <2>1 DEF WebInv, WebTyped
<1>10. PlaceInv'
  <2>1. Handled(w, at[c]) /\ Routed(w, at[c])
    BY <1>6 DEF Handled, Routed
  <2> QED
    BY <1>1, <1>3, <2>1 DEF WebInv, PlaceInv
<1>11. CarriedInv'
  <2>1. jar'.access => jar'.refresh # NoToken
    BY <1>7, FaultsAssumption DEF EmptyJar, WebInv, CarriedInv
  <2>2. jar'.refresh \in Minted \cup {NoToken}
    BY <1>7, <1>8 DEF WebInv, CarriedInv
  <2> QED
    BY <1>1, <1>2, <1>5, <2>1, <2>2 DEF WebInv, CarriedInv, Carries
<1>12. \A t : Delivered(t) /\ t \in Minted \cup {NoToken} => Delivered(t)'
  <2> SUFFICES ASSUME NEW t, Delivered(t), t \in Minted, t # NoToken
               PROVE  web'[t.secret].place = "done"
    BY DEF Delivered
  <2>1. t.secret \in Calls
    BY <1>6, MintedTokens DEF Tokens
  <2> QED
    BY <1>5, <2>1 DEF Delivered
<1>13. DeliveredInv'
  <2>1. ASSUME NEW d \in Calls PROVE Delivered(web[d].refresh)'
    <3>1. Delivered(web[d].refresh) /\ web[d].refresh \in Minted \cup {NoToken}
      BY DEF WebInv, DeliveredInv, CarriedInv
    <3> QED
      BY <1>5, <1>12, <3>1 DEF Delivered
  <2>2. Delivered(jar.refresh)'
    <3>1. Delivered(jar.refresh) /\ jar.refresh \in Minted \cup {NoToken}
      BY DEF WebInv, DeliveredInv, CarriedInv
    <3> QED
      BY <1>3, <1>7, <1>8, <1>12, <3>1 DEF Delivered
  <2>3. ASSUME NEW d \in Calls, at[d] \in Granted, web'[d].place # "done"
        PROVE  secret[token[d].session] = d
    BY <1>5, <2>3 DEF WebInv, DeliveredInv
  <2> QED
    BY <1>1, <2>1, <2>2, <2>3 DEF DeliveredInv, Delivered
<1>14. JarInv'
  <2> SUFFICES ASSUME jar'.refresh # NoToken
               PROVE  LET e == secret[jar'.refresh.session] IN
                      \/ e = jar'.refresh.secret
                      \/ web'[e].place \notin {"idle", "done"}
                      \/ web'[e].result = "unanswered"
    BY <1>1 DEF JarInv, UnderWay, Lost
  <2>1. CASE jar'.refresh = Grant(c) /\ at[c] \in Granted
    BY <1>7, <2>1 DEF WebInv, DeliveredInv
  <2>2. CASE /\ jar' = jar
             /\ at[c] \in Granted => w.result = "unanswered" \/ w.place = "lost"
    <3>1. jar.refresh \in Minted
      BY <2>2 DEF WebInv, CarriedInv
    <3>2. jar.refresh \in Tokens /\ jar.refresh.session \in sessions
      BY <1>6, <3>1, MintedFacts
    <3>3. PICK e \in Calls : e = secret[jar.refresh.session] /\ at[e] \in Granted
      BY <1>6, <3>2 DEF Tokens, AuthTypeOK, RowsInv
    <3>4. e = jar.refresh.secret \/ UnderWay(e) \/ Lost(e)
      BY <2>2, <3>3 DEF WebInv, JarInv
    <3>5. CASE e = c
      BY <1>3, <2>2, <3>3, <3>5 DEF Lost
    <3>6. CASE e # c
      BY <1>3, <2>2, <3>3, <3>4, <3>6 DEF UnderWay, Lost
    <3> QED
      BY <3>5, <3>6
  <2> QED
    BY <2>1, <2>2 DEF EmptyJar
<1>15. AloneInv'
  BY <1>1, <1>4, <1>5 DEF WebInv, AloneInv
<1>16. MatchInv'
  BY <1>1, <1>5 DEF WebInv, MatchInv, Carries, Matches
<1>17. OverInv'
  BY <1>1, <1>2, <1>5 DEF WebInv, OverInv, Carries
<1>18. EndedInv'
  <2> SUFFICES ASSUME NEW e \in Calls \ disturbed, web[e].kind = "logout",
                      web'[e].place = "done"
               PROVE  LET s == web[e].refresh.session IN
                      /\ jar'.refresh # NoToken => jar'.refresh.session # s
                      /\ \A d \in Calls : UnderWay(d)' =>
                           /\ d # s
                           /\ web[d].refresh # NoToken => web[d].refresh.session # s
    BY <1>1, <1>5 DEF EndedInv
  <2>1. CASE e = c
    <3>1. \A d \in Calls : ~UnderWay(d)'
      BY <1>4, <1>5, <2>1 DEF WebInv, AloneInv
    <3>2. jar'.refresh = NoToken
      BY <1>3, <1>6, <2>1 DEF Handled, Granted, EmptyJar
    <3> QED
      BY <3>1, <3>2
  <2>2. CASE e # c
    <3> DEFINE s == web[e].refresh.session
    <3>1. /\ jar.refresh # NoToken => jar.refresh.session # s
          /\ \A d \in Calls : UnderWay(d) =>
               /\ d # s
               /\ web[d].refresh # NoToken => web[d].refresh.session # s
      BY <1>3, <2>2 DEF WebInv, EndedInv
    <3>2. at[c] \in Granted => token[c].session # s
      <4>1. CASE at[c] = "refreshed"
        <5>1. Carries(c)
          BY <1>3, <1>6, <4>1 DEF Handled, Carries, CallState
        <5> QED
          BY <1>4, <3>1, <4>1, <5>1 DEF WebInv, CarriedInv
      <4>2. CASE at[c] = "loggedIn"
        BY <1>4, <1>6, <3>1, <4>2 DEF PresentedInv
      <4> QED
        BY <4>1, <4>2 DEF Granted
    <3> HIDE DEF s
    <3>3. jar'.refresh # NoToken => jar'.refresh.session # s
      BY <1>7, <1>8, <3>1, <3>2
    <3> QED
      BY <1>5, <3>1, <3>3 DEF s
  <2> QED
    BY <2>1, <2>2
<1> QED
  BY <1>9, <1>10, <1>11, <1>13, <1>14, <1>15, <1>16, <1>17, <1>18 DEF WebInv

LEMMA ResponsesKeep ==
  ASSUME WebInv, SessionInv', NEW c \in Calls, Receive(c) \/ LoseResponse(c)
  PROVE  WebInv'
<1>1. /\ Handled(web[c], at[c]) /\ Routed(web[c], at[c])
      /\ web[c] \in CallState /\ web \in [Calls -> CallState]
  BY DEF WebInv, PlaceInv, WebTyped
<1>2. CASE Receive(c)
  <2> DEFINE w == [web[c] EXCEPT !.place = "done", !.cookies = "keep"]
  <2>1. w \in CallState /\ w.kind = web[c].kind /\ w.refresh = web[c].refresh
        /\ w.place = "done" /\ w.cookies = "keep" /\ w.result = web[c].result
    BY <1>1 DEF CallState
  <2>2. web[c].place = "replied" /\ UNCHANGED <<authVars, disturbed, suspended>>
    BY <1>2 DEF Receive
  <2>3. web' = [web EXCEPT ![c] = w]
    BY <1>1, <1>2 DEF Receive, CallState
  <2>4. \/ web[c].cookies = "keep" /\ jar' = jar
        \/ web[c].cookies = "clear" /\ jar' = EmptyJar
        \/ web[c].cookies = "set" /\ jar' = [access |-> TRUE, refresh |-> Grant(c)]
    <3>1. web[c].cookies \in {"keep", "clear", "set"}
      BY <1>1 DEF CallState
    <3> QED
      BY <1>2, <3>1 DEF Receive
  <2> HIDE DEF w
  <2>5. CASE web[c].cookies = "keep" /\ jar' = jar
    <3>1. /\ at[c] \in Granted => w.result = "unanswered"
          /\ web[c].kind # "logout"
      BY <1>1, <2>1, <2>2, <2>5 DEF Routed
    <3> QED
      BY <2>1, <2>2, <2>3, <2>5, <3>1, DoneKeeps
  <2>6. CASE jar' = EmptyJar
    BY <2>1, <2>2, <2>3, <2>6, DoneKeeps
  <2>7. CASE web[c].cookies = "set" /\ jar' = [access |-> TRUE, refresh |-> Grant(c)]
    <3>1. at[c] \in Granted
      BY <1>1, <2>7 DEF Routed
    <3> QED
      BY <2>1, <2>2, <2>3, <2>7, <3>1, DoneKeeps
  <2> QED
    BY <2>4, <2>5, <2>6, <2>7
<1>3. CASE LoseResponse(c)
  <2> DEFINE w == [web[c] EXCEPT !.place = "lost", !.cookies = "keep"]
  <2>1. w \in CallState /\ w.kind = web[c].kind /\ w.refresh = web[c].refresh
        /\ w.place = "lost" /\ w.cookies = "keep" /\ w.result = web[c].result
    BY <1>1 DEF CallState
  <2>2. web[c].place = "replied" /\ UNCHANGED <<authVars, jar, disturbed, suspended>>
    BY <1>3 DEF LoseResponse
  <2>3. web' = [web EXCEPT ![c] = w]
    BY <1>1, <1>3 DEF LoseResponse, CallState
  <2> HIDE DEF w
  <2> QED
    BY <2>1, <2>2, <2>3, DoneKeeps
<1> QED
  BY <1>2, <1>3

-----------------------------------------------------------------------------
(* What the browser can rely on                                            *)

LEMMA WebStart == WebInit => WebInv
<1> SUFFICES ASSUME WebInit PROVE WebInv
  OBVIOUS
<1>1. /\ SessionInv /\ jar = EmptyJar /\ web = [c \in Calls |-> Idle]
      /\ disturbed = {} /\ suspended = {} /\ active = Users /\ at = [c \in Calls |-> "idle"]
  BY SessionInit DEF WebInit, AuthInit
<1>2. WebTyped /\ PlaceInv
  BY <1>1 DEF WebTyped, PlaceInv, Idle, EmptyJar, CallState, Handled, Routed, Waiting
<1>3. CarriedInv /\ DeliveredInv /\ JarInv
  BY <1>1 DEF CarriedInv, Carries, DeliveredInv, Delivered, JarInv, Idle, EmptyJar,
              Granted
<1>4. AloneInv /\ MatchInv /\ OverInv /\ EndedInv
  BY <1>1 DEF AloneInv, MatchInv, OverInv, EndedInv, UnderWay, Carries, Idle, EmptyJar
<1> QED
  BY <1>1, <1>2, <1>3, <1>4 DEF WebInv

LEMMA WebStep ==
  ASSUME WebInv, [WebNext]_vars
  PROVE  WebInv'
<1>1. SessionInv'
  BY WebSimulation, SessionStep DEF WebInv
<1>2. ASSUME NEW c \in Calls, StartFetch(c) PROVE WebInv'
  <2>1. jar.access => jar.refresh # NoToken
    BY DEF WebInv, CarriedInv
  <2>2. CASE jar.access /\ Begin(c, "fetch", "sending")
    BY <1>1, <2>1, <2>2, BeginKeeps
  <2>3. CASE jar.refresh # NoToken /\ Begin(c, "fetch", "refreshing")
    BY <1>1, <2>3, BeginKeeps
  <2> QED
    BY <1>2, <2>2, <2>3 DEF StartFetch
<1>3. ASSUME NEW c \in Calls, StartLogin(c) \/ StartLogout(c) PROVE WebInv'
  BY <1>1, <1>3, BeginKeeps DEF StartLogin, StartLogout
<1>4. ASSUME NEW c \in Calls, ApiOf(c) PROVE WebInv'
  BY <1>1, <1>4, ApiKeeps
<1>5. ASSUME NEW c \in Calls,
             \/ AccessAnswered(c) \/ Refreshed(c) \/ RefreshRefused(c)
             \/ LoginAnswered(c) \/ LogoutAnswered(c) \/ LoseAnswer(c)
             \/ Receive(c) \/ LoseResponse(c)
      PROVE  WebInv'
  BY <1>1, <1>5, RoutesKeep, ResponsesKeep
<1>6. ASSUME NEW s \in Calls, Expire(s), UNCHANGED webVars PROVE WebInv'
  BY <1>1, <1>6, ExpireKeeps
<1>7. CASE ExpireAccess
  BY <1>1, <1>7, ExpireAccessKeeps
<1>8. CASE UNCHANGED vars
  <2>1. UNCHANGED <<jar, web, disturbed, suspended, active, owner, sessions,
                    secret, revoked, expired, at, token>>
    BY <1>8 DEF vars, authVars, webVars, table
  <2>2. Minted' = Minted /\ Open' = Open
    BY <2>1 DEF Minted, Grant, Open
  <2>3. WebTyped' /\ PlaceInv' /\ AloneInv' /\ EndedInv'
    BY <2>1 DEF WebInv, WebTyped, PlaceInv, AloneInv, UnderWay, Lost, EndedInv
  <2>4. CarriedInv' /\ DeliveredInv'
    BY <2>1, <2>2 DEF WebInv, CarriedInv, Carries, DeliveredInv, Delivered
  <2>5. JarInv' /\ MatchInv' /\ OverInv'
    BY <2>1, <2>2 DEF WebInv, JarInv, MatchInv, OverInv, UnderWay, Lost, Carries, Matches
  <2> QED
    BY <1>1, <2>3, <2>4, <2>5 DEF WebInv
<1>9. ASSUME NEW u \in Users, Suspend(u) PROVE WebInv'
  BY <1>1, <1>9, SuspendKeeps
<1> QED
  BY <1>2, <1>3, <1>4, <1>5, <1>6, <1>7, <1>8, <1>9 DEF WebNext, Serve, ApiOf

LEMMA WebInvariant == WebSpec => []WebInv
  BY WebStart, WebStep, PTL DEF WebSpec

\* The web server and the browser are clients of the API: whatever they do is
\* a behaviour of AuthSessions, so its theorems hold of their sessions too.
THEOREM WebImplementsAuth == WebSpec => AuthSpec
<1>1. WebInit => AuthInit
  BY DEF WebInit
<1> QED
  BY <1>1, WebInvariant, WebSimulation, PTL DEF WebSpec, AuthSpec

\* So the API keeps the promise of SessionTokens to the browser.
THEOREM WebKeepsPromise == WebSpec => ImplementsSessionTokens
  BY WebImplementsAuth, Implementation

\* Every variable keeps its type, and a browser only ever holds or presents
\* tokens that the API handed out.
THEOREM WebTypeCorrect == WebSpec => []WebTypeOK
<1>1. WebInv => WebTypeOK
  <2> SUFFICES ASSUME WebInv PROVE WebTypeOK
    OBVIOUS
  <2>1. AuthTypeOK /\ disturbed \subseteq Calls /\ suspended \subseteq Users
    BY DEF WebInv, SessionInv, WebTyped
  <2>2. jar.access \in BOOLEAN /\ jar.refresh \in Minted \cup {NoToken}
    BY DEF WebInv, WebTyped, CarriedInv
  <2>3. ASSUME NEW c \in Calls
        PROVE  /\ web[c].kind \in {"none", "fetch", "login", "logout"}
               /\ web[c].place \in {"idle", "sending", "refreshing", "loggingIn",
                                    "loggingOut", "replied", "done", "lost"}
    BY DEF WebInv, WebTyped, CallState
  <2>4. ASSUME NEW c \in Calls
        PROVE  /\ web[c].refresh \in Minted \cup {NoToken}
               /\ web[c].cookies = "set" => Grant(c) \in Minted
    BY DEF WebInv, CarriedInv, PlaceInv, Routed, Minted
  <2> QED
    BY <2>1, <2>2, <2>3, <2>4 DEF WebTypeOK
<1> QED
  BY <1>1, WebInvariant, PTL

\* However the responses of overlapping requests are ordered, the browser is
\* never left with a spent token: the current one is on its way, or was lost.
THEOREM JarIsNotStranded == WebSpec => []JarNotStranded
<1>1. WebInv => JarNotStranded
  <2> SUFFICES ASSUME WebInv, Stranded,
                      secret[jar.refresh.session] = jar.refresh.secret
               PROVE  FALSE
    BY DEF WebInv, JarInv, JarNotStranded, Stranded
  <2>1. jar.refresh \in Tokens
    BY DEF WebInv, WebTyped, Stranded
  <2>2. jar.refresh = [session |-> jar.refresh.session,
                       secret |-> secret[jar.refresh.session]]
    BY <2>1 DEF Tokens
  <2> QED
    BY <2>2 DEF Stranded, Accepted
<1> QED
  BY <1>1, WebInvariant, PTL

\* A request that overlapped no other, and came after no loss, is told that
\* its session has expired only when the session is over, its user was
\* suspended, or the API failed.
THEOREM SignedOutWhenOver == WebSpec => []SignedOutOnlyWhenOver
<1>1. WebInv => SignedOutOnlyWhenOver
  <2> SUFFICES ASSUME WebInv, NEW c \in Calls \ disturbed,
                      web[c].result = "expired", at[c] # "failed"
               PROVE  \/ web[c].refresh.session \notin Open
                      \/ owner[web[c].refresh.session] \in suspended
    BY DEF SignedOutOnlyWhenOver
  <2>1. web[c].kind = "fetch" /\ at[c] = "rejected"
    BY DEF WebInv, PlaceInv, Routed
  <2> QED
    BY <2>1 DEF WebInv, OverInv, Carries
<1> QED
  BY <1>1, WebInvariant, PTL

\* A logout that overlapped nothing, and that the API answered without
\* failing, ends the session; and whatever became of it at the API, the
\* browser that receives the response never gets the session back.
THEOREM LogoutsAloneEnd == WebSpec => []LogoutAloneEnds
<1>1. WebInv => LogoutAloneEnds
  <2> SUFFICES ASSUME WebInv, NEW c \in Calls \ disturbed,
                      web[c].kind = "logout"
               PROVE  LET s == web[c].refresh.session IN
                      /\ web[c].result = "ok" /\ at[c] # "failed" => s \notin Open
                      /\ web[c].place = "done" =>
                           jar.refresh = NoToken \/ jar.refresh.session # s
    BY DEF LogoutAloneEnds
  <2>1. ASSUME web[c].result = "ok", at[c] # "failed"
        PROVE  web[c].refresh.session \notin Open
    <3>1. at[c] \in {"rejected", "loggedOut"}
      BY <2>1 DEF WebInv, PlaceInv, Handled, Routed, Waiting
    <3> QED
      BY <2>1, <3>1 DEF WebInv, OverInv, Carries
  <2>2. web[c].place = "done" => \/ jar.refresh = NoToken
                                 \/ jar.refresh.session # web[c].refresh.session
    BY DEF WebInv, EndedInv
  <2> QED
    BY <2>1, <2>2
<1> QED
  BY <1>1, WebInvariant, PTL
=============================================================================
