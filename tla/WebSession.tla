----------------------------- MODULE WebSession -----------------------------
(***************************************************************************)
(* The session of one browser (apps/web/lib/auth.ts and the login and      *)
(* logout routes).  The web server keeps nothing: a request carries the    *)
(* cookies of the moment it was sent, apiFetch may exchange the refresh    *)
(* token in them for a new one, and the browser obeys the Set-Cookie of    *)
(* each response when it arrives.  The dashboard sends requests while      *)
(* others are under way, so responses are applied in any order.            *)
(*                                                                         *)
(* AuthSessions is the API.  Each web request makes at most one call of    *)
(* /auth, which bears the name of the request: the dashboard's route calls *)
(* apiFetch several times in a row, but one refresh gives it an access     *)
(* token for fifteen minutes, and a refusal ends it.                       *)
(***************************************************************************)
EXTENDS AuthSessions, Naturals

CONSTANTS MaxFaults,    \* bound: calls whose answer or response is lost,
                        \* or that fail in the API
          NoToken

ASSUME FaultsAssumption == MaxFaults \in Nat /\ NoToken \notin Tokens

VARIABLES
  jar,              \* the two cookies the browser holds
  web,              \* web[c]: the route handler that serves request c
  disturbed,        \* history: the requests that overlapped another one,
                    \* or came after an answer that was lost
  suspended         \* history: the users who were ever not active

webVars == <<jar, web, disturbed, suspended>>
vars == <<authVars, webVars>>

\* access: the cookie is there and the JWT in it has not expired.  A browser
\* drops the cookie when the JWT expires: both live 15 minutes.
EmptyJar == [access |-> FALSE, refresh |-> NoToken]

Idle == [kind |-> "none", place |-> "idle", refresh |-> NoToken,
         cookies |-> "keep", result |-> "none"]

WebInit ==
  /\ AuthInit
  /\ jar = EmptyJar
  /\ web = [c \in Calls |-> Idle]
  /\ disturbed = {} /\ suspended = {}

UnderWay(c) == web[c].place \notin {"idle", "done", "lost"}
\* The API's answer never reached the route, or its response the browser.
Lost(c) == web[c].result = "unanswered" \/ web[c].place = "lost"
Faulty(c) == Lost(c) \/ at[c] = "failed"
FaultAllowed == Cardinality({c \in Calls : Faulty(c)}) < MaxFaults
Waits(c) == web[c].place \in {"refreshing", "loggingIn", "loggingOut"}

\* The name of the next request: which unused name it bears is indifferent.
Fresh(c) ==
  /\ web[c].place = "idle"
  /\ c = CHOOSE d \in Calls : web[d].place = "idle"

\* A request is sent; it and those under way overlap.
Begin(c, kind, place) ==
  LET others == {d \in Calls : UnderWay(d)} IN
  /\ Fresh(c)
  /\ web' = [web EXCEPT ![c] = [Idle EXCEPT !.kind = kind, !.place = place,
                                            !.refresh = jar.refresh]]
  /\ disturbed' = IF others = {} /\ \A d \in Calls : ~Lost(d)
                  THEN disturbed ELSE disturbed \cup others \cup {c}
  /\ UNCHANGED <<authVars, jar, suspended>>

\* The route answers; its Set-Cookie headers travel with the response.
Reply(c, cookies, result) ==
  /\ web' = [web EXCEPT ![c].place = "replied", ![c].cookies = cookies,
                        ![c].result = result]
  /\ UNCHANGED <<authVars, jar, disturbed, suspended>>

-----------------------------------------------------------------------------
(* apiFetch                                                                *)

\* Without any cookie the route answers 401 and leaves the cookies alone.
StartFetch(c) ==
  \/ jar.access /\ Begin(c, "fetch", "sending")
  \/ ~jar.access /\ jar.refresh # NoToken /\ Begin(c, "fetch", "refreshing")

\* The API accepts the access token, or answers 401 because it has expired
\* meanwhile.  JwtStrategy looks at nothing but signature and expiry.
AccessAnswered(c) ==
  /\ web[c].place = "sending"
  /\ \/ Reply(c, "keep", "ok")
     \/ /\ web' = [web EXCEPT ![c].place = "refreshing"]
        /\ UNCHANGED <<authVars, jar, disturbed, suspended>>

CallRefresh(c) ==
  /\ web[c].place = "refreshing"
  /\ Refresh(c, web[c].refresh)
  /\ UNCHANGED webVars

\* Mutation: setSessionCookies is not called.
RefreshedUnsaved(c) ==
  /\ web[c].place = "refreshing" /\ at[c] = "refreshed"
  /\ Reply(c, "keep", "ok")

\* Both cookies are set, and the request is sent again with the new token.
Refreshed(c) ==
  /\ web[c].place = "refreshing" /\ at[c] = "refreshed"
  /\ Reply(c, "set", "ok")

\* Mutation: refreshResponse.ok is not tested.
RefreshUntested(c) ==
  /\ web[c].place = "refreshing" /\ at[c] \in {"rejected", "failed"}
  /\ Reply(c, "set", "ok")

\* Any answer but a success, a 500 included, signs the browser out.
RefreshRefused(c) ==
  /\ web[c].place = "refreshing" /\ at[c] \in {"rejected", "failed"}
  /\ Reply(c, "clear", "expired")

-----------------------------------------------------------------------------
(* The login and logout routes                                             *)

StartLogin(c) == Begin(c, "login", "loggingIn")

CallLogin(c) ==
  /\ web[c].place = "loggingIn"
  /\ Login(c)
  /\ UNCHANGED webVars

LoginAnswered(c) ==
  /\ web[c].place = "loggingIn" /\ at[c] \in Answers
  /\ IF at[c] = "loggedIn" THEN Reply(c, "set", "ok")
                            ELSE Reply(c, "keep", "refused")

StartLogout(c) == jar.refresh # NoToken /\ Begin(c, "logout", "loggingOut")

CallLogout(c) ==
  /\ web[c].place = "loggingOut"
  /\ Logout(c, web[c].refresh)
  /\ UNCHANGED webVars

\* The answer of the API is not looked at.
LogoutAnswered(c) ==
  /\ web[c].place = "loggingOut" /\ at[c] \in Answers
  /\ Reply(c, "clear", "ok")

-----------------------------------------------------------------------------
(* The network and the browser                                             *)

\* fetch throws: the API was never reached, is still at work (and finishes,
\* see ApiStep), or has answered.  The routes answer 503 and leave the
\* cookies alone; the logout route clears them all the same.
LoseAnswer(c) ==
  /\ Waits(c) /\ FaultAllowed
  /\ Reply(c, IF web[c].kind = "logout" THEN "clear" ELSE "keep", "unanswered")

\* Mutation: setSessionCookies sets only the cookie of the access token once
\* there is a refresh token.
ReceiveAccessOnly(c) ==
  /\ web[c].place = "replied"
  /\ web' = [web EXCEPT ![c].place = "done", ![c].cookies = "keep"]
  /\ jar' = CASE web[c].cookies = "keep"  -> jar
              [] web[c].cookies = "clear" -> EmptyJar
              [] web[c].cookies = "set"   ->
                   [access |-> TRUE,
                    refresh |-> IF jar.refresh = NoToken THEN Grant(c)
                                                         ELSE jar.refresh]
  /\ UNCHANGED <<authVars, disturbed, suspended>>

\* The browser obeys the Set-Cookie headers of the response.
Receive(c) ==
  /\ web[c].place = "replied"
  /\ web' = [web EXCEPT ![c].place = "done", ![c].cookies = "keep"]
  /\ jar' = CASE web[c].cookies = "keep"  -> jar
              [] web[c].cookies = "clear" -> EmptyJar
              [] web[c].cookies = "set"   -> [access |-> TRUE,
                                              refresh |-> Grant(c)]
  /\ UNCHANGED <<authVars, disturbed, suspended>>

\* The connection breaks under a response that would change the cookies.
LoseResponse(c) ==
  /\ web[c].place = "replied" /\ web[c].cookies # "keep" /\ FaultAllowed
  /\ web' = [web EXCEPT ![c].place = "lost", ![c].cookies = "keep"]
  /\ UNCHANGED <<authVars, jar, disturbed, suspended>>

\* Fifteen minutes pass.
ExpireAccess ==
  /\ jar.access
  /\ jar' = [jar EXCEPT !.access = FALSE]
  /\ UNCHANGED <<authVars, web, disturbed, suspended>>

ApiStep(c) == HandlerStep(c) /\ UNCHANGED webVars

\* The call fails in the API, which answers 500 or dies.
ApiFails(c) ==
  /\ FaultAllowed /\ (at[c] = "idle" => Waits(c))
  /\ Fail(c)
  /\ UNCHANGED webVars

\* The administrator suspends, deletes or reinstates the user of a session.
Suspend(u) ==
  /\ ToggleUser(u)
  /\ suspended' = suspended \cup {u}
  /\ UNCHANGED <<jar, web, disturbed>>

\* What the servers and the network go on doing without the user.
Serve(c) ==
  \/ AccessAnswered(c) \/ CallRefresh(c) \/ Refreshed(c) \/ RefreshRefused(c)
  \/ CallLogin(c) \/ LoginAnswered(c) \/ CallLogout(c) \/ LogoutAnswered(c)
  \/ ApiStep(c) \/ Receive(c)

WebNext ==
  \/ \E c \in Calls :
       \/ StartFetch(c) \/ StartLogin(c) \/ StartLogout(c) \/ Serve(c)
       \/ LoseAnswer(c) \/ LoseResponse(c) \/ ApiFails(c)
       \/ Expire(c) /\ UNCHANGED webVars
  \/ ExpireAccess
  \/ \E u \in Users : Suspend(u)

WebSpec == WebInit /\ [][WebNext]_vars

-----------------------------------------------------------------------------
\* Every variable has its type; what a request carries and what the jar
\* holds was handed out by the API.
WebTypeOK ==
  /\ AuthTypeOK
  /\ jar.access \in BOOLEAN /\ jar.refresh \in Minted \cup {NoToken}
  /\ \A c \in Calls :
       /\ web[c].kind \in {"none", "fetch", "login", "logout"}
       /\ web[c].place \in {"idle", "sending", "refreshing", "loggingIn",
                            "loggingOut", "replied", "done", "lost"}
       /\ web[c].refresh \in Minted \cup {NoToken}
       /\ web[c].cookies = "set" => Grant(c) \in Minted
  /\ disturbed \subseteq Calls /\ suspended \subseteq Users

\* The browser holds a token of an open session that was exchanged already.
Stranded ==
  /\ jar.refresh # NoToken
  /\ jar.refresh.session \in Open /\ jar.refresh \notin Accepted

\* However the responses of overlapping requests are ordered, the browser is
\* never left with a spent token: the current one is in a response that is
\* on its way, or was in an answer or a response that never arrived.
JarNotStranded ==
  Stranded => LET c == secret[jar.refresh.session] IN UnderWay(c) \/ Lost(c)

\* "Session expired" is the truth for a request that overlapped no other and
\* came after no loss: the session it carried is over, or its user was
\* suspended.  Not so when the API failed: RefreshRefused takes a 500 for a
\* refusal and throws an open session away.
SignedOutOnlyWhenOver ==
  \A c \in Calls \ disturbed :
    web[c].result = "expired" /\ at[c] # "failed"
      => LET s == web[c].refresh.session IN
           s \notin Open \/ owner[s] \in suspended

\* A logout that overlapped nothing ends the session when the API answered
\* it with anything but a failure.  Whatever became of the call (it failed,
\* or never reached the API, and the session stays open), the browser that
\* receives the response never gets the session back.
LogoutAloneEnds ==
  \A c \in Calls \ disturbed :
    web[c].kind = "logout" =>
      LET s == web[c].refresh.session IN
      /\ web[c].result = "ok" /\ at[c] # "failed" => s \notin Open
      /\ web[c].place = "done" => jar.refresh = NoToken \/ jar.refresh.session # s
=============================================================================
