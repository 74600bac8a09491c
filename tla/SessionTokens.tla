--------------------------- MODULE SessionTokens ---------------------------
(***************************************************************************)
(* What the API promises about refresh tokens, whatever its clients send   *)
(* and however their calls overlap.  A token names the session it belongs  *)
(* to.  A session has at most one accepted token; an accepted token can be *)
(* exchanged once, for a token of the same session never handed out        *)
(* before; and a session that has ended accepts nothing ever again.        *)
(***************************************************************************)
CONSTANTS Names     \* the random ids and secrets the API draws

VARIABLES
  accepted,         \* the tokens /auth/refresh would exchange
  minted,           \* the tokens handed out so far
  spent             \* the tokens exchanged so far

Token == [session : Names, secret : Names]

Init == accepted = {} /\ minted = {} /\ spent = {}

\* A login opens a session and hands out its first token.
Open(t) ==
  /\ \A other \in minted : other.session # t.session
  /\ accepted' = accepted \cup {t}
  /\ minted' = minted \cup {t}
  /\ UNCHANGED spent

\* A refresh spends t, which was accepted, and hands out new.
Exchange(t, new) ==
  /\ new \notin minted /\ new.session = t.session
  /\ accepted' = (accepted \ {t}) \cup {new}
  /\ minted' = minted \cup {new}
  /\ spent' = spent \cup {t}

\* Sessions expire or are revoked, several at a time.
End(T) ==
  /\ accepted' = accepted \ T
  /\ UNCHANGED <<minted, spent>>

Next ==
  \/ \E t \in Token : Open(t)
  \/ \E t \in accepted : \E new \in Token : Exchange(t, new)
  \/ \E T \in SUBSET accepted : End(T)

Spec == Init /\ [][Next]_<<accepted, minted, spent>>
=============================================================================
