---------------------------- MODULE MCWebSession ----------------------------
(* A small instance of WebSession for TLC.                                 *)
EXTENDS WebSession, TLC

\* Bound: there is a fault or a suspension, not both.
OneTrouble == suspended = {} \/ \A c \in Calls : ~Faulty(c)
MCSpec == WebInit /\ [][WebNext /\ OneTrouble']_vars
=============================================================================
