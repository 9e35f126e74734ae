--------------------------- MODULE RefreshTokens ---------------------------
(***************************************************************************)
(* What the refresh sessions of one user promise: every call takes effect  *)
(* at one instant.  A refresh token is usable from the call that issues it *)
(* until it is exchanged or revoked, and never again.                      *)
(***************************************************************************)
EXTENDS Integers

VARIABLES version, \* the user's token version
          issued,  \* number of refresh tokens issued so far
          usable   \* the refresh tokens that can be exchanged or logged out

vars == <<version, issued, usable>>

Init == version = 0 /\ issued = 0 /\ usable = {}

Token(id, family, v) == [id |-> id, family |-> family, version |-> v]

\* A login issues the first token of a family.  It may be of a version that is
\* gone by now, and then it can be logged out but not exchanged.
Login == /\ issued' = issued + 1
         /\ \E v \in 0 .. version :
              usable' = usable \cup {Token(issued + 1, issued + 1, v)}
         /\ UNCHANGED version

\* A usable token of the current version is exchanged for a new one.
Refresh == /\ issued' = issued + 1
           /\ \E t \in usable :
                /\ t.version = version
                /\ usable' = (usable \ {t}) \cup {Token(issued + 1, t.family, version)}
           /\ UNCHANGED version

Logout == /\ \E t \in usable : usable' = usable \ {t}
          /\ UNCHANGED <<version, issued>>

LogoutAll == /\ version' = version + 1
             /\ usable' = {}
             /\ UNCHANGED issued

Next == Login \/ Refresh \/ Logout \/ LogoutAll

Spec == Init /\ [][Next]_vars
=============================================================================
