------------------------------ MODULE MCAPIKeys ------------------------------
(* Small instances of the API keys for TLC. *)
EXTENDS APIKeys, TLC

\* One scope, plain and padded, and one that does not exist: keys hold the
\* scope of one route and not of the other.
SomeScopes == {[text |-> MatchesWrite, padded |-> FALSE], [text |-> MatchesWrite, padded |-> TRUE],
               [text |-> "admin", padded |-> FALSE]}

\* Keys, users and requests are interchangeable.
Symmetry == Permutations(Keys) \cup Permutations(Users) \cup Permutations(Requests)
=============================================================================
