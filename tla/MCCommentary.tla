---------------------------- MODULE MCCommentary ----------------------------
(* Small instances of one match, its commentary requests and its viewers for TLC. *)
EXTENDS LiveMatch
=============================================================================
