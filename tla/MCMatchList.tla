----------------------------- MODULE MCMatchList -----------------------------
(* Small instances of the listing of matches for TLC. *)
EXTENDS MatchList
=============================================================================
