----------------------------- MODULE MCSessions -----------------------------
(* Small instances of the refresh sessions and their cookies for TLC. *)
EXTENDS RefreshCookie
=============================================================================
