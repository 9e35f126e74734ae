---------------------------- MODULE MCRateLimiter ----------------------------
(* Small instances of the rate limiter for TLC. *)
EXTENDS RateLimiter
=============================================================================
