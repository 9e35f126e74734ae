----------------------------- MODULE TokenBucket -----------------------------
(***************************************************************************)
(* What the IP rate limiter promises: every client address has one token   *)
(* bucket that is never forgotten.  A request passes by taking a token of  *)
(* its own address, and is rejected only when that bucket is empty.        *)
(***************************************************************************)
EXTENDS Integers

CONSTANTS Ips,     \* client addresses
          Burst,   \* size of a bucket
          Refill,  \* tokens per unit of time
          None     \* no answer yet

VARIABLES bucket, \* bucket[ip]: tokens left to address ip
          answer  \* the last answer given: whom, and "pass" or "reject"

vars == <<bucket, answer>>

Init == bucket = [ip \in Ips |-> Burst] /\ answer = None

Pass(ip) == /\ bucket[ip] > 0
            /\ bucket' = [bucket EXCEPT ![ip] = @ - 1]
            /\ answer' = [ip |-> ip, verdict |-> "pass"]

Reject(ip) == /\ bucket[ip] = 0
              /\ answer' = [ip |-> ip, verdict |-> "reject"]
              /\ UNCHANGED bucket

Fill == /\ bucket' = [ip \in Ips |-> IF bucket[ip] + Refill < Burst
                                     THEN bucket[ip] + Refill ELSE Burst]
        /\ UNCHANGED answer

Next == Fill \/ \E ip \in Ips : Pass(ip) \/ Reject(ip)

Spec == Init /\ [][Next]_vars
=============================================================================
