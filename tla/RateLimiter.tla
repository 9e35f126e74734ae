----------------------------- MODULE RateLimiter -----------------------------
(***************************************************************************)
(* The IP rate limiter (middleware/rate_limit.go): request goroutines look *)
(* up the limiter of their address under l.mu and ask it for a token after *)
(* the unlock, while the cleanup goroutine forgets idle addresses.         *)
(*                                                                         *)
(* Time is counted in units; age, wait and phase stand for the differences *)
(* of clock readings that the code compares.  A golang.org/x/time/rate     *)
(* limiter is a bucket of whole tokens.                                    *)
(***************************************************************************)
EXTENDS Integers

CONSTANTS Ips,      \* client addresses
          Requests, \* request goroutines
          Limiters, \* rate.Limiter objects, enough for the map and all requests
          Burst,    \* RATE_LIMIT_BURST
          Refill,   \* RATE_LIMIT_RPS, in tokens per unit of time
          TTL,      \* visitorTTL
          Interval, \* cleanupInterval
          Gap,      \* longest time from a request's lookup to its Allow
          None

ASSUME NumbersAssumption ==
  /\ Burst \in Nat /\ Refill \in Nat /\ TTL \in Nat /\ Gap \in Nat
  /\ Interval \in Nat \ {0}
ASSUME NoneAssumption == None \notin Ips \cup Limiters

\* The Go scheduler does not hold a request longer than visitorTTL.
ASSUME GapAssumption == Gap <= TTL
\* A bucket fills up again in the time an idle visitor is kept.
ASSUME FullAgainAssumption == Burst <= Refill * (TTL + 1 - Gap)

VARIABLES
  limiter,  \* limiter[ip]: the limiter of visitors[ip], or None
  age,      \* age[ip]: time since visitors[ip].lastSeen
  tokens,   \* tokens[l]: tokens in limiter l
  held,     \* held[q]: the limiter request q got and has not asked yet, or None
  from,     \* from[q]: the address of request q
  wait,     \* wait[q]: time since q's lookup
  phase,    \* time since the ticker's last tick
  due,      \* a tick waits in ticker.C
  loop,     \* the cleanup goroutine: "running" or "ended"
  ctxDone,  \* the application's context is cancelled
  answer    \* the last answer given

visitorVars == <<limiter, age>>
requestVars == <<held, from, wait>>
loopVars == <<phase, due, loop, ctxDone>>
vars == <<limiter, age, tokens, held, from, wait, phase, due, loop, ctxDone, answer>>

AtMost(n, cap) == IF n < cap THEN n ELSE cap

Init == /\ limiter = [ip \in Ips |-> None]
        /\ age = [ip \in Ips |-> 0]
        /\ tokens = [l \in Limiters |-> Burst]
        /\ held = [q \in Requests |-> None]
        /\ from \in [Requests -> Ips]
        /\ wait = [q \in Requests |-> 0]
        /\ phase = 0 /\ due = FALSE /\ loop = "running" /\ ctxDone = FALSE
        /\ answer = None

\* l is referenced by the map or by a request.
Referenced(l) == \/ \E ip \in Ips : limiter[ip] = l
                 \/ \E q \in Requests : held[q] = l

\* q has got limiter l and left the critical section.
Got(q, ip, l) == /\ held' = [held EXCEPT ![q] = l]
                 /\ from' = [from EXCEPT ![q] = ip]
                 /\ wait' = [wait EXCEPT ![q] = 0]
                 /\ UNCHANGED <<loopVars, answer>>

\* getVisitor of an address that is not in the map: a new, full limiter.
NewVisitor(q, ip) ==
  /\ held[q] = None /\ limiter[ip] = None
  /\ \E l \in Limiters :
       /\ ~Referenced(l)
       /\ limiter' = [limiter EXCEPT ![ip] = l]
       /\ tokens' = [tokens EXCEPT ![l] = Burst]
       /\ Got(q, ip, l)
  /\ age' = [age EXCEPT ![ip] = 0]

\* Faulty variant of KnownVisitor: lastSeen is not written.
KnownVisitorUnseen(q, ip) ==
  /\ held[q] = None /\ limiter[ip] # None
  /\ Got(q, ip, limiter[ip])
  /\ UNCHANGED <<visitorVars, tokens>>

\* getVisitor of an address that is in the map.
KnownVisitor(q, ip) ==
  /\ held[q] = None /\ limiter[ip] # None
  /\ age' = [age EXCEPT ![ip] = 0]
  /\ Got(q, ip, limiter[ip])
  /\ UNCHANGED <<limiter, tokens>>

Answer(q, verdict) == /\ answer' = [ip |-> from[q], verdict |-> verdict]
                      /\ held' = [held EXCEPT ![q] = None]
                      /\ wait' = [wait EXCEPT ![q] = 0]
                      /\ UNCHANGED <<visitorVars, loopVars, from>>

\* Faulty variant of Pass: the verdict of Allow() is not looked at.
PassUnchecked(q) == /\ held[q] # None
                    /\ tokens' = [tokens EXCEPT ![held[q]] = @ - 1]
                    /\ Answer(q, "pass")

\* limiter.Allow() with a token left: the request goes on.
Pass(q) == /\ held[q] # None /\ tokens[held[q]] > 0
           /\ tokens' = [tokens EXCEPT ![held[q]] = @ - 1]
           /\ Answer(q, "pass")

\* limiter.Allow() without: 429.
Reject(q) == /\ held[q] # None /\ tokens[held[q]] = 0
             /\ Answer(q, "reject")
             /\ UNCHANGED tokens

-----------------------------------------------------------------------------
(* The cleanup goroutine.                                                  *)

\* Faulty variant of Expired: every visitor is taken for an idle one.
ExpiredAlways(ip) == limiter[ip] # None

\* now.Sub(v.lastSeen) > l.visitorTTL
Expired(ip) == limiter[ip] # None /\ age[ip] > TTL

\* Faulty variant of Cleanup: the goroutine returns after one sweep.
CleanupOnce ==
  /\ loop = "running" /\ due
  /\ limiter' = [ip \in Ips |-> IF Expired(ip) THEN None ELSE limiter[ip]]
  /\ age' = [ip \in Ips |-> IF Expired(ip) THEN 0 ELSE age[ip]]
  /\ due' = FALSE /\ loop' = "ended"
  /\ UNCHANGED <<tokens, requestVars, phase, ctxDone, answer>>

\* cleanupExpiredVisitors
Cleanup ==
  /\ loop = "running" /\ due
  /\ limiter' = [ip \in Ips |-> IF Expired(ip) THEN None ELSE limiter[ip]]
  /\ age' = [ip \in Ips |-> IF Expired(ip) THEN 0 ELSE age[ip]]
  /\ due' = FALSE
  /\ UNCHANGED <<tokens, requestVars, phase, loop, ctxDone, answer>>

\* case <-ctx.Done(); a pending tick may still be served before it.
LoopEnds == /\ loop = "running" /\ ctxDone
            /\ loop' = "ended"
            /\ UNCHANGED <<visitorVars, tokens, requestVars, phase, due, ctxDone, answer>>

\* appCancel in main.
Cancel == /\ ~ctxDone /\ ctxDone' = TRUE
          /\ UNCHANGED <<visitorVars, tokens, requestVars, phase, due, loop, answer>>

\* A unit of time passes: limiters fill up, and the ticker drops a tick that
\* finds another one waiting.
Tick ==
  /\ \A q \in Requests : held[q] # None => wait[q] < Gap
  /\ tokens' = [l \in Limiters |-> AtMost(tokens[l] + Refill, Burst)]
  /\ age' = [ip \in Ips |-> IF limiter[ip] = None THEN 0 ELSE AtMost(age[ip] + 1, TTL + 1)]
  /\ wait' = [q \in Requests |-> IF held[q] = None THEN 0 ELSE wait[q] + 1]
  /\ phase' = (phase + 1) % Interval
  /\ due' = (due \/ phase' = 0)
  /\ UNCHANGED <<limiter, held, from, loop, ctxDone, answer>>

Next == \/ Tick \/ Cleanup \/ LoopEnds \/ Cancel
        \/ \E q \in Requests : \/ Pass(q) \/ Reject(q)
                               \/ \E ip \in Ips : NewVisitor(q, ip) \/ KnownVisitor(q, ip)

Spec == Init /\ [][Next]_vars

\* Time goes on, goroutines that can run do; nothing makes a client call.
FairSpec == /\ Spec /\ WF_vars(Tick) /\ WF_vars(Cleanup) /\ WF_vars(LoopEnds)
            /\ \A q \in Requests : WF_vars(Pass(q) \/ Reject(q))

-----------------------------------------------------------------------------
(* Properties.                                                             *)

\* Every variable has its type.
TypeOK ==
  /\ limiter \in [Ips -> Limiters \cup {None}]
  /\ age \in [Ips -> 0 .. TTL + 1]
  /\ tokens \in [Limiters -> 0 .. Burst]
  /\ held \in [Requests -> Limiters \cup {None}]
  /\ from \in [Requests -> Ips]
  /\ wait \in [Requests -> 0 .. Gap]
  /\ phase \in 0 .. Interval - 1
  /\ due \in BOOLEAN /\ loop \in {"running", "ended"} /\ ctxDone \in BOOLEAN
  /\ answer \in [ip : Ips, verdict : {"pass", "reject"}] \cup {None}

\* All requests of an address that have not asked for their token yet will ask
\* the limiter in the map: getVisitor's reference outlives the lock, and a
\* sweep between the unlock and Allow must not leave two buckets in use.
OneLimiterPerAddress ==
  /\ \A q \in Requests : held[q] # None => limiter[from[q]] = held[q]
  /\ \A i, j \in Ips : limiter[i] = limiter[j] /\ limiter[i] # None => i = j

\* Forgetting an address never gives it tokens: the limiter that a returning
\* client gets is one it could have had all the time, and requests of one
\* address use up the tokens of no other.
Promise == INSTANCE TokenBucket
  WITH bucket <- [ip \in Ips |-> IF limiter[ip] = None THEN Burst ELSE tokens[limiter[ip]]]
ImplementsBucket == Promise!Spec

\* An address that stays silent is forgotten while the server runs, so the map
\* does not grow with every address ever seen.
IdleIsForgotten ==
  \A ip \in Ips : limiter[ip] # None ~> (limiter[ip] = None \/ age[ip] = 0 \/ ctxDone)
-----------------------------------------------------------------------------
(* What makes OneLimiterPerAddress and ImplementsBucket inductive.          *)

\* A request looked its visitor up no earlier than the visitor was last seen.
WaitInv == \A q \in Requests : held[q] # None => age[from[q]] <= wait[q]

\* What a limiter lacks, the time since its last use refills by the time its
\* visitor expires.
FullInv ==
  \A ip \in Ips : limiter[ip] # None =>
    Burst <= tokens[limiter[ip]]
             + Refill * (IF age[ip] > Gap THEN TTL + 1 - age[ip] ELSE TTL + 1 - Gap)

LimiterInv == OneLimiterPerAddress /\ WaitInv /\ FullInv
=============================================================================
