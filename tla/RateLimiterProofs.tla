-------------------------- MODULE RateLimiterProofs --------------------------
(***************************************************************************)
(* Theorems about the IP rate limiter: for any addresses, requests and     *)
(* numbers that satisfy the assumptions of RateLimiter.tla, forgetting     *)
(* idle visitors cannot be told from a bucket per address kept for ever.   *)
(***************************************************************************)
EXTENDS RateLimiter, TLAPS

IInv == TypeOK /\ LimiterInv

-----------------------------------------------------------------------------
(* Arithmetic: what is left of a visitor's life after `a` units of silence. *)

Left(a) == IF a > Gap THEN TTL + 1 - a ELSE TTL + 1 - Gap

\* A product of naturals is a natural: the fact the provers need stated.
LEMMA ProductIsNat == ASSUME NEW m \in Nat, NEW n \in Nat PROVE m * n \in Nat
  OBVIOUS

\* The rest of a life is no more than what a bucket needs to fill, and filling
\* for that long is worth a natural number of tokens.
LEMMA LeftIsNat ==
  ASSUME NEW a \in 0 .. TTL + 1
  PROVE  Left(a) \in Nat /\ Refill * Left(a) \in Nat
<1>1. Left(a) \in Nat  BY NumbersAssumption, GapAssumption DEF Left
<1> QED  BY <1>1, ProductIsNat, NumbersAssumption

\* One more unit of silence costs at most one refill.
LEMMA LeftStep ==
  ASSUME NEW a \in 0 .. TTL + 1
  PROVE  Refill * Left(a) <= Refill * Left(AtMost(a + 1, TTL + 1)) + Refill
<1> DEFINE b == AtMost(a + 1, TTL + 1)
<1>1. Left(b) = Left(a) \/ Left(b) = Left(a) - 1
  BY NumbersAssumption, GapAssumption DEF Left, AtMost
<1>2. Left(a) \in Nat /\ Refill \in Nat  BY LeftIsNat, NumbersAssumption
<1>3. Refill * (Left(a) - 1) + Refill = Refill * Left(a)  BY <1>2
<1>4. Refill * Left(a) \in Nat  BY LeftIsNat
<1> QED  BY <1>1, <1>2, <1>3, <1>4

\* FullInv in terms of Left.
LEMMA FullInvIsLeft ==
  FullInv <=> \A ip \in Ips : limiter[ip] # None =>
                Burst <= tokens[limiter[ip]] + Refill * Left(age[ip])
BY DEF FullInv, Left

LEMMA FullInvIsLeftNext ==
  FullInv' <=> \A ip \in Ips : limiter'[ip] # None =>
                 Burst <= tokens'[limiter'[ip]] + Refill * Left(age'[ip])
BY DEF FullInv, Left

-----------------------------------------------------------------------------
(* The invariant.                                                          *)

LEMMA InvInit == Init => IInv
<1> SUFFICES ASSUME Init PROVE IInv  OBVIOUS
<1> USE DEF Init
<1>1. TypeOK
  <2>1. phase \in 0 .. Interval - 1 /\ age \in [Ips -> 0 .. TTL + 1]  BY NumbersAssumption
  <2>2. tokens \in [Limiters -> 0 .. Burst] /\ wait \in [Requests -> 0 .. Gap]
    BY NumbersAssumption
  <2>3. due \in BOOLEAN /\ ctxDone \in BOOLEAN  OBVIOUS
  <2>4. /\ limiter \in [Ips -> Limiters \cup {None}]
        /\ held \in [Requests -> Limiters \cup {None}]
    OBVIOUS
  <2> QED  BY <2>1, <2>2, <2>3, <2>4 DEF TypeOK
<1>2. OneLimiterPerAddress  BY DEF OneLimiterPerAddress
<1>3. WaitInv  BY DEF WaitInv
<1>4. FullInv  BY DEF FullInv
<1> QED  BY <1>1, <1>2, <1>3, <1>4 DEF IInv, LimiterInv

\* A limiter in use is one of Limiters, and its visitor's life has Left to go.
LEMMA InUse ==
  ASSUME IInv, NEW ip \in Ips, limiter[ip] # None
  PROVE  /\ limiter[ip] \in Limiters
         /\ tokens[limiter[ip]] \in 0 .. Burst
         /\ age[ip] \in 0 .. TTL + 1
         /\ Refill * Left(age[ip]) \in Nat
         /\ Burst <= tokens[limiter[ip]] + Refill * Left(age[ip])
<1>1. limiter[ip] \in Limiters /\ tokens[limiter[ip]] \in 0 .. Burst /\ age[ip] \in 0 .. TTL + 1
  BY DEF IInv, TypeOK
<1> QED  BY <1>1, LeftIsNat, FullInvIsLeft DEF IInv, LimiterInv

\* A visitor just seen has a whole life left, enough to fill an empty bucket.
LEMMA FreshLeft == /\ Left(0) = TTL + 1 - Gap
                   /\ Burst <= Refill * Left(0)
<1>1. Left(0) = TTL + 1 - Gap  BY NumbersAssumption DEF Left
<1> QED  BY <1>1, FullAgainAssumption

\* Nobody's request holds the limiter of an expired visitor: the request would
\* have been stalled for longer than Gap.
LEMMA HeldIsYoung ==
  ASSUME IInv, NEW q \in Requests, held[q] # None
  PROVE  /\ from[q] \in Ips /\ limiter[from[q]] = held[q]
         /\ age[from[q]] \in 0 .. Gap
         /\ ~Expired(from[q])
<1>1. from[q] \in Ips /\ wait[q] \in 0 .. Gap  BY DEF IInv, TypeOK
<1>2. limiter[from[q]] = held[q] /\ age[from[q]] <= wait[q]
  BY DEF IInv, LimiterInv, OneLimiterPerAddress, WaitInv
<1>3. age[from[q]] \in 0 .. TTL + 1  BY <1>1 DEF IInv, TypeOK
<1> QED  BY <1>1, <1>2, <1>3, NumbersAssumption, GapAssumption DEF Expired

LEMMA NewVisitorInv ==
  ASSUME IInv, NEW q \in Requests, NEW ip \in Ips, NewVisitor(q, ip)
  PROVE  IInv'
<1> PICK l \in Limiters : /\ ~Referenced(l)
                          /\ limiter' = [limiter EXCEPT ![ip] = l]
                          /\ tokens' = [tokens EXCEPT ![l] = Burst]
                          /\ Got(q, ip, l)
  BY DEF NewVisitor
<1>0. l # None  BY NoneAssumption
<1>1. /\ limiter[ip] = None /\ age' = [age EXCEPT ![ip] = 0]
      /\ held' = [held EXCEPT ![q] = l] /\ from' = [from EXCEPT ![q] = ip]
      /\ wait' = [wait EXCEPT ![q] = 0] /\ UNCHANGED <<loopVars, answer>>
  BY DEF NewVisitor, Got
<1>2. TypeOK'
  BY <1>1, NumbersAssumption DEF IInv, TypeOK, loopVars
<1>3. \A p \in Requests : held'[p] # None =>
        \/ p = q
        \/ p # q /\ held'[p] = held[p] /\ from'[p] = from[p] /\ wait'[p] = wait[p] /\ from[p] # ip
  BY <1>1, HeldIsYoung DEF IInv, TypeOK
<1>4. OneLimiterPerAddress'
  <2>1. ASSUME NEW p \in Requests, held'[p] # None PROVE limiter'[from'[p]] = held'[p]
    BY <1>1, <1>3, <2>1, HeldIsYoung DEF IInv, TypeOK
  <2>2. ASSUME NEW i \in Ips, NEW j \in Ips, limiter'[i] = limiter'[j], limiter'[i] # None
        PROVE  i = j
    BY <2>2 DEF IInv, LimiterInv, OneLimiterPerAddress, TypeOK, Referenced
  <2> QED  BY <2>1, <2>2 DEF OneLimiterPerAddress
<1>5. WaitInv'
  BY <1>1, <1>3 DEF IInv, LimiterInv, WaitInv, TypeOK
<1>6. FullInv'
  <2> SUFFICES ASSUME NEW i \in Ips, limiter'[i] # None
               PROVE  Burst <= tokens'[limiter'[i]] + Refill * Left(age'[i])
    BY FullInvIsLeftNext
  <2>1. CASE i = ip
    <3>1. tokens'[limiter'[i]] = Burst /\ age'[i] = 0  BY <2>1, <1>1 DEF IInv, TypeOK
    <3>2. Refill * Left(0) \in Nat  BY LeftIsNat, NumbersAssumption
    <3> QED  BY <3>1, <3>2, NumbersAssumption
  <2>2. CASE i # ip
    <3>1. limiter'[i] = limiter[i] /\ age'[i] = age[i] /\ limiter[i] # l
      BY <2>2, <1>1 DEF IInv, TypeOK, Referenced
    <3>2. tokens'[limiter'[i]] = tokens[limiter[i]]  BY <3>1, InUse DEF IInv, TypeOK
    <3> QED  BY <3>1, <3>2, InUse
  <2> QED  BY <2>1, <2>2
<1> QED  BY <1>2, <1>4, <1>5, <1>6 DEF IInv, LimiterInv

LEMMA KnownVisitorInv ==
  ASSUME IInv, NEW q \in Requests, NEW ip \in Ips, KnownVisitor(q, ip)
  PROVE  IInv'
<1>1. /\ held[q] = None /\ limiter[ip] # None /\ age' = [age EXCEPT ![ip] = 0]
      /\ held' = [held EXCEPT ![q] = limiter[ip]] /\ from' = [from EXCEPT ![q] = ip]
      /\ wait' = [wait EXCEPT ![q] = 0]
      /\ UNCHANGED <<limiter, tokens, loopVars, answer>>
  BY DEF KnownVisitor, Got
<1>2. TypeOK'
  BY <1>1, NumbersAssumption DEF IInv, TypeOK, loopVars
<1>3. OneLimiterPerAddress'
  BY <1>1 DEF IInv, LimiterInv, OneLimiterPerAddress, TypeOK
<1>4. WaitInv'
  BY <1>1, NumbersAssumption DEF IInv, LimiterInv, WaitInv, TypeOK
<1>5. FullInv'
  <2> SUFFICES ASSUME NEW i \in Ips, limiter'[i] # None
               PROVE  Burst <= tokens'[limiter'[i]] + Refill * Left(age'[i])
    BY FullInvIsLeftNext
  <2>1. limiter'[i] = limiter[i] /\ tokens'[limiter'[i]] = tokens[limiter[i]]  BY <1>1
  <2>2. age'[i] = 0 \/ age'[i] = age[i]  BY <1>1 DEF IInv, TypeOK
  <2>3. tokens[limiter[i]] \in Nat  BY <2>1, InUse, NumbersAssumption
  <2>4. Refill * Left(0) \in Nat  BY LeftIsNat, NumbersAssumption
  <2> QED  BY <2>1, <2>2, <2>3, <2>4, InUse, FreshLeft, NumbersAssumption
<1> QED  BY <1>2, <1>3, <1>4, <1>5 DEF IInv, LimiterInv

LEMMA PassInv ==
  ASSUME IInv, NEW q \in Requests, Pass(q)
  PROVE  IInv'
<1>1. /\ held[q] # None /\ tokens[held[q]] > 0
      /\ tokens' = [tokens EXCEPT ![held[q]] = @ - 1]
      /\ held' = [held EXCEPT ![q] = None] /\ wait' = [wait EXCEPT ![q] = 0]
      /\ answer' = [ip |-> from[q], verdict |-> "pass"]
      /\ UNCHANGED <<limiter, age, loopVars, from>>
  BY DEF Pass, Answer, visitorVars
<1>2. TypeOK'
  BY <1>1, NumbersAssumption DEF IInv, TypeOK, loopVars
<1>3. OneLimiterPerAddress'
  BY <1>1 DEF IInv, LimiterInv, OneLimiterPerAddress, TypeOK
<1>4. WaitInv'
  BY <1>1 DEF IInv, LimiterInv, WaitInv, TypeOK
<1>5. FullInv'
  <2> SUFFICES ASSUME NEW i \in Ips, limiter'[i] # None
               PROVE  Burst <= tokens'[limiter'[i]] + Refill * Left(age'[i])
    BY FullInvIsLeftNext
  <2>1. limiter'[i] = limiter[i] /\ age'[i] = age[i]  BY <1>1
  <2>2. CASE limiter[i] = held[q]
    <3>1. i = from[q] /\ age[i] \in 0 .. Gap
      BY <2>1, <2>2, <1>1, HeldIsYoung DEF IInv, LimiterInv, OneLimiterPerAddress
    <3>2. Left(age[i]) = Left(0)  BY <3>1, NumbersAssumption DEF Left
    <3>3. tokens'[limiter'[i]] \in Nat  BY <1>2, <2>1, InUse, NumbersAssumption DEF TypeOK
    <3>4. Refill * Left(0) \in Nat  BY LeftIsNat, NumbersAssumption
    <3> QED  BY <2>1, <3>2, <3>3, <3>4, FreshLeft, NumbersAssumption
  <2>3. CASE limiter[i] # held[q]
    <3>1. tokens'[limiter'[i]] = tokens[limiter[i]]  BY <1>1, <2>1, <2>3, InUse DEF IInv, TypeOK
    <3> QED  BY <2>1, <3>1, InUse
  <2> QED  BY <2>2, <2>3
<1> QED  BY <1>2, <1>3, <1>4, <1>5 DEF IInv, LimiterInv

LEMMA RejectInv ==
  ASSUME IInv, NEW q \in Requests, Reject(q)
  PROVE  IInv'
<1>1. /\ held[q] # None
      /\ held' = [held EXCEPT ![q] = None] /\ wait' = [wait EXCEPT ![q] = 0]
      /\ answer' = [ip |-> from[q], verdict |-> "reject"]
      /\ UNCHANGED <<limiter, age, tokens, loopVars, from>>
  BY DEF Reject, Answer, visitorVars
<1>2. TypeOK'
  BY <1>1, NumbersAssumption DEF IInv, TypeOK, loopVars
<1>3. OneLimiterPerAddress' /\ WaitInv'
  BY <1>1 DEF IInv, LimiterInv, OneLimiterPerAddress, WaitInv, TypeOK
<1>4. FullInv'
  BY <1>1 DEF IInv, LimiterInv, FullInv
<1> QED  BY <1>2, <1>3, <1>4 DEF IInv, LimiterInv

LEMMA CleanupInv ==
  ASSUME IInv, Cleanup
  PROVE  IInv'
<1>1. /\ limiter' = [ip \in Ips |-> IF Expired(ip) THEN None ELSE limiter[ip]]
      /\ age' = [ip \in Ips |-> IF Expired(ip) THEN 0 ELSE age[ip]]
      /\ due' = FALSE
      /\ UNCHANGED <<tokens, held, from, wait, phase, loop, ctxDone, answer>>
  BY DEF Cleanup, requestVars
<1>2. TypeOK'
  <2>1. limiter' \in [Ips -> Limiters \cup {None}]  BY <1>1 DEF IInv, TypeOK
  <2>2. age' \in [Ips -> 0 .. TTL + 1]  BY <1>1, NumbersAssumption DEF IInv, TypeOK
  <2> QED  BY <1>1, <2>1, <2>2 DEF IInv, TypeOK
<1>3. \A q \in Requests : held'[q] # None =>
        limiter'[from'[q]] = limiter[from[q]] /\ age'[from'[q]] = age[from[q]]
  BY <1>1, HeldIsYoung
<1>4. OneLimiterPerAddress' /\ WaitInv'
  BY <1>1, <1>3 DEF IInv, LimiterInv, OneLimiterPerAddress, WaitInv
<1>5. FullInv'
  BY <1>1 DEF IInv, LimiterInv, FullInv
<1> QED  BY <1>2, <1>4, <1>5 DEF IInv, LimiterInv

LEMMA TickInv ==
  ASSUME IInv, Tick
  PROVE  IInv'
<1>1. /\ tokens' = [l \in Limiters |-> AtMost(tokens[l] + Refill, Burst)]
      /\ age' = [ip \in Ips |-> IF limiter[ip] = None THEN 0 ELSE AtMost(age[ip] + 1, TTL + 1)]
      /\ wait' = [q \in Requests |-> IF held[q] = None THEN 0 ELSE wait[q] + 1]
      /\ phase' = (phase + 1) % Interval /\ due' = (due \/ phase' = 0)
      /\ \A q \in Requests : held[q] # None => wait[q] < Gap
      /\ UNCHANGED <<limiter, held, from, loop, ctxDone, answer>>
  BY DEF Tick
<1>2. TypeOK'
  <2>1. tokens' \in [Limiters -> 0 .. Burst]
    BY <1>1, NumbersAssumption DEF IInv, TypeOK, AtMost
  <2>2. age' \in [Ips -> 0 .. TTL + 1]
    BY <1>1, NumbersAssumption DEF IInv, TypeOK, AtMost
  <2>3. wait' \in [Requests -> 0 .. Gap]
    BY <1>1, NumbersAssumption DEF IInv, TypeOK
  <2>4. phase' \in 0 .. Interval - 1 /\ due' \in BOOLEAN
    BY <1>1, NumbersAssumption DEF IInv, TypeOK
  <2> QED  BY <1>1, <2>1, <2>2, <2>3, <2>4 DEF IInv, TypeOK
<1>3. OneLimiterPerAddress'
  BY <1>1 DEF IInv, LimiterInv, OneLimiterPerAddress
<1>4. WaitInv'
  <2> SUFFICES ASSUME NEW q \in Requests, held'[q] # None
               PROVE  age'[from'[q]] <= wait'[q]
    BY DEF WaitInv
  <2>1. held[q] # None /\ from[q] \in Ips /\ limiter[from[q]] = held[q] /\ wait[q] \in 0 .. Gap
    BY <1>1, HeldIsYoung DEF IInv, TypeOK
  <2>2. age[from[q]] <= wait[q] /\ age[from[q]] \in 0 .. TTL + 1
    BY <2>1 DEF IInv, LimiterInv, WaitInv, TypeOK
  <2>3. age'[from'[q]] = AtMost(age[from[q]] + 1, TTL + 1) /\ wait'[q] = wait[q] + 1
    BY <1>1, <2>1
  <2> QED  BY <2>1, <2>2, <2>3, NumbersAssumption DEF AtMost
<1>5. FullInv'
  <2> SUFFICES ASSUME NEW i \in Ips, limiter'[i] # None
               PROVE  Burst <= tokens'[limiter'[i]] + Refill * Left(age'[i])
    BY FullInvIsLeftNext
  <2>1. limiter'[i] = limiter[i] /\ limiter[i] # None  BY <1>1
  <2>2. age'[i] = AtMost(age[i] + 1, TTL + 1) /\ age[i] \in 0 .. TTL + 1
    BY <1>1, <2>1, InUse
  <2>3. tokens'[limiter'[i]] = AtMost(tokens[limiter[i]] + Refill, Burst)
    BY <1>1, <2>1, InUse
  <2>4. Refill * Left(age[i]) <= Refill * Left(age'[i]) + Refill
    BY <2>2, LeftStep
  <2>5. Refill * Left(age'[i]) \in Nat /\ Refill * Left(age[i]) \in Nat
    BY <1>2, <2>2, LeftIsNat DEF TypeOK
  <2>6. Burst <= tokens[limiter[i]] + Refill * Left(age[i]) /\ tokens[limiter[i]] \in 0 .. Burst
    BY <2>1, InUse
  <2> HIDE DEF Left
  <2> QED  BY <2>3, <2>4, <2>5, <2>6, NumbersAssumption DEF AtMost
<1> QED  BY <1>2, <1>3, <1>4, <1>5 DEF IInv, LimiterInv

LEMMA InvNext == IInv /\ [Next]_vars => IInv'
<1> SUFFICES ASSUME IInv, [Next]_vars PROVE IInv'  OBVIOUS
<1>1. CASE Tick  BY <1>1, TickInv
<1>2. CASE Cleanup  BY <1>2, CleanupInv
<1>3. CASE LoopEnds \/ Cancel \/ UNCHANGED vars
  <2>1. UNCHANGED <<limiter, age, tokens, held, from, wait, phase, due, answer>>
    BY <1>3 DEF LoopEnds, Cancel, vars, visitorVars, requestVars
  <2>2. loop' \in {"running", "ended"} /\ ctxDone' \in BOOLEAN
    BY <1>3 DEF LoopEnds, Cancel, vars, IInv, TypeOK
  <2>3. TypeOK'  BY <2>1, <2>2 DEF IInv, TypeOK
  <2>4. LimiterInv'
    BY <2>1 DEF IInv, LimiterInv, OneLimiterPerAddress, WaitInv, FullInv
  <2> QED  BY <2>3, <2>4 DEF IInv
<1>4. ASSUME NEW q \in Requests, Pass(q) PROVE IInv'  BY <1>4, PassInv
<1>5. ASSUME NEW q \in Requests, Reject(q) PROVE IInv'  BY <1>5, RejectInv
<1>6. ASSUME NEW q \in Requests, NEW ip \in Ips, NewVisitor(q, ip) PROVE IInv'
  BY <1>6, NewVisitorInv
<1>7. ASSUME NEW q \in Requests, NEW ip \in Ips, KnownVisitor(q, ip) PROVE IInv'
  BY <1>7, KnownVisitorInv
<1> QED  BY <1>1, <1>2, <1>3, <1>4, <1>5, <1>6, <1>7 DEF Next

LEMMA Invariance == Spec => []IInv
<1>1. Init => IInv  BY InvInit
<1>2. IInv /\ [Next]_vars => IInv'  BY InvNext
<1> QED  BY <1>1, <1>2, PTL DEF Spec

\* Every variable of the limiter keeps its type: a bucket is never overdrawn,
\* however many requests ask it at the same time.
THEOREM LimiterTypeCorrect == Spec => []TypeOK
<1>1. IInv => TypeOK  BY DEF IInv
<1> QED  BY <1>1, Invariance, PTL

\* The sweep between a request's lookup and its Allow never leaves two limiters
\* in use for one address, whatever the ticker does.
THEOREM AddressHasOneLimiter == Spec => []OneLimiterPerAddress
<1>1. IInv => OneLimiterPerAddress  BY DEF IInv, LimiterInv
<1> QED  BY <1>1, Invariance, PTL

-----------------------------------------------------------------------------
(* Refinement of TokenBucket.                                              *)

\* The bucket of an address as the refinement mapping shows it.
Bucket == [ip \in Ips |-> IF limiter[ip] = None THEN Burst ELSE tokens[limiter[ip]]]

LEMMA PromiseInit == Init => Promise!Init
BY DEF Init, Promise!Init

\* A sweep changes no bucket: an expired visitor's is full.
LEMMA SweepIsInvisible ==
  ASSUME IInv, Cleanup
  PROVE  Bucket' = Bucket
<1>1. /\ limiter' = [ip \in Ips |-> IF Expired(ip) THEN None ELSE limiter[ip]]
      /\ UNCHANGED tokens
  BY DEF Cleanup
<1>2. ASSUME NEW ip \in Ips, Expired(ip) PROVE tokens[limiter[ip]] = Burst
  <2>1. age[ip] = TTL + 1 /\ limiter[ip] # None
    BY <1>2, NumbersAssumption DEF Expired, IInv, TypeOK
  <2>2. Refill * Left(age[ip]) = 0
    BY <2>1, NumbersAssumption, GapAssumption DEF Left
  <2> QED  BY <2>1, <2>2, InUse, NumbersAssumption
<1>3. ASSUME NEW ip \in Ips
      PROVE  (IF limiter'[ip] = None THEN Burst ELSE tokens'[limiter'[ip]])
             = (IF limiter[ip] = None THEN Burst ELSE tokens[limiter[ip]])
  BY <1>1, <1>2 DEF Expired
<1> QED  BY <1>3 DEF Bucket

LEMMA PromiseNext ==
  ASSUME IInv, [Next]_vars
  PROVE  [Promise!Next]_(Promise!vars)
<1> USE DEF Promise!Next, Promise!vars
<1>0. ASSUME Bucket' = Bucket, UNCHANGED answer PROVE [Promise!Next]_(Promise!vars)
  BY <1>0 DEF Bucket
<1>1. CASE Tick
  <2>1. /\ tokens' = [l \in Limiters |-> AtMost(tokens[l] + Refill, Burst)]
        /\ UNCHANGED <<limiter, answer>>
    BY <1>1 DEF Tick
  <2>2. ASSUME NEW ip \in Ips
        PROVE  Bucket'[ip] = IF Bucket[ip] + Refill < Burst THEN Bucket[ip] + Refill ELSE Burst
    BY <2>1, InUse, NumbersAssumption DEF Bucket, AtMost
  <2>3. Promise!Fill  BY <2>1, <2>2 DEF Promise!Fill, Bucket
  <2> QED  BY <2>3
<1>2. CASE Cleanup
  <2>1. UNCHANGED answer  BY <1>2 DEF Cleanup
  <2> QED  BY <1>0, <1>2, <2>1, SweepIsInvisible
<1>3. CASE LoopEnds \/ Cancel \/ UNCHANGED vars
  <2>1. UNCHANGED <<limiter, tokens, answer>>
    BY <1>3 DEF LoopEnds, Cancel, vars, visitorVars
  <2> QED  BY <1>0, <2>1 DEF Bucket
<1>4. ASSUME NEW q \in Requests, Pass(q) PROVE [Promise!Next]_(Promise!vars)
  <2>1. /\ held[q] # None /\ tokens[held[q]] > 0
        /\ tokens' = [tokens EXCEPT ![held[q]] = @ - 1]
        /\ answer' = [ip |-> from[q], verdict |-> "pass"]
        /\ UNCHANGED limiter
    BY <1>4 DEF Pass, Answer, visitorVars
  <2>2. from[q] \in Ips /\ limiter[from[q]] = held[q]  BY <2>1, HeldIsYoung
  <2>3. Bucket[from[q]] = tokens[held[q]]  BY <2>1, <2>2 DEF Bucket
  <2>4. ASSUME NEW ip \in Ips
        PROVE  Bucket'[ip] = IF ip = from[q] THEN tokens[held[q]] - 1 ELSE Bucket[ip]
    <3>1. CASE limiter[ip] = None  BY <2>1, <2>2, <3>1 DEF Bucket
    <3>2. CASE limiter[ip] # None
      <4>1. limiter[ip] = held[q] <=> ip = from[q]
        BY <2>1, <2>2, <3>2 DEF IInv, LimiterInv, OneLimiterPerAddress
      <4>2. tokens'[limiter[ip]] = IF ip = from[q] THEN tokens[held[q]] - 1
                                   ELSE tokens[limiter[ip]]
        BY <2>1, <3>2, <4>1, InUse DEF IInv, TypeOK
      <4> QED  BY <2>1, <3>2, <4>2 DEF Bucket
    <3> QED  BY <3>1, <3>2
  <2>5. Bucket' = [Bucket EXCEPT ![from[q]] = @ - 1]  BY <2>2, <2>3, <2>4 DEF Bucket
  <2>6. Promise!Pass(from[q])  BY <2>1, <2>3, <2>5 DEF Promise!Pass, Bucket
  <2> HIDE DEF Promise!vars
  <2> QED  BY <2>2, <2>6 DEF Promise!Pass
<1>5. ASSUME NEW q \in Requests, Reject(q) PROVE [Promise!Next]_(Promise!vars)
  <2>1. /\ held[q] # None /\ tokens[held[q]] = 0
        /\ answer' = [ip |-> from[q], verdict |-> "reject"]
        /\ UNCHANGED <<limiter, tokens>>
    BY <1>5 DEF Reject, Answer, visitorVars
  <2>2. from[q] \in Ips /\ limiter[from[q]] = held[q]  BY <2>1, HeldIsYoung
  <2>3. Promise!Reject(from[q])  BY <2>1, <2>2 DEF Promise!Reject
  <2> QED  BY <2>2, <2>3
<1>6. ASSUME NEW q \in Requests, NEW ip \in Ips, NewVisitor(q, ip)
      PROVE  [Promise!Next]_(Promise!vars)
  <2> PICK l \in Limiters : /\ ~Referenced(l)
                            /\ limiter' = [limiter EXCEPT ![ip] = l]
                            /\ tokens' = [tokens EXCEPT ![l] = Burst]
                            /\ Got(q, ip, l)
    BY <1>6 DEF NewVisitor
  <2>1. limiter[ip] = None /\ UNCHANGED answer  BY <1>6 DEF NewVisitor, Got
  <2>2. ASSUME NEW j \in Ips
        PROVE  (IF limiter'[j] = None THEN Burst ELSE tokens'[limiter'[j]])
               = (IF limiter[j] = None THEN Burst ELSE tokens[limiter[j]])
    <3>1. CASE j = ip  BY <2>1, <3>1, NoneAssumption DEF IInv, TypeOK
    <3>2. CASE j # ip
      <4>1. limiter'[j] = limiter[j] /\ limiter[j] # l  BY <3>2 DEF IInv, TypeOK, Referenced
      <4> QED  BY <4>1, InUse DEF IInv, TypeOK
    <3> QED  BY <3>1, <3>2
  <2>3. Bucket' = Bucket  BY <2>2 DEF Bucket
  <2> QED  BY <1>0, <2>1, <2>3
<1>7. ASSUME NEW q \in Requests, NEW ip \in Ips, KnownVisitor(q, ip)
      PROVE  [Promise!Next]_(Promise!vars)
  <2>1. UNCHANGED <<limiter, tokens, answer>>  BY <1>7 DEF KnownVisitor, Got
  <2> QED  BY <1>0, <2>1 DEF Bucket
<1> QED  BY <1>1, <1>2, <1>3, <1>4, <1>5, <1>6, <1>7 DEF Next

\* Forgetting idle visitors is invisible: the limiter implements one bucket per
\* address that is never forgotten, for any addresses and any number of
\* requests, whenever a bucket fills up in the time an idle visitor is kept.
THEOREM LimiterImplementsBucket == Spec => ImplementsBucket
<1>1. Init => Promise!Init  BY PromiseInit
<1>2. IInv /\ [Next]_vars => [Promise!Next]_(Promise!vars)  BY PromiseNext
<1> QED  BY <1>1, <1>2, Invariance, PTL DEF Spec, ImplementsBucket, Promise!Spec
=============================================================================
