\* Two addresses, two requests; an idle visitor is kept for three units, a
\* request may stall for one, a bucket needs exactly the three left to fill.
SPECIFICATION FairSpec
CONSTANTS
  Ips = {i1, i2}
  Requests = {q1, q2}
  Limiters = {1, 2, 3}
  Burst = 3
  Refill = 1
  TTL = 3
  Interval = 2
  Gap = 1
  None = None
INVARIANTS
  TypeOK
  OneLimiterPerAddress
PROPERTIES
  ImplementsBucket
  IdleIsForgotten
