\* Two requests at a time of one browser or of others, three sessions and a
\* logout-all.
SPECIFICATION CookieFairSpec
CONSTANTS
  Requests = {q1, q2}
  Browsers = {b1}
  MaxSessions = 3
  MaxVersion = 1
  None = None
INVARIANTS
  CookieTypeOK
  FamiliesAreChains
  CookieIsUsable
  NoDeadlock
PROPERTIES
  RevokedOnce
  ImplementsTokens
  CookieNeverGoesBack
  CallsEnd
