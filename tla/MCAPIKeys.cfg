\* One key (keys share no row), two users and two requests, three instants.
SPECIFICATION Spec
CONSTANTS
  Keys = {k1}
  Users = {u1, u2}
  Requests = {q1, q2}
  RawScopes <- SomeScopes
  MaxTime = 2
  None = None
SYMMETRY Symmetry
INVARIANTS
  TypeOK
  ScopesAreSound
  UseIsInLife
PROPERTIES
  RevokedIsFrozen
  EndedIsRefused
